------------------------- MODULE ScopedArenaProofs -------------------------
(***************************************************************************)
(* Proofs about ScopedArena for any signals, audits, cases, skills, plans  *)
(* and bounds that the assumptions of its modules admit.                   *)
(*                                                                         *)
(* The scope ledger.  That it can be read is not inductive: an active      *)
(* entry with fewer than n_min firings would keep its status through an    *)
(* audit that breaks the provenance contract.  No such entry exists,       *)
(* because only n_min firings promote one and firings only grow; that is   *)
(* the strengthening.                                                      *)
(*                                                                         *)
(* The arena.  The governance ledger has one entry per operator and starts *)
(* empty.  While survivors are confirmed no entry has been applied, so     *)
(* what the cap retires then is unapplied; the first case that measures it *)
(* tells the backend, which offers it no more.  Every other retirement is  *)
(* caused by an application, and told in the same step.                    *)
(*                                                                         *)
(* The direction.  D1 tests both orders on the same evidence, and one      *)
(* order's wins are the other's losses.  Of any number of fair coins, at   *)
(* least k heads and at least as many tails together are certain, so two   *)
(* tests below one half cannot both pass.                                  *)
(*                                                                         *)
(* The recovery.  The probe keeps the last closed window and the length of *)
(* the run of agreeing comparisons that ends with it.                      *)
(***************************************************************************)
EXTENDS ScopedArena, RankingTheorems

-----------------------------------------------------------------------------
(* The scope ledger.                                                       *)

EntryType ==
  [fires : Nat, valid : Nat, gain : Int,
   status : {"shadow", "active", "retired"}, sound : BOOLEAN]

Ledgers == UNION {[D -> EntryType] : D \in SUBSET Keys}

Licensed(file) ==
  \A k \in DOMAIN file :
    file[k].status = "active" => file[k].sound /\ file[k].fires >= n_min

LicensedLedgers == {file \in Ledgers : Licensed(file)}

ScopeInvariant ==
  /\ entries \in LicensedLedgers
  /\ scope_file \in LicensedLedgers
  /\ history \in Seq(LicensedLedgers)

\* A key of a ledger holds an entry.
LEMMA LedgerEntry ==
  ASSUME NEW file \in Ledgers, NEW k \in DOMAIN file
  PROVE  file[k] \in EntryType /\ k \in Keys
  BY DEF Ledgers

\* What an audit judges is an entry: a known one or the shadow, with the new
\* data.  Its firings did not fall and its status is the old one.
LEMMA ExtendedEntry ==
  ASSUME entries \in Ledgers, NEW k \in Keys, NEW b \in Batches
  PROVE  /\ Extended(Entry(k), b) \in EntryType
         /\ Extended(Entry(k), b).status = Entry(k).status
         /\ Extended(Entry(k), b).fires >= Entry(k).fires
<1>1. Entry(k) \in EntryType
  <2>1. CASE k \in DOMAIN entries  BY <2>1, LedgerEntry DEF Entry
  <2>2. CASE k \notin DOMAIN entries  BY <2>2 DEF Entry, Shadow, EntryType
  <2> QED  BY <2>1, <2>2
<1>2. b.fires \in Nat /\ b.valid \in Nat /\ b.gain \in Int /\ b.sound \in BOOLEAN
  BY ScopeAssumption
<1> DEFINE e == Entry(k)
<1> HIDE DEF e
<1>3. ASSUME e \in EntryType
      PROVE  /\ Extended(e, b) \in EntryType
             /\ Extended(e, b).status = e.status
             /\ Extended(e, b).fires = e.fires + b.fires
  <2>1. /\ e.fires + b.fires \in Nat /\ e.valid + b.valid \in Nat
        /\ e.gain + b.gain \in Int
        /\ e.status \in {"shadow", "active", "retired"}
    BY <1>2, <1>3 DEF EntryType
  <2> QED  BY <2>1, <1>2 DEF Extended, EntryType
<1>4. e.fires \in Nat  BY <1>1 DEF e, EntryType
<1> QED  BY <1>1, <1>2, <1>3, <1>4 DEF e

\* The audit's verdict on a licensed entry is licensed: it is active only with a
\* sound last audit and n_min firings.
LEMMA VerdictIsLicensed ==
  ASSUME NEW e \in EntryType, NEW i,
         e.status = "active" => e.fires >= n_min,
         StatusAfter(e, i) = "active"
  PROVE  e.sound /\ e.fires >= n_min
<1>1. CASE Promotes(e, i)  BY <1>1 DEF Promotes
<1>2. CASE ~Promotes(e, i)
  <2>1. ~Retires(e, i) /\ e.status = "active"  BY <1>2 DEF StatusAfter
  <2> QED  BY <2>1 DEF Retires
<1> QED  BY <1>1, <1>2

LEMMA StatusIsAStatus ==
  ASSUME NEW e \in EntryType, NEW i
  PROVE  [e EXCEPT !.status = StatusAfter(e, i)] \in EntryType
BY DEF StatusAfter, EntryType

\* An audit leaves a licensed ledger.
LEMMA AuditKeepsLicence ==
  ASSUME entries \in LicensedLedgers, NEW k \in Keys, NEW b \in Batches, Audit(k, b)
  PROVE  entries' \in LicensedLedgers
<1> DEFINE e == Extended(Entry(k), b)
<1>1. PICK i \in Intervals(e) :
        entries' = [x \in DOMAIN entries \cup {k} |->
                      IF x = k THEN [e EXCEPT !.status = StatusAfter(e, i)]
                      ELSE entries[x]]
  BY DEF Audit
<1>2. entries \in Ledgers /\ Licensed(entries)  BY DEF LicensedLedgers
<1>3. /\ e \in EntryType /\ e.status = Entry(k).status
      /\ e.fires >= Entry(k).fires
  BY <1>2, ExtendedEntry
<1>4. e.status = "active" => e.fires >= n_min
  <2>1. CASE k \in DOMAIN entries
    <3>1. Entry(k) \in EntryType /\ Entry(k) = entries[k]
      BY <2>1, <1>2, LedgerEntry DEF Entry
    <3>2. Entry(k).status = "active" => Entry(k).fires >= n_min
      BY <2>1, <3>1, <1>2 DEF Licensed
    <3> QED  BY <1>3, <3>1, <3>2, ScopeAssumption DEF EntryType
  <2>2. CASE k \notin DOMAIN entries
    BY <2>2, <1>3 DEF Entry, Shadow
  <2> QED  BY <2>1, <2>2
<1> DEFINE f == [e EXCEPT !.status = StatusAfter(e, i)]
<1>5. f \in EntryType  BY <1>3, StatusIsAStatus
<1>6. f.status = "active" => f.sound /\ f.fires >= n_min
  <2>1. f.status = StatusAfter(e, i) /\ f.sound = e.sound /\ f.fires = e.fires
    BY <1>3 DEF EntryType
  <2> QED  BY <2>1, <1>3, <1>4, VerdictIsLicensed
<1> HIDE DEF f, e
<1>7. DOMAIN entries' = DOMAIN entries \cup {k}
      /\ \A x \in DOMAIN entries' : entries'[x] = IF x = k THEN f ELSE entries[x]
  BY <1>1 DEF f
<1>8. DOMAIN entries \subseteq Keys  BY <1>2 DEF Ledgers
<1>9. entries' \in [DOMAIN entries \cup {k} -> EntryType]
  <2>1. ASSUME NEW x \in DOMAIN entries \cup {k}
        PROVE  (IF x = k THEN f ELSE entries[x]) \in EntryType
    BY <2>1, <1>5, <1>2, LedgerEntry
  <2> QED  BY <2>1, <1>1 DEF f
<1>10. entries' \in Ledgers  BY <1>8, <1>9 DEF Ledgers
<1>11. Licensed(entries')  BY <1>7, <1>6, <1>2 DEF Licensed
<1> QED  BY <1>10, <1>11 DEF LicensedLedgers

LEMMA NoEntriesIsLicensed == NoEntries \in LicensedLedgers
<1>1. NoEntries \in [{} -> EntryType] /\ DOMAIN NoEntries = {}  BY DEF NoEntries
<1> QED  BY <1>1 DEF LicensedLedgers, Ledgers, Licensed

\* Every action keeps the ledger, the file and each undo copy licensed.
LEMMA ScopeKeepsLicence == ScopeInvariant /\ [ScopeNext]_scopeVars => ScopeInvariant'
<1> SUFFICES ASSUME ScopeInvariant, [ScopeNext]_scopeVars PROVE ScopeInvariant'
  OBVIOUS
<1>1. ASSUME NEW k \in Keys, NEW b \in Batches, Audit(k, b) PROVE ScopeInvariant'
  <2>1. entries' \in LicensedLedgers
    BY <1>1, AuditKeepsLicence DEF ScopeInvariant
  <2>2. history' = Append(history, entries) /\ scope_file' = scope_file
    BY <1>1 DEF Audit
  <2> QED  BY <2>1, <2>2 DEF ScopeInvariant
<1>2. CASE Rollback
  <2>1. /\ history # <<>> /\ scope_file' = scope_file
        /\ entries' = history[Len(history)]
        /\ history' = SubSeq(history, 1, Len(history) - 1)
    BY <1>2 DEF Rollback
  <2>2. Len(history) \in Nat \ {0} /\ Len(history) \in DOMAIN history
    BY <2>1 DEF ScopeInvariant
  <2> QED  BY <2>1, <2>2 DEF ScopeInvariant
<1>3. CASE Write  BY <1>3 DEF Write, ScopeInvariant
<1>4. CASE Read  BY <1>4 DEF Read, ScopeInvariant
<1>5. CASE UNCHANGED scopeVars  BY <1>5 DEF scopeVars, ScopeInvariant
<1> QED  BY <1>1, <1>2, <1>3, <1>4, <1>5 DEF ScopeNext

\* The arena leaves the ledger alone, except that its start ends the auditor.
LEMMA StepKeepsLicence == ScopeInvariant /\ [Next]_scopedVars => ScopeInvariant'
<1> SUFFICES ASSUME ScopeInvariant, [Next]_scopedVars PROVE ScopeInvariant'
  OBVIOUS
<1>1. CASE [ScopeNext]_scopeVars  BY <1>1, ScopeKeepsLicence
<1>2. CASE StartRun
  <2>1. entries' = NoEntries /\ scope_file' = NoEntries /\ history' = <<>>
    BY <1>2 DEF StartRun
  <2> QED  BY <2>1, NoEntriesIsLicensed DEF ScopeInvariant
<1> QED
  BY <1>1, <1>2 DEF Next, Auditing, Running, Ended, scopedVars

\* The strengthened invariant of the scope ledger.
THEOREM EveryLedgerIsLicensed == Spec => []ScopeInvariant
<1>1. Init => ScopeInvariant
  BY NoEntriesIsLicensed DEF Init, ScopeInit, ScopeInvariant
<1> QED  BY <1>1, StepKeepsLicence, PTL DEF Spec

\* Whatever audits, rollbacks, writes and restarts of the auditing process led to
\* it, read() never refuses the ledger, its file or one of its undo copies.
THEOREM LedgerStaysReadable == Spec => []LedgerIsReadable
<1>1. ScopeInvariant => LedgerIsReadable
  BY DEF ScopeInvariant, LedgerIsReadable, LicensedLedgers, Licensed, Readable
<1> QED  BY <1>1, EveryLedgerIsLicensed, PTL

\* Retired signals: the step of RetirementIsFinal.
Revives ==
  \A k \in DOMAIN entries :
    /\ entries[k].status = "retired"
    /\ ~(k \in DOMAIN entries' /\ entries'[k].status = "retired")
    => Len(history') <= Len(history)

\* No step that adds an undo copy, which only an audit does, loses a retirement.
LEMMA ScopeKeepsRetirement ==
  ScopeInvariant /\ [ScopeNext]_scopeVars => [Revives]_entries
<1> SUFFICES ASSUME ScopeInvariant, [ScopeNext]_scopeVars,
                    NEW k \in DOMAIN entries, entries[k].status = "retired",
                    ~(k \in DOMAIN entries' /\ entries'[k].status = "retired")
             PROVE  Len(history') <= Len(history)
  BY DEF Revives
<1>0. history \in Seq(LicensedLedgers) /\ Len(history) \in Nat
  BY DEF ScopeInvariant
<1>1. ASSUME NEW q \in Keys, NEW b \in Batches, Audit(q, b) PROVE FALSE
  <2> DEFINE e == Extended(Entry(q), b)
  <2>1. PICK i \in Intervals(e) :
          entries' = [x \in DOMAIN entries \cup {q} |->
                        IF x = q THEN [e EXCEPT !.status = StatusAfter(e, i)]
                        ELSE entries[x]]
    BY <1>1 DEF Audit
  <2>2. entries \in Ledgers  BY DEF ScopeInvariant, LicensedLedgers
  <2>3. e \in EntryType /\ e.status = Entry(q).status  BY <2>2, ExtendedEntry
  <2>4. CASE k # q  BY <2>1, <2>4
  <2>5. CASE k = q
    <3>1. e.status = "retired"  BY <2>5, <2>3 DEF Entry
    <3>2. StatusAfter(e, i) = "retired"
      BY <3>1 DEF StatusAfter, Promotes, Retires
    <3>3. [e EXCEPT !.status = StatusAfter(e, i)].status = "retired"
      BY <3>2, <2>3 DEF EntryType
    <3> QED  BY <2>1, <2>5, <3>3
  <2> QED  BY <2>4, <2>5
<1>2. CASE Rollback  BY <1>2, <1>0 DEF Rollback
<1>3. CASE Write  BY <1>3, <1>0 DEF Write
<1>4. CASE Read  BY <1>4, <1>0 DEF Read
<1>5. CASE UNCHANGED scopeVars  BY <1>5, <1>0 DEF scopeVars
<1> QED  BY <1>1, <1>2, <1>3, <1>4, <1>5 DEF ScopeNext

LEMMA StepKeepsRetirement == ScopeInvariant /\ [Next]_scopedVars => [Revives]_entries
<1> SUFFICES ASSUME ScopeInvariant, [Next]_scopedVars PROVE [Revives]_entries
  OBVIOUS
<1>1. CASE [ScopeNext]_scopeVars  BY <1>1, ScopeKeepsRetirement
<1>2. CASE StartRun
  <2>1. history' = <<>> /\ history \in Seq(LicensedLedgers)
    BY <1>2 DEF StartRun, ScopeInvariant
  <2>2. Len(history') <= Len(history)  BY <2>1
  <2> QED  BY <2>2 DEF Revives
<1> QED
  BY <1>1, <1>2 DEF Next, Auditing, Running, Ended, scopedVars

\* No audit ever brings a retired signal back: only a rollback or a new process
\* that reads an earlier file, or none, can.
THEOREM RetirementStaysFinal == Spec => RetirementIsFinal
<1>1. ScopeInvariant /\ [Next]_scopedVars => [Revives]_entries
  BY StepKeepsRetirement
<1>2. Spec => [][Revives]_entries
  BY <1>1, EveryLedgerIsLicensed, PTL DEF Spec
<1> QED  BY <1>2 DEF RetirementIsFinal, Revives

-----------------------------------------------------------------------------
(* Sequences that grow.                                                    *)

IsSequence(l) == l \in Seq(ToSet(l))

LEMMA SequenceDomain ==
  ASSUME NEW l, IsSequence(l)
  PROVE  Len(l) \in Nat /\ DOMAIN l = 1..Len(l)
  BY LenProperties DEF IsSequence

LEMMA EmptyIsSequence == IsSequence(<<>>) /\ Len(<<>>) = 0
  BY EmptySeq DEF IsSequence

\* A function on 1..n is a sequence of its own elements.
LEMMA FunctionIsSequence ==
  ASSUME NEW n \in Nat, NEW m, DOMAIN m = 1..n, m = [i \in 1..n |-> m[i]]
  PROVE  IsSequence(m) /\ Len(m) = n
<1>1. m \in [1..n -> ToSet(m)]  BY DEF ToSet
<1>2. m \in Seq(ToSet(m))  BY <1>1, SeqDef
<1>3. Len(m) \in Nat /\ DOMAIN m = 1..Len(m)  BY <1>2, LenProperties
<1> QED  BY <1>2, <1>3 DEF IsSequence

LEMMA AppendedSequence ==
  ASSUME NEW l, IsSequence(l), NEW e
  PROVE  /\ IsSequence(Append(l, e)) /\ Len(Append(l, e)) = Len(l) + 1
         /\ DOMAIN Append(l, e) = DOMAIN l \cup {Len(l) + 1}
         /\ \A i \in DOMAIN l : Append(l, e)[i] = l[i]
         /\ Append(l, e)[Len(l) + 1] = e
<1> DEFINE S == ToSet(l) \cup {e}
           m == Append(l, e)
<1>1. Len(l) \in Nat /\ DOMAIN l = 1..Len(l)  BY SequenceDomain
<1>2. l \in Seq(S) /\ e \in S  BY SeqMonotonic DEF IsSequence
<1> HIDE DEF S
<1>3. /\ m \in Seq(S) /\ Len(m) = Len(l) + 1
      /\ \A i \in 1..Len(l) : m[i] = l[i]
      /\ m[Len(l) + 1] = e
  BY <1>2, AppendProperties
<1>4. DOMAIN m = 1..(Len(l) + 1) /\ m = [i \in 1..(Len(l) + 1) |-> m[i]]
  BY <1>3, LenProperties
<1>5. Len(l) + 1 \in Nat  BY <1>1
<1> HIDE DEF m
<1>6. IsSequence(m)  BY <1>4, <1>5, FunctionIsSequence
<1> QED  BY <1>1, <1>3, <1>4, <1>6 DEF m

-----------------------------------------------------------------------------
(* The governance ledger of a run.                                         *)

\* An entry has the fields that decide its life.
IsWhole(e) ==
  {"fingerprint", "operator", "applied", "consecutive_failures", "retired"} \subseteq DOMAIN e

\* An entry lives until 2 * retirement_patience failures in a row, unless the cap
\* of a ledger of more than active_cap entries, here of n, retires it unapplied;
\* then it is applied at most once more.
Lives(e, n) ==
  /\ IsWhole(e) /\ e.fingerprint = ArenaId
  /\ e.applied \in Nat /\ e.consecutive_failures \in Nat /\ e.retired \in BOOLEAN
  /\ e.consecutive_failures <= e.applied
  /\ e.retired => \/ e.consecutive_failures = 2 * retirement_patience
                  \/ e.applied <= 1 /\ n > active_cap
  /\ ~e.retired => e.consecutive_failures < 2 * retirement_patience

IsLedger(l) ==
  /\ IsSequence(l)
  /\ \A i \in DOMAIN l : Lives(l[i], Len(l))
  /\ \A i, j \in DOMAIN l : l[i].operator = l[j].operator => i = j

\* A ledger of which some entries changed, none of them its operator.
LEMMA RewrittenLedger ==
  ASSUME NEW l, IsLedger(l), NEW m, DOMAIN m = DOMAIN l, m = [i \in DOMAIN m |-> m[i]],
         \A i \in DOMAIN l : Lives(m[i], Len(l)) /\ m[i].operator = l[i].operator
  PROVE  IsLedger(m) /\ Len(m) = Len(l)
<1>1. Len(l) \in Nat /\ DOMAIN l = 1..Len(l)  BY SequenceDomain DEF IsLedger
<1>2. IsSequence(m) /\ Len(m) = Len(l)  BY <1>1, FunctionIsSequence
<1> QED  BY <1>2 DEF IsLedger

\* An application of an entry that still lives, or that the cap retired unapplied.
LEMMA AppliedLives ==
  ASSUME NEW n \in Nat, NEW e, Lives(e, n), ~e.retired \/ e.applied = 0,
         NEW succeeded, NEW generation
  PROVE  /\ Lives(Applied(e, succeeded, generation), n)
         /\ Applied(e, succeeded, generation).operator = e.operator
<1>1. retirement_patience \in Nat \ {0} /\ active_cap \in Nat  BY GovernanceAssumption
<1> DEFINE f == Applied(e, succeeded, generation)
           k == e.consecutive_failures + 1
           b == 2 * retirement_patience
<1>2. /\ e.applied \in Nat /\ e.consecutive_failures \in Nat
      /\ e.consecutive_failures <= e.applied
      /\ e.fingerprint = ArenaId /\ IsWhole(e) /\ e.retired \in BOOLEAN
      /\ ~e.retired => e.consecutive_failures < b
      /\ e.retired => e.applied = 0 /\ (e.consecutive_failures = b \/ n > active_cap)
  BY DEF Lives
<1>3. b \in Nat /\ b >= 2 /\ k \in Nat  BY <1>1, <1>2
<1>4. e.retired => n > active_cap  BY <1>2, <1>3
<1> HIDE DEF b
<1>5. CASE succeeded
  <2>1. /\ DOMAIN f = DOMAIN e /\ f.fingerprint = e.fingerprint
        /\ f.operator = e.operator /\ f.retired = e.retired
        /\ f.applied = e.applied + 1 /\ f.consecutive_failures = 0
    BY <1>2, <1>5 DEF Applied, IsWhole
  <2> HIDE DEF f
  <2>2. e.retired => f.applied <= 1 /\ n > active_cap  BY <1>2, <1>4, <2>1
  <2>3. f.applied \in Nat /\ f.consecutive_failures \in Nat
        /\ f.consecutive_failures <= f.applied /\ f.consecutive_failures < b
    BY <1>2, <1>3, <2>1
  <2>4. Lives(f, n)  BY <1>2, <2>1, <2>2, <2>3 DEF Lives, IsWhole, b
  <2> QED  BY <2>1, <2>4 DEF f
<1>6. CASE ~succeeded
  <2>1. /\ DOMAIN f = DOMAIN e /\ f.fingerprint = e.fingerprint
        /\ f.operator = e.operator /\ f.applied = e.applied + 1
        /\ f.consecutive_failures = k
        /\ f.retired = (e.retired \/ k >= b)
    BY <1>2, <1>6 DEF Applied, IsWhole, b
  <2> HIDE DEF f
  <2>2. f.applied \in Nat /\ f.consecutive_failures <= f.applied
    BY <1>2, <2>1
  <2>3. CASE e.retired
    <3>1. f.retired = TRUE  BY <2>1, <2>3
    <3>2. f.applied <= 1 /\ n > active_cap  BY <1>2, <1>4, <2>1, <2>3
    <3> QED  BY <1>2, <1>3, <2>1, <2>2, <3>1, <3>2 DEF Lives, IsWhole, f
  <2>4. CASE ~e.retired
    <3>1. k <= b  BY <1>2, <1>3, <2>4
    <3>2. f.retired = (k >= b)  BY <2>1, <2>4
    <3> HIDE DEF k
    <3>3. k >= b => k = b  BY <1>3, <3>1
    <3>4. ~(k >= b) => k < b  BY <1>3
    <3>5. f.retired \in BOOLEAN  BY <3>2
    <3>6. f.retired => f.consecutive_failures = b  BY <2>1, <3>2, <3>3
    <3>7. ~f.retired => f.consecutive_failures < b  BY <2>1, <3>2, <3>4
    <3>8. Lives(f, n)
      BY <1>2, <1>3, <2>1, <2>2, <3>5, <3>6, <3>7 DEF Lives, IsWhole, b
    <3> QED  BY <2>1, <3>8 DEF f
  <2> QED  BY <2>3, <2>4
<1> QED  BY <1>5, <1>6

\* The cap retires nobody from a ledger that fits it.
LEMMA CapIsSlack ==
  ASSUME NEW l, IsSequence(l), Len(l) <= active_cap, NEW fp
  PROVE  Overflow(l, fp) = {}
<1>1. Len(l) \in Nat /\ DOMAIN l = 1..Len(l)  BY SequenceDomain
<1>2. IsFiniteSet(DOMAIN l) /\ Cardinality(DOMAIN l) = Len(l)
  <2>1. 1 \in Int /\ Len(l) \in Int  BY <1>1
  <2>2. /\ IsFiniteSet(1..Len(l))
        /\ Cardinality(1..Len(l)) = IF 1 > Len(l) THEN 0 ELSE Len(l) - 1 + 1
    BY <2>1, FS_Interval
  <2>3. Cardinality(1..Len(l)) = Len(l)  BY <2>2, <1>1
  <2> QED  BY <1>1, <2>2, <2>3
<1> DEFINE A == Active(l, fp)
<1>3. A \subseteq DOMAIN l  BY DEF Active
<1>4. IsFiniteSet(A) /\ Cardinality(A) <= Len(l) /\ Cardinality(A) \in Nat
  BY <1>2, <1>3, FS_Subset, FS_CardinalityType
<1> HIDE DEF A
<1>5. ASSUME NEW i \in A
      PROVE  ~(Cardinality({j \in A : RanksBelow(l, j, i)}) < Cardinality(A) - active_cap)
  <2> DEFINE B == {j \in A : RanksBelow(l, j, i)}
  <2>1. Cardinality(B) \in Nat
    <3>1. B \subseteq A  OBVIOUS
    <3> QED  BY <3>1, <1>4, FS_Subset, FS_CardinalityType
  <2> HIDE DEF B
  <2>2. ~(Cardinality(B) < Cardinality(A) - active_cap)
    BY <2>1, <1>1, <1>4, GovernanceAssumption
  <2> QED  BY <2>2 DEF B
<1>6. Overflow(l, fp) = {i \in A : Cardinality({j \in A : RanksBelow(l, j, i)})
                                     < Cardinality(A) - active_cap}
  BY DEF Overflow, A
<1> QED  BY <1>5, <1>6

\* What an admission does to a ledger of which nothing was applied: the known
\* entries keep their lives or are retired by the cap, a new one is alive.
LEMMA AdmitKeepsLives ==
  ASSUME NEW l, IsLedger(l), \A i \in DOMAIN l : l[i].applied = 0,
         NEW op, NEW gains, NEW generation, NEW passes
  PROVE  LET m == Admit(l, ArenaId, op, gains, generation, passes)
         IN  /\ IsLedger(m)
             /\ DOMAIN l \subseteq DOMAIN m
             /\ \A i \in DOMAIN m : m[i].applied = 0
             /\ \A i \in DOMAIN l : m[i].operator = l[i].operator
                                    /\ (l[i].retired => m[i].retired)
             /\ \A i \in DOMAIN m \ DOMAIN l : m[i].operator = op
             /\ IsAdmitted(l, ArenaId, op, gains, generation, passes) =>
                  \E i \in DOMAIN m : m[i].operator = op /\ ~m[i].retired
<1>1. Len(l) \in Nat /\ DOMAIN l = 1..Len(l) /\ IsSequence(l)
  BY SequenceDomain DEF IsLedger
<1> DEFINE m == Admit(l, ArenaId, op, gains, generation, passes)
<1>2. IsAdmitted(l, ArenaId, op, gains, generation, passes) =>
        \E i \in DOMAIN m : m[i].operator = op /\ ~m[i].retired
  BY DEF IsAdmitted, Entries
<1> SUFFICES /\ IsLedger(m)
             /\ DOMAIN l \subseteq DOMAIN m
             /\ \A i \in DOMAIN m : m[i].applied = 0
             /\ \A i \in DOMAIN l : m[i].operator = l[i].operator
                                    /\ (l[i].retired => m[i].retired)
             /\ \A i \in DOMAIN m \ DOMAIN l : m[i].operator = op
  BY <1>2
<1>3. CASE Known(l, ArenaId, op)
  <2> DEFINE n(i) == l[i].observations + Len(gains)
             g(i) == l[i].gain_sum + Total(gains)
             w(i) == l[i].low_evidence /\ LowEvidence(gains)
             E == Entries(l, ArenaId, op)
  <2>1. m = [i \in DOMAIN l |->
               IF i \in E
               THEN [l[i] EXCEPT !.observations = n(i), !.gain_sum = g(i),
                                 !.low_evidence = w(i)]
               ELSE l[i]]
    BY <1>3 DEF Admit, Deduplicate
  <2> HIDE DEF m, n, g, w, E
  <2>2. DOMAIN m = DOMAIN l /\ m = [i \in DOMAIN m |-> m[i]]  BY <2>1
  <2>3. ASSUME NEW i \in DOMAIN l
        PROVE  /\ DOMAIN m[i] = DOMAIN l[i] /\ m[i].fingerprint = l[i].fingerprint
               /\ m[i].operator = l[i].operator /\ m[i].retired = l[i].retired
               /\ m[i].applied = l[i].applied
               /\ m[i].consecutive_failures = l[i].consecutive_failures
    <3>1. IsWhole(l[i])  BY DEF IsLedger, Lives
    <3>2. CASE i \in E
      <4>1. m[i] = [l[i] EXCEPT !.observations = n(i), !.gain_sum = g(i),
                                !.low_evidence = w(i)]
        BY <2>1, <3>2
      <4> QED  BY <3>1, <4>1 DEF IsWhole
    <3>3. CASE i \notin E  BY <2>1, <3>3
    <3> QED  BY <3>2, <3>3
  <2>4. ASSUME NEW i \in DOMAIN l PROVE Lives(m[i], Len(l))
    BY <2>3 DEF IsLedger, Lives, IsWhole
  <2>5. IsLedger(m) /\ Len(m) = Len(l)  BY <2>2, <2>3, <2>4, RewrittenLedger
  <2> QED  BY <1>1, <2>2, <2>3, <2>5
<1>4. CASE ~Known(l, ArenaId, op) /\ ~passes
  BY <1>1, <1>4 DEF Admit
<1>5. CASE ~Known(l, ArenaId, op) /\ passes
  <2> DEFINE e == NewEntry(ArenaId, op, gains, generation)
             a == Append(l, e)
             C == Overflow(a, ArenaId)
  <2>0. retirement_patience \in Nat \ {0} /\ active_cap \in Nat  BY GovernanceAssumption
  <2>1. /\ \A k : Lives(e, k)
        /\ e.operator = op /\ e.applied = 0
    <3>1. /\ DOMAIN e = {"fingerprint", "operator", "observations", "gain_sum", "applied",
                         "succeeded", "consecutive_failures", "last_success_generation",
                         "admitted_generation", "low_evidence", "retired"}
          /\ e.fingerprint = ArenaId /\ e.operator = op /\ e.applied = 0
          /\ e.consecutive_failures = 0 /\ e.retired = FALSE
      BY DEF NewEntry
    <3> HIDE DEF e
    <3>2. 0 \in Nat /\ 0 <= 0 /\ 0 < 2 * retirement_patience  BY <2>0
    <3>3. IsWhole(e)  BY <3>1 DEF IsWhole
    <3>4. e.retired \in BOOLEAN /\ ~e.retired  BY <3>1
    <3>5. ASSUME NEW k PROVE Lives(e, k)
      BY <3>1, <3>2, <3>3, <3>4 DEF Lives
    <3> QED  BY <3>1, <3>5
  <2>2. m = EnforceActiveCap(a, ArenaId)  BY <1>5 DEF Admit
  <2> HIDE DEF m, e
  <2>3. /\ IsSequence(a) /\ Len(a) = Len(l) + 1
        /\ DOMAIN a = DOMAIN l \cup {Len(l) + 1}
        /\ \A i \in DOMAIN l : a[i] = l[i]
        /\ a[Len(l) + 1] = e
    BY <1>1, AppendedSequence
  <2> HIDE DEF a
  <2>4. \A i \in DOMAIN l : l[i].operator # op
    BY <1>5 DEF Known, Entries, IsLedger, Lives
  <2>5. IsLedger(a)
    <3>1. ASSUME NEW i \in DOMAIN a PROVE Lives(a[i], Len(a))
      <4>1. CASE i \in DOMAIN l
        <5>1. Lives(l[i], Len(l)) /\ a[i] = l[i]  BY <2>3, <4>1 DEF IsLedger
        <5>2. Len(l) > active_cap => Len(a) > active_cap  BY <1>1, <2>0, <2>3
        <5> QED  BY <5>1, <5>2 DEF Lives
      <4>2. CASE i \notin DOMAIN l  BY <2>1, <2>3, <4>2
      <4> QED  BY <4>1, <4>2
    <3>2. ASSUME NEW i \in DOMAIN a, NEW j \in DOMAIN a, a[i].operator = a[j].operator
          PROVE  i = j
      BY <2>1, <2>3, <2>4, <3>2 DEF IsLedger
    <3> QED  BY <2>3, <3>1, <3>2 DEF IsLedger
  <2>6. \A i \in DOMAIN a : a[i].applied = 0  BY <2>1, <2>3
  <2>7. C # {} => Len(a) > active_cap
    <3>1. Len(a) \in Nat  BY <1>1, <2>3
    <3> QED  BY <3>1, <2>0, <2>3, CapIsSlack
  <2>8. m = [i \in DOMAIN a |-> [a[i] EXCEPT !.retired = @ \/ i \in C]]
    BY <2>2 DEF EnforceActiveCap
  <2> HIDE DEF C
  <2>9. DOMAIN m = DOMAIN a /\ m = [i \in DOMAIN m |-> m[i]]  BY <2>8
  <2>10. ASSUME NEW i \in DOMAIN a
         PROVE  /\ Lives(m[i], Len(a)) /\ m[i].operator = a[i].operator
                /\ m[i].applied = 0 /\ (a[i].retired => m[i].retired)
    <3>1. Lives(a[i], Len(a)) /\ a[i].applied = 0  BY <2>5, <2>6 DEF IsLedger
    <3>2. m[i] = [a[i] EXCEPT !.retired = a[i].retired \/ i \in C]  BY <2>8
    <3>3. /\ DOMAIN m[i] = DOMAIN a[i] /\ m[i].fingerprint = a[i].fingerprint
          /\ m[i].operator = a[i].operator /\ m[i].applied = a[i].applied
          /\ m[i].retired = (a[i].retired \/ i \in C)
          /\ m[i].consecutive_failures = a[i].consecutive_failures
      BY <3>1, <3>2 DEF Lives, IsWhole
    <3>4. CASE i \in C
      <4>1. m[i].retired = TRUE /\ Len(a) > active_cap  BY <2>7, <3>3, <3>4
      <4>2. m[i].applied <= 1 /\ m[i].applied = 0  BY <3>1, <3>3
      <4> QED  BY <3>1, <3>3, <4>1, <4>2 DEF Lives, IsWhole
    <3>5. CASE i \notin C
      <4>1. m[i].retired = a[i].retired  BY <3>1, <3>3, <3>5 DEF Lives
      <4> QED  BY <3>1, <3>3, <4>1 DEF Lives, IsWhole
    <3> QED  BY <3>4, <3>5
  <2>11. IsLedger(m)  BY <2>5, <2>9, <2>10, RewrittenLedger
  <2>12. \A i \in DOMAIN m \ DOMAIN l : m[i].operator = op
    BY <2>1, <2>3, <2>9, <2>10
  <2> QED  BY <1>1, <2>3, <2>9, <2>10, <2>11, <2>12
<1> QED  BY <1>3, <1>4, <1>5
-----------------------------------------------------------------------------
(* The budget of the confirmations.                                        *)

\* The calls of the replays add up.
LEMMA CallsAddUp ==
  ASSUME NEW n \in Nat, NEW r \in [1..(n + 1) -> ReplayOutcomes]
  PROVE  /\ Calls(r) \in Nat /\ Calls(SubSeq(r, 1, n)) \in Nat
         /\ Calls(r) <= Calls(SubSeq(r, 1, n)) + 3
<1> DEFINE f == SubSeq(r, 1, n)
           Spent(i) == {i} \X (1..r[i].calls)
           A == UNION {Spent(i) : i \in 1..n}
           B == Spent(n + 1)
<1>1. ASSUME NEW i \in 1..(n + 1) PROVE r[i].calls \in 0..3
  <2>1. r[i] \in ReplayOutcomes  OBVIOUS
  <2>2. CASE r[i] \in [calls : FailedAfter, gain : {NoGain}]
    BY <2>2, ArenaAssumption
  <2>3. CASE r[i] \in [calls : {3}, gain : Replayed]  BY <2>3
  <2> QED  BY <2>1, <2>2, <2>3 DEF ReplayOutcomes
<1>2. r \in Seq(ReplayOutcomes) /\ Len(r) = n + 1
  BY SeqDef, LenProperties
<1>3. f \in Seq(ReplayOutcomes) /\ Len(f) = n /\ \A i \in 1..n : f[i] = r[i]
  <2>1. 1 \in 1..(Len(r) + 1) /\ n \in (1 - 1)..Len(r)  BY <1>2
  <2>2. /\ f \in Seq(ReplayOutcomes) /\ Len(f) = n - 1 + 1
        /\ \A i \in 1..(n - 1 + 1) : f[i] = r[1 + i - 1]
    BY <2>1, <1>2, SubSeqProperties
  <2> QED  BY <2>2
<1>4. DOMAIN f = 1..n /\ DOMAIN r = 1..(n + 1)  BY <1>3, LenProperties
<1>5. Calls(f) = Cardinality(A)
  <2>1. {{i} \X (1..f[i].calls) : i \in DOMAIN f} = {Spent(i) : i \in 1..n}
    BY <1>3, <1>4
  <2> QED  BY <2>1 DEF Calls
<1>6. Calls(r) = Cardinality(A \cup B)
  <2>1. {{i} \X (1..r[i].calls) : i \in DOMAIN r}
          = {Spent(i) : i \in 1..n} \cup {B}
    BY <1>4
  <2>2. UNION {{i} \X (1..r[i].calls) : i \in DOMAIN r} = A \cup B  BY <2>1
  <2> QED  BY <2>2 DEF Calls
<1>7. ASSUME NEW i \in 1..(n + 1)
      PROVE  IsFiniteSet(Spent(i)) /\ Cardinality(Spent(i)) <= 3
  <2>1. r[i].calls \in 0..3  BY <1>1
  <2>2. IsFiniteSet(1..r[i].calls) /\ Cardinality(1..r[i].calls) <= 3
        /\ Cardinality(1..r[i].calls) \in Nat
    <3>1. 1 \in Int /\ r[i].calls \in Int  BY <2>1
    <3>2. /\ IsFiniteSet(1..r[i].calls)
          /\ Cardinality(1..r[i].calls)
               = IF 1 > r[i].calls THEN 0 ELSE r[i].calls - 1 + 1
      BY <3>1, FS_Interval
    <3> QED  BY <2>1, <3>2
  <2>3. IsFiniteSet({i}) /\ Cardinality({i}) = 1  BY FS_Singleton
  <2>4. /\ IsFiniteSet(Spent(i))
        /\ Cardinality(Spent(i)) = Cardinality({i}) * Cardinality(1..r[i].calls)
    BY <2>2, <2>3, FS_Product
  <2> QED  BY <2>2, <2>3, <2>4
<1>8. IsFiniteSet(A)
  <2>1. IsFiniteSet(1..n)  BY FS_Interval
  <2>2. IsFiniteSet({Spent(i) : i \in 1..n})
    <3> DEFINE T == {Spent(i) : i \in 1..n}
               F == [i \in 1..n |-> Spent(i)]
    <3> HIDE DEF Spent
    <3>1. F \in Surjection(1..n, T)  BY DEF Surjection
    <3> HIDE DEF F, T
    <3>2. IsFiniteSet(T)  BY <2>1, <3>1, FS_Surjection
    <3> QED  BY <3>2 DEF T
  <2>3. \A S \in {Spent(i) : i \in 1..n} : IsFiniteSet(S)
    <3>1. \A i \in 1..n : i \in 1..(n + 1)  OBVIOUS
    <3> QED  BY <1>7, <3>1
  <2> QED  BY <2>2, <2>3, FS_UNION
<1>9. IsFiniteSet(B) /\ Cardinality(B) <= 3  BY <1>7
<1> HIDE DEF A, B, f
<1>10. /\ Cardinality(A) \in Nat /\ Cardinality(B) \in Nat
       /\ IsFiniteSet(A \cap B) /\ Cardinality(A \cap B) \in Nat
       /\ Cardinality(A \cup B) = Cardinality(A) + Cardinality(B) - Cardinality(A \cap B)
       /\ Cardinality(A \cup B) \in Nat
  <2>1. IsFiniteSet(A \cap B)  BY <1>8, FS_Intersection
  <2>2. IsFiniteSet(A \cup B)
        /\ Cardinality(A \cup B) = Cardinality(A) + Cardinality(B) - Cardinality(A \cap B)
    BY <1>8, <1>9, FS_Union
  <2> QED  BY <1>8, <1>9, <2>1, <2>2, FS_CardinalityType
<1> QED  BY <1>5, <1>6, <1>9, <1>10 DEF f

\* The replays of one survivor fit what is left of the budget.
LEMMA ReplaysFit ==
  ASSUME calls \in Nat, calls <= plan[3], plan[3] \in Nat,
         NEW n, NEW r \in Replays(n)
  PROVE  calls + Calls(r) \in Nat /\ calls + Calls(r) <= plan[3]
<1>1. PICK k \in 0..n : r \in [1..k -> ReplayOutcomes]
  BY DEF Replays, BoundedSeq, SeqOf
<1>2. k \in Nat  OBVIOUS
<1>3. r \in Seq(ReplayOutcomes) /\ DOMAIN r = 1..k  BY <1>1, <1>2, SeqDef
<1>4. CASE k = 0
  <2>1. UNION {{i} \X (1..r[i].calls) : i \in DOMAIN r} = {}  BY <1>3, <1>4
  <2>2. Calls(r) = 0  BY <2>1, FS_EmptySet DEF Calls
  <2> QED  BY <2>2
<1>5. CASE k # 0
  <2>1. PICK m \in Nat : k = m + 1
    <3>1. k - 1 \in Nat /\ k = (k - 1) + 1  BY <1>2, <1>5
    <3> QED  BY <3>1
  <2>2. r \in [1..(m + 1) -> ReplayOutcomes]  BY <1>1, <2>1
  <2>3. Fits(Calls(SubSeq(r, 1, k - 1)))
    <3>1. \A i \in DOMAIN r : Fits(Calls(SubSeq(r, 1, i - 1)))
      BY Zenon DEF Replays
    <3>2. k \in DOMAIN r  BY <1>2, <1>3, <1>5
    <3> QED  BY <3>1, <3>2, Zenon
  <2>4. k - 1 = m  BY <2>1
  <2>5. Fits(Calls(SubSeq(r, 1, m)))  BY <2>3, <2>4
  <2>6. /\ Calls(r) \in Nat /\ Calls(SubSeq(r, 1, m)) \in Nat
        /\ Calls(r) <= Calls(SubSeq(r, 1, m)) + 3
    BY <2>2, CallsAddUp
  <2> QED  BY <2>5, <2>6 DEF Fits
<1> QED  BY <1>4, <1>5
-----------------------------------------------------------------------------
(* The life of the composites.                                             *)

\* Nothing is in the ledger before the one deposition, and nothing in it is applied
\* before the deposition ends.
Staged ==
  /\ position \in Nat /\ plan \in Nat \X Nat \X (Nat \ {0})
  /\ phase = "audit" => position = 0
  /\ phase \in {"promote", "confirm"} => position = plan[1]
  /\ \/ phase \in {"audit", "promote"}
     \/ phase = "case" /\ position < plan[1]
     => Len(ledger) = 0
  /\ phase = "confirm" => \A i \in DOMAIN ledger : ledger[i].applied = 0
  /\ phase # "confirm" => survivors = <<>>

\* The backend's copy says of an entry whether it is retired, except of one that
\* the cap retired and that no case has measured since.
Follows(status, e) ==
  /\ status = "retired" => e.retired
  /\ e.retired => status = "retired" \/ e.applied = 0

\* The backend's copy follows the entry of each deposited composite.
Agreed ==
  /\ deposited \in Seq(Composites) /\ DOMAIN lifecycle = Range(deposited)
  /\ \A k \in Range(deposited) : \E i \in DOMAIN ledger :
       ledger[i].operator = k /\ Follows(lifecycle[k].status, ledger[i])

ArenaInvariant ==
  /\ Staged
  /\ survivors \in Seq(Composites)
  /\ IsLedger(ledger)
  /\ Agreed
  /\ calls \in Nat /\ calls <= plan[3] /\ (phase = "audit" => calls = 0)

\* The one entry of an operator.
LEMMA OneEntry ==
  ASSUME NEW l, IsLedger(l), NEW i \in DOMAIN l
  PROVE  EntryOf(l, l[i].operator) = l[i]
<1>1. Entries(l, ArenaId, l[i].operator) = {i}
  BY DEF Entries, IsLedger, Lives
<1> QED  BY <1>1 DEF EntryOf

LEMMA ArenaStarts == Init => ArenaInvariant
<1> SUFFICES ASSUME Init PROVE ArenaInvariant  OBVIOUS
<1>1. /\ plan = <<0, 0, 1>> /\ position = 0 /\ phase = "audit" /\ calls = 0
      /\ ledger = <<>> /\ survivors = <<>> /\ deposited = <<>> /\ lifecycle = <<>>
  BY DEF Init, RunInit
<1>2. IsLedger(<<>>) /\ Len(<<>>) = 0
  BY EmptyIsSequence DEF IsLedger
<1>3. <<>> \in Seq(Composites) /\ DOMAIN <<>> = {}
  BY EmptySeq
<1>4. Staged  BY <1>1, <1>2 DEF Staged
<1>5. Agreed  BY <1>1, <1>3 DEF Agreed, Range
<1>6. plan[3] = 1  BY <1>1
<1> QED  BY <1>1, <1>2, <1>3, <1>4, <1>5, <1>6 DEF ArenaInvariant

\* A case counts applications of composites that live, and tells the backend.
LEMMA CaseKeepsLives ==
  ASSUME ArenaInvariant, RunCase
  PROVE  /\ IsLedger(ledger)' /\ Len(ledger') = Len(ledger) /\ Agreed'
         /\ DOMAIN ledger' = DOMAIN ledger
         /\ \A i \in DOMAIN ledger : ledger'[i].operator = ledger[i].operator
<1>0. IsLedger(ledger) /\ Agreed  BY DEF ArenaInvariant
<1>1. PICK offered, gains :
        /\ offered = Candidates(Stream[position + 1]) /\ DOMAIN gains = offered
        /\ ledger' = Live(gains, ledger)
        /\ lifecycle' = Told(gains, ledger')
        /\ deposited' = deposited
  BY DEF RunCase
<1> DEFINE l == ledger'
           Hit(i) == ledger[i].operator \in Range(deposited) \cap DOMAIN gains
<1>2. l = [i \in DOMAIN ledger |->
             IF Hit(i)
             THEN Applied(ledger[i], Worth(gains[ledger[i].operator]) > 0, position + 1)
             ELSE ledger[i]]
  BY <1>1 DEF Live
<1>3. ASSUME NEW k \in Range(deposited) \cap DOMAIN gains
      PROVE  lifecycle[k].status # "retired"
  <2>1. k \in Composites  BY <1>0 DEF Agreed, Range
  <2>2. k \notin SeedSet  BY <2>1, SeedsAreNoPairs
  <2>3. k \in Available  BY <1>1 DEF Candidates
  <2> QED  BY <2>2, <2>3 DEF Available
<1>4. ASSUME NEW i \in DOMAIN ledger, Hit(i)
      PROVE  ~ledger[i].retired \/ ledger[i].applied = 0
  <2>1. PICK j \in DOMAIN ledger :
          /\ ledger[j].operator = ledger[i].operator
          /\ Follows(lifecycle[ledger[i].operator].status, ledger[j])
    BY <1>0, <1>4 DEF Agreed
  <2>2. j = i  BY <1>0, <2>1 DEF IsLedger
  <2> QED  BY <1>3, <1>4, <2>1, <2>2 DEF Follows
<1>5. DOMAIN l = DOMAIN ledger /\ l = [i \in DOMAIN l |-> l[i]]  BY <1>2
<1>6. ASSUME NEW i \in DOMAIN ledger
      PROVE  Lives(l[i], Len(ledger)) /\ l[i].operator = ledger[i].operator
  <2>0. Len(ledger) \in Nat  BY <1>0, SequenceDomain DEF IsLedger
  <2>1. Lives(ledger[i], Len(ledger))  BY <1>0 DEF IsLedger
  <2>2. CASE Hit(i)
    <3>1. l[i] = Applied(ledger[i], Worth(gains[ledger[i].operator]) > 0, position + 1)
      BY <1>2, <2>2
    <3>2. ~ledger[i].retired \/ ledger[i].applied = 0  BY <1>4, <2>2
    <3> HIDE DEF l, Hit
    <3> QED  BY <2>0, <2>1, <3>1, <3>2, AppliedLives
  <2>3. CASE ~Hit(i)
    <3>1. l[i] = ledger[i]  BY <1>2, <2>3
    <3> QED  BY <2>1, <3>1
  <2> QED  BY <2>2, <2>3
<1>7. IsLedger(l) /\ Len(l) = Len(ledger)  BY <1>0, <1>5, <1>6, RewrittenLedger
<1>8. Agreed'
  <2>1. /\ DOMAIN lifecycle' = DOMAIN lifecycle
        /\ \A k \in DOMAIN lifecycle :
             lifecycle'[k] = IF k \in DOMAIN gains
                             THEN [status |-> LifecycleStatus(EntryOf(l, k)),
                                   eta |-> Eta(EntryOf(l, k))]
                             ELSE lifecycle[k]
    BY <1>1 DEF Told
  <2>2. ASSUME NEW k \in Range(deposited)
        PROVE  \E i \in DOMAIN l :
                 l[i].operator = k /\ Follows(lifecycle'[k].status, l[i])
    <3>1. PICK i \in DOMAIN ledger :
            ledger[i].operator = k /\ Follows(lifecycle[k].status, ledger[i])
      BY <1>0 DEF Agreed
    <3>2. k \in DOMAIN lifecycle  BY <1>0 DEF Agreed
    <3>3. i \in DOMAIN l /\ l[i].operator = k  BY <1>5, <1>6, <3>1
    <3>4. CASE k \in DOMAIN gains
      <4>1. EntryOf(l, k) = l[i]  BY <1>7, <3>3, OneEntry
      <4>2. lifecycle'[k].status = LifecycleStatus(l[i])  BY <2>1, <3>2, <3>4, <4>1
      <4>3. LifecycleStatus(l[i]) = "retired" <=> l[i].retired
        BY DEF LifecycleStatus
      <4> QED  BY <3>3, <4>2, <4>3 DEF Follows
    <3>5. CASE k \notin DOMAIN gains
      <4>1. l[i] = ledger[i]  BY <1>2, <3>1, <3>5
      <4>2. lifecycle'[k] = lifecycle[k]  BY <2>1, <3>2, <3>5
      <4> QED  BY <3>1, <3>3, <4>1, <4>2
    <3> QED  BY <3>4, <3>5
  <2>3. deposited' = deposited  BY <1>1
  <2> QED  BY <1>0, <2>1, <2>2, <2>3 DEF Agreed
<1> QED  BY <1>5, <1>6, <1>7, <1>8

\* A list of survivors lists composites.
LEMMA SurvivorsAreComposites ==
  ASSUME NEW S \in SUBSET Composites, NEW s \in SurvivorLists(S)
  PROVE  s \in Seq(Composites)
<1>1. PICK k \in 0..max_candidates : s \in [1..k -> S]
  BY DEF SurvivorLists, BoundedSeq, SeqOf
<1>2. k \in Nat /\ s \in [1..k -> Composites]  BY <1>1
<1> QED  BY <1>2, SeqDef

\* The deposition finds an empty ledger.
LEMMA PromoteKeepsArena ==
  ASSUME ArenaInvariant, Promote
  PROVE  ArenaInvariant'
<1>1. /\ phase = "promote" /\ phase' = "confirm" /\ ledger' = ledger
      /\ UNCHANGED <<plan, position, deposited, lifecycle, calls>>
  BY DEF Promote
<1>2. \E S \in SUBSET Composites : survivors' \in SurvivorLists(S)
  <2>1. PICK passed \in SUBSET Composites :
          \E above : survivors' \in SurvivorLists({p \in passed : above[p]})
    BY DEF Promote
  <2>2. PICK above : survivors' \in SurvivorLists({p \in passed : above[p]})
    BY <2>1
  <2>3. {p \in passed : above[p]} \in SUBSET Composites  OBVIOUS
  <2> QED  BY <2>2, <2>3
<1>3. survivors' \in Seq(Composites)  BY <1>2, SurvivorsAreComposites
<1>4. Staged'
  <2>1. IsLedger(ledger) /\ Len(ledger) = 0
    BY <1>1 DEF ArenaInvariant, Staged
  <2>2. DOMAIN ledger = {}  BY <2>1, SequenceDomain DEF IsLedger
  <2> QED  BY <1>1, <2>2 DEF ArenaInvariant, Staged
<1>5. Agreed'  BY <1>1 DEF ArenaInvariant, Agreed
<1>6. IsLedger(ledger)'  BY <1>1 DEF ArenaInvariant
<1> QED  BY <1>1, <1>3, <1>4, <1>5, <1>6 DEF ArenaInvariant

\* A confirmation may add one entry for one survivor, and deposits it only if new.
LEMMA ConfirmKeepsArena ==
  ASSUME ArenaInvariant, Confirm
  PROVE  ArenaInvariant'
<1>0. /\ IsLedger(ledger) /\ Agreed /\ Staged /\ survivors \in Seq(Composites)
      /\ calls \in Nat /\ calls <= plan[3] /\ plan[3] \in Nat
  BY DEF ArenaInvariant, Staged
<1>1. /\ phase = "confirm" /\ survivors # <<>> /\ survivors' = Tail(survivors)
      /\ UNCHANGED <<plan, phase, position>>
  BY DEF Confirm
<1>2. survivors[1] \in Composites /\ survivors' \in Seq(Composites)
  BY <1>0, <1>1, EmptySeq, LenProperties, HeadTailProperties, ElementOfSeq
<1> DEFINE p == survivors[1]
<1>3. PICK r, gains, passes, admits :
        /\ \E n : r \in Replays(n)
        /\ ledger' = Admit(ledger, ArenaId, p, gains, position, passes)
        /\ calls' = calls + Calls(r)
        /\ IF admits
           THEN /\ IsAdmitted(ledger, ArenaId, p, gains, position, passes)
                /\ deposited' = Append(deposited, p)
                /\ lifecycle' = [k \in DOMAIN lifecycle \cup {p} |->
                     IF k = p THEN [status |-> "probation", eta |-> <<1, 2>>]
                     ELSE lifecycle[k]]
           ELSE UNCHANGED <<deposited, lifecycle>>
  <2> DEFINE m == Min({confirmation_cases, Cardinality(RowsOf(attempts, p))})
             G(r) == SelectSeq([i \in DOMAIN r |-> r[i].gain], LAMBDA g : g # NoGain)
             C(r) == Len(r) = confirmation_cases /\ Len(G(r)) = Len(r)
             D2(r, passes) ==
               /\ C(r) /\ passes
               /\ IsAdmitted(ledger, ArenaId, p, G(r), position, passes)
             D3(r, wins) == C(r) /\ 100 * wins >= dominance * Len(r)
             After(r, passes, wins) ==
               /\ ledger' = Admit(ledger, ArenaId, p, G(r), position, passes)
               /\ calls' = calls + Calls(r)
               /\ IF D2(r, passes) /\ D3(r, wins)
                  THEN /\ deposited' = Append(deposited, p)
                       /\ lifecycle' = [k \in DOMAIN lifecycle \cup {p} |->
                            IF k = p THEN [status |-> "probation", eta |-> <<1, 2>>]
                            ELSE lifecycle[k]]
                  ELSE UNCHANGED <<deposited, lifecycle>>
  <2>1. \E r \in Replays(m) :
          \E passes \in PassesReplay(G(r)), wins \in 0..Len(G(r)) : After(r, passes, wins)
    BY DEF Confirm
  <2> HIDE DEF m, G, C, D3, After
  <2>2. PICK r \in Replays(m) : \E passes, wins : After(r, passes, wins)
    BY <2>1
  <2>3. PICK passes, wins : After(r, passes, wins)
    BY <2>2
  <2> DEFINE admits == D2(r, passes) /\ D3(r, wins)
  <2>4. admits => IsAdmitted(ledger, ArenaId, p, G(r), position, passes)  OBVIOUS
  <2> HIDE DEF D2
  <2> QED  BY <2>3, <2>4 DEF After
<1>4. calls' \in Nat /\ calls' <= plan[3]
  <2>1. PICK n : r \in Replays(n)  BY <1>3
  <2> QED  BY <1>0, <1>3, <2>1, ReplaysFit
<1>5. \A i \in DOMAIN ledger : ledger[i].applied = 0  BY <1>0, <1>1 DEF Staged
<1> HIDE DEF p
<1>6. /\ IsLedger(ledger') /\ DOMAIN ledger \subseteq DOMAIN ledger'
      /\ \A i \in DOMAIN ledger' : ledger'[i].applied = 0
      /\ \A i \in DOMAIN ledger : ledger'[i].operator = ledger[i].operator
                                  /\ (ledger[i].retired => ledger'[i].retired)
      /\ IsAdmitted(ledger, ArenaId, p, gains, position, passes) =>
           \E i \in DOMAIN ledger' : ledger'[i].operator = p /\ ~ledger'[i].retired
  BY <1>0, <1>3, <1>5, AdmitKeepsLives
<1>7. \A k \in Range(deposited) : \E i \in DOMAIN ledger' :
        ledger'[i].operator = k /\ Follows(lifecycle[k].status, ledger'[i])
  <2> TAKE k \in Range(deposited)
  <2>1. PICK i \in DOMAIN ledger :
          ledger[i].operator = k /\ Follows(lifecycle[k].status, ledger[i])
    BY <1>0 DEF Agreed
  <2>2. i \in DOMAIN ledger' /\ ledger'[i].operator = k /\ ledger'[i].applied = 0
    BY <1>6, <2>1
  <2>3. lifecycle[k].status = "retired" => ledger'[i].retired
    BY <1>6, <2>1 DEF Follows
  <2> QED  BY <2>2, <2>3 DEF Follows
<1>8. Agreed'
  <2>1. CASE ~admits
    <3>1. deposited' = deposited /\ lifecycle' = lifecycle  BY <1>3, <2>1
    <3> QED  BY <1>0, <1>7, <3>1 DEF Agreed
  <2>2. CASE admits
    <3>1. /\ deposited' = Append(deposited, p) /\ DOMAIN lifecycle' = DOMAIN lifecycle \cup {p}
          /\ lifecycle'[p].status = "probation"
          /\ \A k \in DOMAIN lifecycle \ {p} : lifecycle'[k] = lifecycle[k]
      BY <1>3, <2>2
    <3>2. p \in Composites /\ deposited \in Seq(Composites)  BY <1>0, <1>2 DEF Agreed, p
    <3>3. deposited' \in Seq(Composites) /\ Range(deposited') = Range(deposited) \cup {p}
      <4>1. /\ Append(deposited, p) \in Seq(Composites)
            /\ Len(Append(deposited, p)) = Len(deposited) + 1
            /\ \A i \in 1..Len(deposited) : Append(deposited, p)[i] = deposited[i]
            /\ Append(deposited, p)[Len(deposited) + 1] = p
        BY <3>2, AppendProperties
      <4>2. /\ Len(deposited) \in Nat /\ DOMAIN deposited = 1..Len(deposited)
            /\ DOMAIN Append(deposited, p) = 1..(Len(deposited) + 1)
        BY <3>2, <4>1, LenProperties
      <4> QED  BY <3>1, <4>1, <4>2 DEF Range
    <3>4. PICK j \in DOMAIN ledger' : ledger'[j].operator = p /\ ~ledger'[j].retired
      BY <1>3, <1>6, <2>2
    <3>5. ASSUME NEW k \in Range(deposited')
          PROVE  \E i \in DOMAIN ledger' :
                   ledger'[i].operator = k /\ Follows(lifecycle'[k].status, ledger'[i])
      <4>1. CASE k = p  BY <3>1, <3>4, <4>1 DEF Follows
      <4>2. CASE k # p
        <5>1. k \in Range(deposited)  BY <3>3, <4>2
        <5>2. lifecycle'[k] = lifecycle[k]  BY <1>0, <3>1, <4>2, <5>1 DEF Agreed
        <5> QED  BY <1>7, <5>1, <5>2
      <4> QED  BY <4>1, <4>2
    <3> QED  BY <1>0, <3>1, <3>3, <3>5 DEF Agreed
  <2> QED  BY <2>1, <2>2
<1>9. Staged'  BY <1>0, <1>1, <1>6 DEF Staged
<1> QED  BY <1>1, <1>2, <1>4, <1>6, <1>8, <1>9 DEF ArenaInvariant

LEMMA ArenaStep == ArenaInvariant /\ [Next]_scopedVars => ArenaInvariant'
<1> SUFFICES ASSUME ArenaInvariant, [Next]_scopedVars PROVE ArenaInvariant'
  OBVIOUS
<1>1. CASE UNCHANGED vars
  BY <1>1 DEF vars, depositionVars, ArenaInvariant, Staged, Agreed
<1>2. CASE StartRun
  <2>1. /\ phase = "audit" /\ phase' = "case" /\ plan' \in Plans
        /\ UNCHANGED <<position, survivors, deposited, ledger, lifecycle, calls>>
    BY <1>2 DEF StartRun, depositionVars
  <2>2. plan' \in Nat \X Nat \X (Nat \ {0})  BY <2>1, ArenaAssumption
  <2>3. calls' = 0 /\ Len(ledger') = 0 /\ position' = 0 /\ survivors' = <<>>
    BY <2>1 DEF ArenaInvariant, Staged
  <2>4. Staged'  BY <2>1, <2>2, <2>3 DEF Staged
  <2>5. Agreed'  BY <2>1 DEF ArenaInvariant, Agreed
  <2>6. calls' <= plan'[3]  BY <2>2, <2>3
  <2> QED  BY <2>1, <2>3, <2>4, <2>5, <2>6 DEF ArenaInvariant
<1>3. CASE RunCase
  <2>1. IsLedger(ledger)' /\ Len(ledger') = Len(ledger) /\ Agreed'
    BY <1>3, CaseKeepsLives
  <2>2. /\ phase = "case" /\ UNCHANGED <<plan, survivors, calls>>
        /\ \/ phase' = "crashed" /\ position' = position
           \/ /\ phase' = IF plan[1] = position + 1 THEN "promote" ELSE "case"
              /\ position' = position + 1
    BY <1>3 DEF RunCase
  <2>3. Staged'  BY <2>1, <2>2 DEF ArenaInvariant, Staged
  <2> QED  BY <2>1, <2>2, <2>3 DEF ArenaInvariant
<1>4. CASE Promote  BY <1>4, PromoteKeepsArena
<1>5. CASE Confirm  BY <1>5, ConfirmKeepsArena
<1>6. CASE Resume
  BY <1>6 DEF Resume, ArenaInvariant, Staged, Agreed
<1>7. CASE Finish
  BY <1>7 DEF Finish, depositionVars, ArenaInvariant, Staged, Agreed
<1> QED
  BY <1>1, <1>2, <1>3, <1>4, <1>5, <1>6, <1>7
  DEF Next, Auditing, Running, RunNext, Ended, scopedVars

\* The strengthened invariant of the arena.
THEOREM ArenaIsGoverned == Spec => []ArenaInvariant
BY ArenaStarts, ArenaStep, PTL DEF Spec

\* Whatever the confirmations measure, however they fail, they stay in budget.
THEOREM BudgetIsKept == Spec => []ConfirmationWithinBudget
<1>1. ArenaInvariant => ConfirmationWithinBudget
  BY DEF ArenaInvariant, ConfirmationWithinBudget
<1> QED  BY <1>1, ArenaIsGoverned, PTL

\* For any number of candidates and any cap, the backend learns of each retirement
\* by the first case that measures the composite afterwards, and no entry is retired
\* except by its failures or by a cap that was exceeded.
THEOREM RetirementsAreTold == Spec => []RetirementIsTold
<1>1. ArenaInvariant => RetirementIsTold
  <2> SUFFICES ASSUME ArenaInvariant, NEW k \in Range(deposited)
               PROVE  LET e == EntryOf(ledger, k)
                      IN  /\ lifecycle[k].status = "retired" => e.retired
                          /\ e.retired => lifecycle[k].status = "retired" \/ e.applied = 0
                          /\ e.retired => \/ e.consecutive_failures = 2 * retirement_patience
                                          \/ e.applied <= 1 /\ Len(ledger) > active_cap
    BY DEF RetirementIsTold
  <2>1. IsLedger(ledger) /\ Agreed  BY DEF ArenaInvariant
  <2>2. PICK i \in DOMAIN ledger :
          ledger[i].operator = k /\ Follows(lifecycle[k].status, ledger[i])
    BY <2>1 DEF Agreed
  <2>3. EntryOf(ledger, k) = ledger[i]  BY <2>1, <2>2, OneEntry
  <2>4. Lives(ledger[i], Len(ledger))  BY <2>1 DEF IsLedger
  <2> QED  BY <2>2, <2>3, <2>4 DEF Lives, Follows
<1> QED  BY <1>1, ArenaIsGoverned, PTL
-----------------------------------------------------------------------------
(* The sign test.                                                          *)

\* The heads of n coins, coin by coin.
LEMMA HeadsOfCoins ==
  ASSUME NEW n \in Nat
  PROVE  \E row : /\ AtLeast(n) = row[n]
                  /\ \A k \in 0..(n + 1) : row[0][k] = IF k = 0 THEN 1 ELSE 0
                  /\ \A m \in 0..n : m + 1 <= n => \A k \in 0..(n + 1) :
                       row[m + 1][k] = row[m][IF k = 0 THEN 0 ELSE k - 1] + row[m][k]
<1> DEFINE First == [k \in 0..(n + 1) |-> IF k = 0 THEN 1 ELSE 0]
           After(last) == [k \in 0..(n + 1) |-> last[IF k = 0 THEN 0 ELSE k - 1] + last[k]]
           Upto(m, f) == f = [i \in 0..m |-> IF i = 0 THEN First ELSE After(f[i - 1])]
           T == {m \in Nat : \E f : Upto(m, f)}
           s == CHOOSE f : Upto(n, f)
<1>1. AtLeast(n) = s[n]  BY DEF AtLeast
<1>2. \A f : After(f) = [k \in 0..(n + 1) |-> f[IF k = 0 THEN 0 ELSE k - 1] + f[k]]
  OBVIOUS
<1> HIDE DEF After
<1>3. 0 \in T
  <2> HIDE DEF First
  <2>1. Upto(0, [m \in 0..0 |-> First])  OBVIOUS
  <2> QED  BY <2>1
<1>4. ASSUME NEW m \in Nat, m \in T PROVE m + 1 \in T
  <2> HIDE DEF First
  <2>1. PICK f : Upto(m, f)  BY <1>4
  <2> DEFINE h == [i \in 0..(m + 1) |-> IF i = m + 1 THEN After(f[m]) ELSE f[i]]
  <2>2. \A i \in 0..m : f[i] = IF i = 0 THEN First ELSE After(f[i - 1])  BY <2>1
  <2>3. ASSUME NEW i \in 0..(m + 1)
        PROVE  h[i] = IF i = 0 THEN First ELSE After(h[i - 1])
    <3>1. CASE i = m + 1
      <4>1. h[i] = After(f[m]) /\ i # 0 /\ h[i - 1] = f[m]  BY <3>1
      <4> QED  BY <4>1
    <3>2. CASE i # m + 1 /\ i # 0
      <4>1. i \in 0..m /\ i - 1 \in 0..m /\ i - 1 # m + 1  BY <3>2
      <4>2. h[i] = f[i] /\ h[i - 1] = f[i - 1]  BY <3>2, <4>1
      <4> QED  BY <2>2, <3>2, <4>1, <4>2
    <3>3. CASE i = 0
      <4>1. h[0] = f[0] /\ f[0] = First  BY <2>2
      <4> QED  BY <3>3, <4>1
    <3> QED  BY <3>1, <3>2, <3>3
  <2>4. h = [i \in 0..(m + 1) |-> h[i]]  OBVIOUS
  <2> HIDE DEF h
  <2>5. Upto(m + 1, h)  BY <2>3, <2>4
  <2> QED  BY <2>5
<1>5. n \in T
  <2> HIDE DEF T
  <2> QED  BY <1>3, <1>4, NaturalInduction
<1>6. Upto(n, s)  BY <1>5
<1> HIDE DEF s, First
<1>7. \A i \in 0..n : s[i] = IF i = 0 THEN First ELSE After(s[i - 1])  BY <1>6
<1>8. s[0] = First  BY <1>7
<1>9. \A k \in 0..(n + 1) : s[0][k] = IF k = 0 THEN 1 ELSE 0  BY <1>8 DEF First
<1>10. ASSUME NEW m \in 0..n, m + 1 <= n, NEW k \in 0..(n + 1)
       PROVE  s[m + 1][k] = s[m][IF k = 0 THEN 0 ELSE k - 1] + s[m][k]
  <2>1. m + 1 \in 0..n /\ m + 1 # 0 /\ (m + 1) - 1 = m  BY <1>10
  <2>2. s[m + 1] = After(s[m])  BY <1>7, <2>1
  <2> QED  BY <1>2, <2>2
<1> QED  BY <1>1, <1>9, <1>10

\* At least k heads or at least n + 1 - k tails: every outcome has one of them.
LEMMA HeadsOrTails ==
  ASSUME NEW n \in Nat, NEW k \in 0..n
  PROVE  /\ AtLeast(n)[k] \in Nat /\ AtLeast(n)[n - k] \in Nat /\ AtLeast(n)[0] \in Nat \ {0}
         /\ AtLeast(n)[k] + AtLeast(n)[n - k] >= AtLeast(n)[0]
<1>1. PICK row : /\ AtLeast(n) = row[n]
                 /\ \A i \in 0..(n + 1) : row[0][i] = IF i = 0 THEN 1 ELSE 0
                 /\ \A m \in 0..n : m + 1 <= n => \A i \in 0..(n + 1) :
                      row[m + 1][i] = row[m][IF i = 0 THEN 0 ELSE i - 1] + row[m][i]
  BY HeadsOfCoins
<1> DEFINE Numbers(m) == \A i \in 0..(n + 1) : row[m][i] \in Nat
           Some(m) == row[m][0] # 0
           Falls(m) == \A i \in 0..n : row[m][i + 1] <= row[m][i]
           None(m) == \A i \in (m + 1)..(n + 1) : row[m][i] = 0
           Halves(m) == \A i \in 0..(m + 1) : row[m][i] + row[m][m + 1 - i] = row[m][0]
           T == {m \in Nat : m <= n => Numbers(m) /\ Some(m) /\ Falls(m) /\ None(m) /\ Halves(m)}
<1>2. 0 \in T
  <2>1. Numbers(0) /\ Some(0) /\ None(0)  BY <1>1
  <2>2. Falls(0)
    <3> SUFFICES ASSUME NEW i \in 0..n PROVE row[0][i + 1] <= row[0][i]
      OBVIOUS
    <3>1. i + 1 \in 0..(n + 1) /\ i \in 0..(n + 1) /\ i + 1 # 0  OBVIOUS
    <3>2. row[0][i + 1] = 0  BY <1>1, <3>1
    <3> QED  BY <1>1, <3>1, <3>2
  <2>3. Halves(0)
    <3>1. row[0][0] = 1 /\ row[0][1] = 0
      <4>1. 0 \in 0..(n + 1) /\ 1 \in 0..(n + 1)  OBVIOUS
      <4> QED  BY <1>1, <4>1
    <3>2. \A i \in 0..(0 + 1) : i = 0 \/ i = 1  OBVIOUS
    <3> QED  BY <3>1, <3>2
  <2> QED  BY <2>1, <2>2, <2>3
<1>3. ASSUME NEW m \in Nat, m \in T PROVE m + 1 \in T
  <2> SUFFICES ASSUME m + 1 <= n
               PROVE  Numbers(m + 1) /\ Some(m + 1) /\ Falls(m + 1) /\ None(m + 1) /\ Halves(m + 1)
    OBVIOUS
  <2>1. Numbers(m) /\ Some(m) /\ Falls(m) /\ None(m) /\ Halves(m)  BY <1>3
  <2> HIDE DEF Numbers, Some, Falls, None, Halves, T
  <2>2. m \in 0..n  OBVIOUS
  <2>3. \A i \in 0..(n + 1) : i # 0 => row[m + 1][i] = row[m][i - 1] + row[m][i]
    BY <1>1, <2>2
  <2>4. row[m + 1][0] = row[m][0] + row[m][0]  BY <1>1, <2>2
  <2>5. \A i \in 0..(n + 1) : row[m][i] \in Nat  BY <2>1 DEF Numbers
  <2>6. Numbers(m + 1)
    <3> SUFFICES ASSUME NEW i \in 0..(n + 1) PROVE row[m + 1][i] \in Nat
      BY DEF Numbers
    <3>1. CASE i = 0  BY <2>4, <2>5, <3>1
    <3>2. CASE i # 0
      <4>1. i - 1 \in 0..(n + 1)  BY <3>2
      <4> QED  BY <2>3, <2>5, <3>2, <4>1
    <3> QED  BY <3>1, <3>2
  <2>7. Some(m + 1)
    <3>1. row[m][0] \in Nat /\ row[m][0] # 0  BY <2>1, <2>5 DEF Some
    <3> QED  BY <2>4, <3>1 DEF Some
  <2>8. Falls(m + 1)
    <3> SUFFICES ASSUME NEW i \in 0..n PROVE row[m + 1][i + 1] <= row[m + 1][i]
      BY DEF Falls
    <3>1. /\ row[m + 1][i + 1] = row[m][i] + row[m][i + 1]
          /\ row[m][i + 1] <= row[m][i] /\ row[m][i] \in Nat /\ row[m][i + 1] \in Nat
      BY <2>1, <2>3, <2>5 DEF Falls
    <3>2. CASE i = 0  BY <2>4, <3>1, <3>2
    <3>3. CASE i # 0
      <4>1. i - 1 \in 0..n /\ i \in 0..(n + 1) /\ (i - 1) + 1 = i  BY <3>3
      <4>2. row[m][i] <= row[m][i - 1] /\ row[m][i - 1] \in Nat
        BY <2>1, <2>5, <4>1 DEF Falls
      <4>3. row[m + 1][i] = row[m][i - 1] + row[m][i]  BY <2>3, <3>3, <4>1
      <4> QED  BY <3>1, <4>2, <4>3
    <3> QED  BY <3>2, <3>3
  <2>9. None(m + 1)
    <3> SUFFICES ASSUME NEW i \in (m + 2)..(n + 1) PROVE row[m + 1][i] = 0
      BY DEF None
    <3>1. i - 1 \in (m + 1)..(n + 1) /\ i \in (m + 1)..(n + 1) /\ i \in 0..(n + 1) /\ i # 0
      OBVIOUS
    <3>2. row[m][i - 1] = 0 /\ row[m][i] = 0  BY <2>1, <3>1 DEF None
    <3> QED  BY <2>3, <3>1, <3>2
  <2>10. Halves(m + 1)
    <3> SUFFICES ASSUME NEW i \in 0..(m + 2)
                 PROVE  row[m + 1][i] + row[m + 1][m + 2 - i] = row[m + 1][0]
      BY DEF Halves
    <3>0. m + 2 \in 0..(n + 1) /\ m + 2 # 0  OBVIOUS
    <3>1. row[m + 1][m + 2] = 0
      <4>1. m + 2 \in (m + 1 + 1)..(n + 1)  OBVIOUS
      <4> QED  BY <2>9, <4>1 DEF None
    <3>2. row[m + 1][0] \in Nat  BY <2>6 DEF Numbers
    <3>3. CASE i = 0
      <4>1. m + 2 - i = m + 2  BY <3>3
      <4> QED  BY <3>1, <3>2, <3>3, <4>1
    <3>4. CASE i = m + 2
      <4>1. m + 2 - i = 0  BY <3>4
      <4> QED  BY <3>1, <3>2, <3>4, <4>1
    <3>5. CASE i # 0 /\ i # m + 2
      <4> DEFINE j == m + 2 - i
      <4>1. /\ i \in 0..(m + 1) /\ i - 1 \in 0..(m + 1) /\ i # 0
            /\ j \in 0..(n + 1) /\ j - 1 \in 0..(n + 1) /\ j # 0
            /\ i \in 0..(n + 1) /\ i - 1 \in 0..(n + 1)
            /\ m + 1 - i = j - 1 /\ m + 1 - (i - 1) = j
        BY <3>5
      <4> HIDE DEF j
      <4>2. row[m][i] + row[m][j - 1] = row[m][0] /\ row[m][i - 1] + row[m][j] = row[m][0]
        BY <2>1, <4>1 DEF Halves
      <4>3. row[m + 1][i] = row[m][i - 1] + row[m][i] /\ row[m + 1][j] = row[m][j - 1] + row[m][j]
        BY <2>3, <4>1
      <4>4. /\ row[m][i] \in Nat /\ row[m][i - 1] \in Nat /\ row[m][j] \in Nat
            /\ row[m][j - 1] \in Nat /\ row[m][0] \in Nat
        BY <2>5, <4>1
      <4>5. row[m + 1][i] + row[m + 1][j] = row[m + 1][0]
        BY <2>4, <4>2, <4>3, <4>4
      <4> QED  BY <4>5 DEF j
    <3> QED  BY <3>3, <3>4, <3>5
  <2> QED  BY <2>6, <2>7, <2>8, <2>9, <2>10
<1>4. n \in T
  <2> HIDE DEF T
  <2> QED  BY <1>2, <1>3, NaturalInduction
<1>5. Numbers(n) /\ Some(n) /\ Falls(n) /\ Halves(n)  BY <1>4
<1> HIDE DEF Numbers, Some, Falls, None, Halves
<1>6. /\ k \in 0..(n + 1) /\ n - k \in 0..n /\ n - k \in 0..(n + 1) /\ 0 \in 0..(n + 1)
      /\ n + 1 - k = (n - k) + 1 /\ n + 1 - k \in 0..(n + 1)
  OBVIOUS
<1>7. /\ row[n][k] \in Nat /\ row[n][n - k] \in Nat /\ row[n][0] \in Nat
      /\ row[n][n + 1 - k] \in Nat
  BY <1>5, <1>6 DEF Numbers
<1>8. row[n][n + 1 - k] <= row[n][n - k]  BY <1>5, <1>6 DEF Falls
<1>9. row[n][k] + row[n][n + 1 - k] = row[n][0]  BY <1>5, <1>6 DEF Halves
<1>10. row[n][0] # 0  BY <1>5 DEF Some
<1> QED  BY <1>1, <1>7, <1>8, <1>9, <1>10

\* A pair that passes the sign test fails it with heads and tails exchanged.
LEMMA OneSidePasses ==
  ASSUME NEW pos \in Nat, NEW neg \in Nat, NEW alpha \in 1..50,
         SignTestPasses(pos, neg, alpha)
  PROVE  ~SignTestPasses(neg, pos, alpha)
<1> DEFINE n == pos + neg
           H == AtLeast(n)
<1>1. n \in Nat /\ pos \in 0..n /\ n - pos = neg /\ neg + pos = n  OBVIOUS
<1>2. /\ AtLeast(n)[pos] \in Nat /\ AtLeast(n)[n - pos] \in Nat
      /\ AtLeast(n)[0] \in Nat \ {0}
      /\ AtLeast(n)[pos] + AtLeast(n)[n - pos] >= AtLeast(n)[0]
  BY <1>1, HeadsOrTails
<1>3. H[pos] \in Nat /\ H[neg] \in Nat /\ H[0] \in Nat \ {0} /\ H[pos] + H[neg] >= H[0]
  BY <1>1, <1>2
<1>4. 100 * H[pos] < alpha * H[0]  BY DEF SignTestPasses
<1>5. SUFFICES ASSUME 100 * H[neg] < alpha * H[0] PROVE FALSE
  BY <1>1 DEF SignTestPasses
<1> HIDE DEF H
<1>6. ASSUME NEW x \in Nat, NEW a \in 1..50 PROVE a * x <= 50 * x
  <2>1. a <= 50 /\ a \in Nat /\ 50 \in Nat  OBVIOUS
  <2> QED  BY <2>1
<1>7. alpha * H[0] <= 50 * H[0] /\ alpha * H[0] \in Nat
  BY <1>3, <1>6
<1> DEFINE x == alpha * H[0]
<1>8. x <= 50 * H[0] /\ x \in Nat /\ 100 * H[pos] < x /\ 100 * H[neg] < x
  BY <1>4, <1>5, <1>7
<1> HIDE DEF x
<1> QED  BY <1>3, <1>8
-----------------------------------------------------------------------------
(* The direction of a pair.                                                *)

LEMMA CompositesFlip ==
  ASSUME NEW p \in Composites
  PROVE  Flip(p) \in Composites /\ Flip(Flip(p)) = p
BY DEF Composites, Flip

LEMMA CompositesAreFinite == IsFiniteSet(Composites)
<1>1. IsFiniteSet(SeedSet)
  <2>1. Len(Seeds) \in Nat /\ DOMAIN Seeds = 1..Len(Seeds)
    BY SeedsAreOrdered, LenProperties
  <2>2. Seeds \in Surjection(1..Len(Seeds), SeedSet)
    BY <2>1, SeedsAreOrdered, SeqDef DEF Surjection, SeedSet, Range
  <2>3. IsFiniteSet(1..Len(Seeds))
    <3>1. 1 \in Int /\ Len(Seeds) \in Int  BY <2>1
    <3> QED  BY <3>1, FS_Interval
  <2> QED  BY <2>2, <2>3, FS_Surjection
<1>2. IsFiniteSet(SeedSet \X SeedSet)  BY <1>1, FS_Product
<1>3. Composites \subseteq SeedSet \X SeedSet  BY DEF Composites
<1> QED  BY <1>2, <1>3, FS_Subset

\* What one order wins over the other on the common cases, the other loses.
LEMMA WinsAreLosses ==
  ASSUME NEW a, IsFiniteSet(a), NEW p \in Composites
  PROVE  LET wins(q) == {t \in Twins(a, q) : t[1].benefit > t[2].benefit}
             losses(q) == {t \in Twins(a, q) : t[1].benefit < t[2].benefit}
         IN  /\ Cardinality(wins(Flip(p))) = Cardinality(losses(p))
             /\ Cardinality(wins(p)) \in Nat /\ Cardinality(losses(p)) \in Nat
             /\ Cardinality(losses(Flip(p))) = Cardinality(wins(p))
<1> DEFINE wins(q) == {t \in Twins(a, q) : t[1].benefit > t[2].benefit}
           losses(q) == {t \in Twins(a, q) : t[1].benefit < t[2].benefit}
           Turned(t) == <<t[2], t[1]>>
<1>1. IsFiniteSet(a \X a)  BY FS_Product
<1>2. ASSUME NEW q PROVE Twins(a, q) \subseteq a \X a  BY DEF Twins, RowsOf
<1>3. ASSUME NEW q \in Composites, NEW t \in Twins(a, q)
      PROVE  Turned(t) \in Twins(a, Flip(q)) /\ Turned(Turned(t)) = t
  <2>1. t \in RowsOf(a, q) \X RowsOf(a, Flip(q)) /\ t[1].case = t[2].case  BY DEF Twins
  <2>2. Flip(Flip(q)) = q  BY CompositesFlip
  <2>3. Turned(t) \in RowsOf(a, Flip(q)) \X RowsOf(a, Flip(Flip(q)))  BY <2>1, <2>2
  <2>4. Turned(t)[1].case = Turned(t)[2].case  BY <2>1
  <2>5. Turned(Turned(t)) = t  BY <2>1
  <2> QED  BY <2>3, <2>4, <2>5 DEF Twins
<1>4. ASSUME NEW q \in Composites
      PROVE  /\ IsFiniteSet(wins(q)) /\ Cardinality(wins(q)) \in Nat
             /\ Cardinality(losses(Flip(q))) = Cardinality(wins(q))
  <2>1. wins(q) \subseteq a \X a  BY <1>2
  <2>2. IsFiniteSet(wins(q)) /\ Cardinality(wins(q)) \in Nat
    BY <1>1, <2>1, FS_Subset, FS_CardinalityType
  <2> DEFINE f == [t \in wins(q) |-> Turned(t)]
             L == losses(Flip(q))
  <2>3. Flip(q) \in Composites /\ Flip(Flip(q)) = q  BY CompositesFlip
  <2>4. ASSUME NEW t \in wins(q) PROVE Turned(t) \in L
    <3>1. Turned(t) \in Twins(a, Flip(q))  BY <1>3
    <3>2. Turned(t)[1].benefit < Turned(t)[2].benefit  OBVIOUS
    <3> QED  BY <3>1, <3>2
  <2>5. ASSUME NEW t \in L PROVE \E s \in wins(q) : Turned(s) = t
    <3>1. Turned(t) \in Twins(a, q) /\ Turned(Turned(t)) = t  BY <1>3, <2>3
    <3>2. Turned(t)[1].benefit > Turned(t)[2].benefit  OBVIOUS
    <3>3. Turned(t) \in wins(q)  BY <3>1, <3>2
    <3> QED  BY <3>1, <3>3
  <2>6. ASSUME NEW s \in wins(q), NEW t \in wins(q), Turned(s) = Turned(t) PROVE s = t
    <3>1. Turned(Turned(s)) = s /\ Turned(Turned(t)) = t  BY <1>3
    <3> QED  BY <2>6, <3>1
  <2> DEFINE W == wins(q)
  <2> HIDE DEF L, W, Turned
  <2>7. \A t \in W : Turned(t) \in L  BY <2>4 DEF W
  <2>8. \A t \in L : \E s \in W : Turned(s) = t  BY <2>5 DEF W
  <2>9. \A s, t \in W : Turned(s) = Turned(t) => s = t  BY <2>6 DEF W
  <2>10. [t \in W |-> Turned(t)] \in Bijection(W, L)
    BY <2>7, <2>8, <2>9 DEF Bijection, Injection, Surjection, IsInjective
  <2>11. ExistsBijection(W, L)  BY <2>10 DEF ExistsBijection
  <2>12. IsFiniteSet(W)  BY <2>2 DEF W
  <2>13. Cardinality(L) = Cardinality(W)  BY <2>11, <2>12, FS_Bijection
  <2> QED  BY <2>2, <2>13 DEF L, W
<1>5. Flip(p) \in Composites /\ Flip(Flip(p)) = p  BY CompositesFlip
<1> HIDE DEF wins, losses
<1>6. Cardinality(wins(Flip(p))) = Cardinality(losses(p)) /\ Cardinality(wins(Flip(p))) \in Nat
  BY <1>4, <1>5
<1>7. Cardinality(losses(Flip(p))) = Cardinality(wins(p)) /\ Cardinality(wins(p)) \in Nat
  BY <1>4
<1> QED  BY <1>6, <1>7 DEF wins, losses

\* D1 passes a pair in one order at most.
LEMMA OneOrderPasses ==
  ASSUME direction_alpha <= 50, NEW a, IsFiniteSet(a), NEW p \in Composites,
         PassesD1(a, p)
  PROVE  ~PassesD1(a, Flip(p))
<1> DEFINE wins(q) == {t \in Twins(a, q) : t[1].benefit > t[2].benefit}
           losses(q) == {t \in Twins(a, q) : t[1].benefit < t[2].benefit}
<1>1. ASSUME NEW q, PassesD1(a, q)
      PROVE  SignTestPasses(Cardinality(wins(q)), Cardinality(losses(q)), direction_alpha)
  BY <1>1 DEF PassesD1, BeatsReverse
<1>2. /\ Cardinality(wins(Flip(p))) = Cardinality(losses(p))
      /\ Cardinality(wins(p)) \in Nat /\ Cardinality(losses(p)) \in Nat
      /\ Cardinality(losses(Flip(p))) = Cardinality(wins(p))
  BY WinsAreLosses
<1>3. direction_alpha \in 1..50  BY ArenaAssumption
<1> HIDE DEF wins, losses
<1>4. SignTestPasses(Cardinality(wins(p)), Cardinality(losses(p)), direction_alpha)
  BY <1>1
<1>5. ~SignTestPasses(Cardinality(losses(p)), Cardinality(wins(p)), direction_alpha)
  BY <1>2, <1>3, <1>4, OneSidePasses
<1> QED  BY <1>1, <1>2, <1>5

\* The operators that were merged or are about to be.
Merged ==
  {ledger[i].operator : i \in DOMAIN ledger} \cup {survivors[i] : i \in DOMAIN survivors}

\* The evidence is finite and no pair is merged in both orders.
Directed ==
  /\ IsFiniteSet(attempts)
  /\ \A p, q \in Merged : q # Flip(p)

LEMMA DirectedStarts == Init => Directed
<1> SUFFICES ASSUME Init PROVE Directed  OBVIOUS
<1>1. attempts = {} /\ ledger = <<>> /\ survivors = <<>>  BY DEF Init, RunInit
<1>2. DOMAIN <<>> = {}  OBVIOUS
<1>3. Merged = {}  BY <1>1, <1>2 DEF Merged
<1> QED  BY <1>1, <1>3, FS_EmptySet DEF Directed

\* Fewer merged operators have fewer opposites.
LEMMA FewerMerged ==
  ASSUME Directed, IsFiniteSet(attempts'), Merged' \subseteq Merged
  PROVE  Directed'
BY DEF Directed

\* A case adds finitely many attempts and renames no operator.
LEMMA CaseKeepsDirection ==
  ASSUME ArenaInvariant, Directed, RunCase
  PROVE  Directed'
<1>1. /\ survivors' = survivors /\ DOMAIN ledger' = DOMAIN ledger
      /\ \A i \in DOMAIN ledger : ledger'[i].operator = ledger[i].operator
  BY CaseKeepsLives DEF RunCase
<1>2. Merged' \subseteq Merged  BY <1>1 DEF Merged
<1>3. PICK S \in SUBSET Composites, b \in Chained :
        attempts' = attempts \cup {[case |-> position + 1, pair |-> p, benefit |-> b[p]] : p \in S}
  <2>1. PICK offered :
          \E rows \in IF Collecting THEN Scheduled(Chains(offered)) ELSE {{}} :
            \E b \in Chained :
              attempts' = attempts \cup
                {[case |-> position + 1, pair |-> p, benefit |-> b[p]] :
                   p \in {q \in rows : b[q] # NoGain}}
    BY DEF RunCase
  <2>2. PICK rows \in IF Collecting THEN Scheduled(Chains(offered)) ELSE {{}}, b \in Chained :
              attempts' = attempts \cup
                {[case |-> position + 1, pair |-> p, benefit |-> b[p]] :
                   p \in {q \in rows : b[q] # NoGain}}
    BY <2>1
  <2>3. rows \subseteq Composites  BY DEF Scheduled, Chains
  <2> QED  BY <2>2, <2>3
<1> DEFINE row(p) == [case |-> position + 1, pair |-> p, benefit |-> b[p]]
           R == {row(p) : p \in S}
<1>4. IsFiniteSet(S)  BY CompositesAreFinite, FS_Subset
<1> HIDE DEF row
<1>5. [p \in S |-> row(p)] \in Surjection(S, R)  BY DEF Surjection
<1>6. IsFiniteSet(R)  BY <1>4, <1>5, FS_Surjection
<1>7. attempts' = attempts \cup R  BY <1>3 DEF row
<1> HIDE DEF R
<1>8. IsFiniteSet(attempts')  BY <1>6, <1>7, FS_Union DEF Directed
<1> QED  BY <1>2, <1>8, FewerMerged

\* The deposition finds an empty ledger and lists pairs that D1 passes.
LEMMA PromoteKeepsDirection ==
  ASSUME direction_alpha <= 50, ArenaInvariant, Directed, Promote
  PROVE  Directed'
<1>1. ledger' = ledger /\ attempts' = attempts /\ Len(ledger) = 0
  BY DEF Promote, ArenaInvariant, Staged
<1>2. DOMAIN ledger = {}
  BY <1>1, SequenceDomain DEF ArenaInvariant, IsLedger
<1> DEFINE passed == {p \in Composites : RowsOf(attempts, p) # {} /\ PassesD1(attempts, p)}
<1>3. \E above : survivors' \in SurvivorLists({p \in passed : above[p]})
  BY DEF Promote
<1>4. ASSUME NEW p \in passed PROVE p \in Composites /\ PassesD1(attempts, p)
  OBVIOUS
<1> HIDE DEF passed
<1>5. PICK above : survivors' \in SurvivorLists({p \in passed : above[p]})
  BY <1>3
<1>6. PICK k \in 0..max_candidates : survivors' \in [1..k -> {p \in passed : above[p]}]
  BY <1>5 DEF SurvivorLists, BoundedSeq, SeqOf
<1>7. \A p \in Merged' : p \in passed  BY <1>1, <1>2, <1>6 DEF Merged
<1>8. ASSUME NEW p \in passed PROVE Flip(p) \notin passed
  BY <1>4, OneOrderPasses DEF Directed
<1> QED  BY <1>1, <1>7, <1>8 DEF Directed

\* A confirmation moves one survivor to the ledger, or to nowhere.
LEMMA ConfirmKeepsDirection ==
  ASSUME ArenaInvariant, Directed, Confirm
  PROVE  Directed'
<1>0. /\ IsLedger(ledger) /\ survivors \in Seq(Composites) /\ survivors # <<>>
      /\ survivors' = Tail(survivors) /\ attempts' = attempts
  BY DEF ArenaInvariant, Confirm
<1>1. /\ Len(survivors) \in Nat \ {0} /\ Tail(survivors) \in Seq(Composites)
      /\ Len(Tail(survivors)) = Len(survivors) - 1
      /\ \A i \in 1..Len(Tail(survivors)) : Tail(survivors)[i] = survivors[i + 1]
  BY <1>0, EmptySeq, LenProperties, HeadTailProperties
<1>2. \A i \in DOMAIN ledger : ledger[i].applied = 0
  BY DEF ArenaInvariant, Staged, Confirm
<1> DEFINE p == survivors[1]
<1>3. PICK gains, passes : ledger' = Admit(ledger, ArenaId, p, gains, position, passes)
  BY DEF Confirm
<1> HIDE DEF p
<1>4. /\ DOMAIN ledger \subseteq DOMAIN ledger'
      /\ \A i \in DOMAIN ledger : ledger'[i].operator = ledger[i].operator
      /\ \A i \in DOMAIN ledger' \ DOMAIN ledger : ledger'[i].operator = p
  BY <1>0, <1>2, <1>3, AdmitKeepsLives
<1>5. DOMAIN survivors = 1..Len(survivors) /\ DOMAIN Tail(survivors) = 1..Len(Tail(survivors))
  BY <1>0, <1>1, LenProperties
<1>6. 1 \in DOMAIN survivors /\ \A i \in DOMAIN Tail(survivors) : i + 1 \in DOMAIN survivors
  BY <1>1, <1>5
<1>7. \A i \in DOMAIN survivors' : survivors'[i] \in Merged
  BY <1>0, <1>1, <1>5, <1>6 DEF Merged
<1>8. p \in Merged  BY <1>6 DEF Merged, p
<1>9. \A i \in DOMAIN ledger' : ledger'[i].operator \in Merged
  BY <1>4, <1>8 DEF Merged
<1>10. Merged' \subseteq Merged  BY <1>7, <1>9 DEF Merged
<1> QED  BY <1>0, <1>10, FewerMerged DEF Directed

LEMMA DirectedStep ==
  ASSUME direction_alpha <= 50, ArenaInvariant, Directed, [Next]_scopedVars
  PROVE  Directed'
<1>1. ASSUME UNCHANGED <<attempts, ledger, survivors>> PROVE Directed'
  BY <1>1 DEF Directed, Merged
<1>2. CASE UNCHANGED vars  BY <1>1, <1>2 DEF vars, depositionVars
<1>3. CASE StartRun  BY <1>1, <1>3 DEF StartRun, depositionVars
<1>4. CASE RunCase  BY <1>4, CaseKeepsDirection
<1>5. CASE Promote  BY <1>5, PromoteKeepsDirection
<1>6. CASE Confirm  BY <1>6, ConfirmKeepsDirection
<1>7. CASE Resume
  <2>1. attempts' = {} /\ UNCHANGED <<ledger, survivors>>  BY <1>7 DEF Resume
  <2> QED  BY <2>1, FS_EmptySet DEF Directed, Merged
<1>8. CASE Finish  BY <1>1, <1>8 DEF Finish, depositionVars
<1> QED
  BY <1>2, <1>3, <1>4, <1>5, <1>6, <1>7, <1>8
  DEF Next, Auditing, Running, RunNext, Ended, scopedVars

\* Whatever the chains measure, no two skills are merged in both orders.  The
\* code admits any direction_alpha below one, and 0.1 is its default.  From about
\* three quarters on a draw passes the test in both orders; each then also beats
\* the other's mean if each was measured on a good case that the other was not.
THEOREM OneDirectionIsMerged ==
  ASSUME direction_alpha <= 50
  PROVE  Spec => []OneDirectionPerPair
<1>1. Directed => OneDirectionPerPair
  BY DEF Directed, Merged, OneDirectionPerPair, Known, Entries
<1>2. Init => Directed  BY DirectedStarts
<1>3. ArenaInvariant /\ Directed /\ [Next]_scopedVars => Directed'  BY DirectedStep
<1> QED  BY <1>1, <1>2, <1>3, ArenaIsGoverned, PTL DEF Spec
-----------------------------------------------------------------------------
(* The recovery after a removal.                                           *)

\* The last k comparisons of windows up to the n-th winner agree.
AgreesBack(n, k) ==
  \A i \in 0..k :
    LET b == n - i * window_size
    IN  /\ b >= window_size /\ DOMAIN Window(b) # {}
        /\ i > 0 => Agree(Window(b), Window(b + window_size))

\* m windows have been closed, and the run counts agreeing comparisons.
Closed(m) ==
  /\ m * window_size <= Len(winners) /\ Len(winners) < m * window_size + window_size
  /\ IF m = 0 THEN previous = NoCount /\ stable_run = 0
     ELSE previous = Window(m * window_size)
  /\ stable_run > 0 => AgreesBack(m * window_size, stable_run)

Probed ==
  /\ IsSequence(winners) /\ stable_run \in Nat /\ recovered \in Nat
  /\ \E m \in Nat : Closed(m)
  /\ recovered # 0 => recovered <= Len(winners) /\ AgreesBack(recovered, stable_windows)

\* A window that was closed does not change.
LEMMA WindowStays ==
  ASSUME IsSequence(winners), NEW e, winners' = Append(winners, e),
         NEW n \in Nat, window_size <= n, n <= Len(winners)
  PROVE  Window(n)' = Window(n)
<1> DEFINE f == n - window_size + 1
           s == SubSeq(winners, f, n)
           t == SubSeq(winners', f, n)
           S == ToSet(winners) \cup {e}
<1>1. window_size \in Nat \ {0} /\ Len(winners) \in Nat
  BY ArenaAssumption, SequenceDomain
<1>2. /\ winners \in Seq(S) /\ winners' \in Seq(S) /\ Len(winners') = Len(winners) + 1
      /\ \A i \in 1..Len(winners) : winners'[i] = winners[i]
  <2>1. winners \in Seq(S)  BY SeqMonotonic DEF IsSequence
  <2>2. e \in S  OBVIOUS
  <2> HIDE DEF S
  <2> QED  BY <2>1, <2>2, AppendProperties
<1> HIDE DEF S
<1>3. /\ f \in 1..(Len(winners) + 1) /\ n \in (f - 1)..Len(winners)
      /\ f \in 1..(Len(winners') + 1) /\ n \in (f - 1)..Len(winners')
      /\ n - f + 1 = window_size
  BY <1>1, <1>2
<1> HIDE DEF f
<1>4. /\ s \in Seq(S) /\ Len(s) = window_size
      /\ \A i \in 1..window_size : s[i] = winners[f + i - 1]
  BY <1>2, <1>3, SubSeqProperties
<1>5. /\ t \in Seq(S) /\ Len(t) = window_size
      /\ \A i \in 1..window_size : t[i] = winners'[f + i - 1]
  BY <1>2, <1>3, SubSeqProperties
<1>6. \A i \in 1..window_size : s[i] = t[i]
  <2>1. ASSUME NEW i \in 1..window_size PROVE f + i - 1 \in 1..Len(winners)
    BY <1>1, <1>3
  <2> QED  BY <1>2, <1>4, <1>5, <2>1
<1> HIDE DEF s, t
<1>7. s = t  BY <1>1, <1>4, <1>5, <1>6, SeqEqual
<1> QED  BY <1>7 DEF Window, s, t, f

LEMMA BackStays ==
  ASSUME IsSequence(winners), NEW e, winners' = Append(winners, e),
         NEW n \in Nat, n <= Len(winners), NEW k \in Nat, AgreesBack(n, k)
  PROVE  AgreesBack(n, k)'
<1> SUFFICES ASSUME NEW i \in 0..k
             PROVE  LET b == n - i * window_size
                    IN  /\ b >= window_size /\ (DOMAIN Window(b))' # {}
                        /\ i > 0 => Agree(Window(b)', Window(b + window_size)')
  BY DEF AgreesBack
<1> DEFINE b == n - i * window_size
<1>1. window_size \in Nat \ {0} /\ Len(winners) \in Nat
  BY ArenaAssumption, SequenceDomain
<1>2. /\ b >= window_size /\ DOMAIN Window(b) # {}
      /\ i > 0 => Agree(Window(b), Window(b + window_size))
  BY DEF AgreesBack
<1>3. i * window_size \in Nat /\ (i > 0 => i * window_size >= window_size)
  BY <1>1
<1>4. b \in Nat /\ b <= Len(winners) /\ (i > 0 => b + window_size <= n)
  BY <1>1, <1>2, <1>3
<1> HIDE DEF b
<1>5. Window(b)' = Window(b)  BY <1>2, <1>4, WindowStays
<1>6. i > 0 => Window(b + window_size)' = Window(b + window_size)
  <2>1. b + window_size \in Nat /\ window_size <= b + window_size  BY <1>1, <1>4
  <2>2. i > 0 => b + window_size <= Len(winners)  BY <1>1, <1>4
  <2> QED  BY <2>1, <2>2, WindowStays
<1> QED  BY <1>2, <1>5, <1>6 DEF b

\* The number of winners is a multiple of the window exactly when one more closes.
LEMMA NextMultiple ==
  ASSUME NEW m \in Nat, NEW w \in Nat \ {0}, NEW n \in Nat,
         m * w < n, n <= m * w + w
  PROVE  n % w = 0 <=> n = m * w + w
<1> DEFINE q == n \div w
<1>1. q \in Int /\ n = w * q + (n % w) /\ n % w \in 0..(w - 1)
  OBVIOUS
<1>2. m * w \in Nat /\ w * q \in Int  BY <1>1
<1>3. ASSUME n % w = 0 PROVE n = m * w + w
  <2>1. n = w * q  BY <1>1, <1>3
  <2>2. q > m
    <3>1. ASSUME q <= m PROVE FALSE
      <4>1. w * q <= m * w  BY <1>1, <3>1
      <4> QED  BY <2>1, <4>1, <1>2
    <3> QED  BY <3>1, <1>1
  <2>3. w * q >= m * w + w
    <3>1. q >= m + 1  BY <2>2, <1>1
    <3>2. w * q >= w * (m + 1)  BY <3>1, <1>1
    <3> QED  BY <3>2
  <2> QED  BY <2>1, <2>3, <1>2
<1>4. ASSUME n = m * w + w PROVE n % w = 0
  <2>1. n = w * (m + 1)  BY <1>4
  <2>2. w * (m + 1 - q) = n % w  BY <1>1, <2>1
  <2>3. m + 1 - q = 0
    <3>1. ASSUME m + 1 - q >= 1 PROVE FALSE
      <4>1. w * (m + 1 - q) >= w  BY <3>1, <1>1
      <4> QED  BY <4>1, <2>2, <1>1
    <3>2. ASSUME m + 1 - q <= -1 PROVE FALSE
      <4>1. w * (m + 1 - q) <= -w  BY <3>2, <1>1
      <4> QED  BY <4>1, <2>2, <1>1
    <3> QED  BY <3>1, <3>2, <1>1
  <2> QED  BY <2>2, <2>3
<1> QED  BY <1>3, <1>4

\* One more agreeing comparison extends the run of them.
LEMMA ExtendBack ==
  ASSUME NEW B \in Nat, B >= window_size, NEW k \in Nat, AgreesBack(B, k)',
         NEW n, n = B + window_size, NEW j, j = k + 1,
         Agree(Window(B)', Window(n)')
  PROVE  AgreesBack(n, j)'
<1> SUFFICES ASSUME NEW i \in 0..j
             PROVE  LET b == n - i * window_size
                    IN  /\ b >= window_size /\ (DOMAIN Window(b))' # {}
                        /\ i > 0 => Agree(Window(b)', Window(b + window_size)')
  BY DEF AgreesBack
<1>1. window_size \in Nat \ {0}  BY ArenaAssumption
<1>2. CASE i = 0
  <2>1. n - i * window_size = n  BY <1>1, <1>2
  <2>2. B - 0 * window_size = B  BY <1>1
  <2>3. (DOMAIN Window(B))' # {}  BY <2>2 DEF AgreesBack
  <2>4. DOMAIN (Window(B)') = DOMAIN (Window(n)')  BY DEF Agree
  <2> QED  BY <1>1, <1>2, <2>1, <2>3, <2>4
<1>3. CASE i > 0
  <2> DEFINE h == i - 1
             c == B - h * window_size
  <2>1. h \in 0..k /\ n - i * window_size = c  BY <1>1, <1>3
  <2>2. /\ c >= window_size /\ (DOMAIN Window(c))' # {}
        /\ h > 0 => Agree(Window(c)', Window(c + window_size)')
    BY <2>1 DEF AgreesBack
  <2>3. h = 0 => c = B  BY <1>1
  <2> HIDE DEF c
  <2>4. Agree(Window(c)', Window(c + window_size)')
    <3>1. CASE h = 0  BY <3>1, <2>3
    <3>2. CASE h > 0  BY <3>2, <2>2
    <3> QED  BY <3>1, <3>2, <2>1
  <2> QED  BY <2>1, <2>2, <2>4
<1> QED  BY <1>2, <1>3

\* No window that was closed is the marker for none.
LEMMA NoWindowIsNoCount == ASSUME NEW n PROVE Window(n) # NoCount
<1>1. NoSkill \notin DOMAIN Window(n)  BY DEF Window, Distribution
<1>2. NoSkill \in DOMAIN NoCount  BY DEF NoCount
<1> QED  BY <1>1, <1>2

\* An observed winner: the probe closes a window or only counts the winner.
LEMMA ObserveKeepsProbed ==
  ASSUME Probed, NEW winner, Observe(winner)
  PROVE  Probed'
<1>1. PICK m \in Nat : Closed(m)  BY DEF Probed
<1>2. window_size \in Nat \ {0} /\ stable_windows \in Nat \ {0}  BY ArenaAssumption
<1>3. /\ IsSequence(winners) /\ Len(winners) \in Nat
      /\ stable_run \in Nat /\ recovered \in Nat
  BY SequenceDomain DEF Probed
\* The values before the step.
<1>r. PICK run \in Nat : run = stable_run  BY <1>3
<1>c. PICK at \in Nat : at = recovered  BY <1>3
<1>n. PICK n \in Nat : n = Len(winners) + 1  BY <1>3
<1>b. PICK B \in Nat : B = m * window_size
  <2>1. m * window_size \in Nat  BY <1>2
  <2> QED  BY <2>1
<1>4. winners' = Append(winners, winner) /\ IsSequence(winners') /\ Len(winners') = n
  <2>1. winners' = Append(winners, winner)  BY DEF Observe
  <2> QED  BY <1>3, <1>n, <2>1, AppendedSequence
<1>5. /\ B <= Len(winners) /\ Len(winners) < B + window_size
      /\ B < n /\ n <= B + window_size
      /\ m = 0 => B = 0
      /\ m # 0 => B >= window_size
      /\ (m + 1) * window_size = B + window_size
  BY <1>1, <1>2, <1>3, <1>n, <1>b DEF Closed
<1>6. n % window_size = 0 <=> n = B + window_size
  BY <1>1, <1>2, <1>5, <1>b, NextMultiple
<1>7. /\ m = 0 => previous = NoCount /\ run = 0
      /\ m # 0 => previous = Window(B)
      /\ run > 0 => AgreesBack(B, run)
  BY <1>1, <1>b, <1>r DEF Closed
<1>8. m # 0 => Window(B)' = Window(B)
  BY <1>3, <1>4, <1>5, WindowStays
<1>9. run > 0 => AgreesBack(B, run)'
  BY <1>3, <1>4, <1>5, <1>7, BackStays
<1>10. at # 0 => at <= Len(winners') /\ AgreesBack(at, stable_windows)'
  <2>1. at # 0 => at <= Len(winners) /\ AgreesBack(at, stable_windows)
    BY <1>c DEF Probed
  <2>2. at # 0 => AgreesBack(at, stable_windows)'
    BY <1>2, <1>3, <1>4, <2>1, BackStays
  <2> QED  BY <1>3, <1>4, <1>n, <2>1, <2>2
<1>11. IF n % window_size = 0
       THEN /\ previous' = Window(n)' /\ stable_run' = AfterWindow(Window(n)').run
            /\ recovered' = IF at = 0 /\ stable_run' >= stable_windows THEN n ELSE at
       ELSE previous' = previous /\ stable_run' = run /\ recovered' = at
  <2>1. Window(n)' = Distribution(SubSeq(winners', n - window_size + 1, n))
    BY DEF Window
  <2> QED  BY <1>4, <1>r, <1>c, <2>1 DEF Observe, AfterWindow
<1>12. CASE n # B + window_size
  <2>1. previous' = previous /\ stable_run' = run /\ recovered' = at
    BY <1>6, <1>11, <1>12
  <2>2. Closed(m)'
    <3>1. B <= Len(winners') /\ Len(winners') < B + window_size
      BY <1>2, <1>4, <1>5, <1>12
    <3>2. IF m = 0 THEN previous' = NoCount /\ stable_run' = 0
          ELSE previous' = Window(B)'
      BY <2>1, <1>7, <1>8
    <3>3. stable_run' > 0 => AgreesBack(B, stable_run)'
      BY <2>1, <1>9 DEF AgreesBack
    <3> QED  BY <3>1, <3>2, <3>3, <1>b DEF Closed
  <2>3. recovered' # 0 =>
          recovered' <= Len(winners') /\ AgreesBack(recovered, stable_windows)'
    BY <2>1, <1>10 DEF AgreesBack
  <2> QED  BY <1>1, <1>4, <2>1, <2>2, <2>3 DEF Probed
<1>13. CASE n = B + window_size
  <2>1. PICK d : d = Window(n)'  OBVIOUS
  <2>2. /\ previous' = d /\ stable_run' = AfterWindow(d).run
        /\ recovered' = IF at = 0 /\ stable_run' >= stable_windows THEN n ELSE at
    BY <1>6, <1>11, <1>13, <2>1
  <2>3. \/ stable_run' = 0
        \/ m # 0 /\ stable_run' = run + 1 /\ DOMAIN d # {} /\ Agree(previous, d)
    <3>1. m # 0 => previous # NoCount  BY <1>7, NoWindowIsNoCount
    <3>2. stable_run' = IF DOMAIN d = {} THEN 0
                        ELSE IF previous = NoCount THEN run
                        ELSE IF Agree(previous, d) THEN run + 1 ELSE 0
      BY <2>2, <1>r DEF AfterWindow
    <3> QED  BY <3>1, <3>2, <1>7
  <2>4. PICK after \in Nat : after = stable_run'  BY <2>3
  <2>5. after > 0 => AgreesBack(n, after)'
    <3> SUFFICES ASSUME after > 0 PROVE AgreesBack(n, after)'
      OBVIOUS
    <3>1. m # 0 /\ after = run + 1 /\ DOMAIN d # {} /\ Agree(previous, d)
      BY <2>3, <2>4
    <3>2. Window(B)' = previous  BY <3>1, <1>7, <1>8
    <3>3. AgreesBack(B, run)'
      <4>1. CASE run > 0  BY <4>1, <1>9
      <4>2. CASE run = 0
        <5>1. (DOMAIN Window(B))' # {}  BY <3>1, <3>2 DEF Agree
        <5>2. B - 0 * window_size = B /\ B >= window_size  BY <1>2, <1>5, <3>1
        <5>3. \A i \in 0..run : i = 0  BY <4>2
        <5> QED  BY <5>1, <5>2, <5>3 DEF AgreesBack
      <4> QED  BY <4>1, <4>2
    <3>4. Agree(Window(B)', Window(n)')  BY <3>1, <3>2, <2>1
    <3> QED  BY <1>5, <1>13, <3>1, <3>3, <3>4, ExtendBack
  <2>6. Closed(m + 1)'
    <3>1. PICK k \in Nat : k = m + 1 /\ k # 0 /\ k * window_size = n
      BY <1>5, <1>13
    <3>2. n <= Len(winners') /\ Len(winners') < n + window_size
      BY <1>2, <1>4
    <3>3. stable_run' > 0 => AgreesBack(n, stable_run)'
      BY <2>4, <2>5 DEF AgreesBack
    <3>4. Closed(k)'  BY <3>1, <3>2, <3>3, <2>1, <2>2 DEF Closed
    <3> QED  BY <3>1, <3>4
  <2>7. recovered' \in Nat
        /\ (recovered' # 0 => recovered' <= Len(winners')
                              /\ AgreesBack(recovered, stable_windows)')
    <3>1. CASE at = 0 /\ stable_run' >= stable_windows
      <4>1. recovered' = n /\ n <= Len(winners')  BY <3>1, <2>2, <1>4
      <4>2. after > 0 /\ 0..stable_windows \subseteq 0..after
        BY <3>1, <1>2, <2>4
      <4>3. AgreesBack(n, stable_windows)'  BY <2>5, <4>2 DEF AgreesBack
      <4>4. AgreesBack(recovered, stable_windows)'  BY <4>1, <4>3 DEF AgreesBack
      <4> QED  BY <4>1, <4>4
    <3>2. CASE ~(at = 0 /\ stable_run' >= stable_windows)
      <4>1. recovered' = at  BY <3>2, <2>2
      <4> QED  BY <4>1, <1>10 DEF AgreesBack
    <3> QED  BY <3>1, <3>2
  <2>8. m + 1 \in Nat  BY <1>1
  <2> QED  BY <1>4, <2>4, <2>6, <2>7, <2>8 DEF Probed
<1> QED  BY <1>12, <1>13

LEMMA ProbeStarts == Init => Probed
<1> SUFFICES ASSUME Init PROVE Probed  OBVIOUS
<1>1. /\ winners = <<>> /\ previous = NoCount /\ stable_run = 0 /\ recovered = 0
  BY DEF Init, RunInit
<1>2. IsSequence(winners) /\ Len(winners) = 0  BY <1>1, EmptyIsSequence
<1>3. window_size \in Nat \ {0}  BY ArenaAssumption
<1>4. 0 * window_size = 0  BY <1>3
<1>5. Closed(0)  BY <1>1, <1>2, <1>3, <1>4 DEF Closed
<1> QED  BY <1>1, <1>2, <1>5 DEF Probed

\* Only a case after the removal is observed; no other step touches the probe.
LEMMA ProbeStep == Probed /\ [Next]_scopedVars => Probed'
<1> SUFFICES ASSUME Probed, [Next]_scopedVars PROVE Probed'  OBVIOUS
<1> DEFINE Still == UNCHANGED <<winners, previous, stable_run, recovered>>
<1>1. ASSUME Still PROVE Probed'
  BY <1>1 DEF Probed, Closed, AgreesBack, Window
<1>2. CASE UNCHANGED vars  BY <1>1, <1>2 DEF vars, probeVars
<1>3. CASE StartRun  BY <1>1, <1>3 DEF StartRun, probeVars
<1>4. CASE RunCase
  <2>1. Still \/ \E winner : Observe(winner)
    BY <1>4 DEF RunCase, RemoveSkill, probeVars
  <2> QED  BY <2>1, <1>1, ObserveKeepsProbed
<1>5. CASE Promote  BY <1>1, <1>5 DEF Promote, probeVars
<1>6. CASE Confirm  BY <1>1, <1>6 DEF Confirm, probeVars
<1>7. CASE Resume  BY <1>1, <1>7 DEF Resume, probeVars
<1>8. CASE Finish  BY <1>1, <1>8 DEF Finish, probeVars
<1> QED
  BY <1>2, <1>3, <1>4, <1>5, <1>6, <1>7, <1>8
  DEF Next, Auditing, Running, RunNext, Ended, scopedVars

\* However the winners fall, a recovery is reported only after that many
\* comparisons in a row agreed, each of two windows that have winners.
THEOREM RecoveriesAreStable == Spec => []RecoveryIsStable
<1>1. Probed => RecoveryIsStable
  BY DEF Probed, AgreesBack, RecoveryIsStable
<1> QED  BY <1>1, ProbeStarts, ProbeStep, PTL DEF Spec
=============================================================================
