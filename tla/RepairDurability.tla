-------------------------- MODULE RepairDurability --------------------------
(***************************************************************************)
(* experiments/run_experiment_25_repair_durability.py over the durable     *)
(* rule store of cmd_audit/repair/durable_store.py.  Each family of cases  *)
(* is searched anew by the read-time arm, while the write-back arm turns   *)
(* its first governed repair into a durable rule and then only             *)
(* materializes that rule.  The store is restored after each family, the   *)
(* governance ledger is not.  What the rollouts score is chosen: which     *)
(* choice, if any, is the first to recover, and the gains of a replay.     *)
(***************************************************************************)
EXTENDS OperatorGovernance, Functions

CONSTANTS
  Families,       \* sequences of variants: the fingerprint of each one's recall
  ChoicesOf,      \* per fingerprint, the sequence of choices the search tries
  ReplayGains,    \* sequences of gains a cluster replay may return
  replay_k,
  AssertionsOn,   \* FALSE under python -O
  NoChoice, Excluded

ASSUME DurabilityAssumption ==
  /\ replay_k \in Nat \ {0}
  /\ \A g \in ReplayGains : g \in Seq(Int) /\ Len(g) <= replay_k
  /\ AssertionsOn \in BOOLEAN

VARIABLES
  phase,              \* "family", "search", "write", "restore", "done" or "asserted"
  family_index, order,
  rules, snapshot,    \* the durable store and its copy of the family's start
  ledger,
  first_repair_done,
  read,               \* the choice that the search of the variant found
  active              \* per variant of the family, whether the row says write-back
                      \* was active; Excluded for a variant without a row

vars == <<phase, family_index, order, rules, snapshot, ledger, first_repair_done,
          read, active>>

Variants == Families[family_index]
Fingerprint == Variants[order]

-----------------------------------------------------------------------------
(* The store.                                                              *)

\* A rule is deduplicated by its fingerprint and its operator.
CanWrite(fp, op) ==
  \A i \in DOMAIN rules : ~(rules[i].fingerprint = fp /\ rules[i].operator = op)

Rule(fp, op) == [fingerprint |-> fp, operator |-> op, family |-> family_index]

-----------------------------------------------------------------------------
StartFamily ==
  /\ phase = "family" /\ family_index < Len(Families)
  /\ family_index' = family_index + 1 /\ order' = 1
  /\ snapshot' = rules /\ first_repair_done' = FALSE
  /\ active' = <<>> /\ phase' = "search"
  /\ UNCHANGED <<rules, ledger, read>>

NextVariant ==
  IF order < Len(Variants)
  THEN order' = order + 1 /\ phase' = "search"
  ELSE UNCHANGED order /\ phase' = "restore"

\* A baseline that times out excludes the variant from every arm.
Exclude ==
  /\ phase = "search"
  /\ active' = Append(active, Excluded)
  /\ NextVariant
  /\ UNCHANGED <<family_index, rules, snapshot, ledger, first_repair_done, read>>

\* The search stops at the first choice that recovers.
Found(choices) == {NoChoice} \cup Range(choices)

\* The read-time arm, then the assertion that it left the store alone.
Search ==
  /\ phase = "search"
  /\ read' \in Found(ChoicesOf[Fingerprint])
  /\ phase' = IF AssertionsOn /\ rules # snapshot THEN "asserted" ELSE "write"
  /\ UNCHANGED <<family_index, order, rules, snapshot, ledger, first_repair_done, active>>

\* Mistake: the rule is written for every operator that passes the gate, known
\* or not.
PassesGate(fp, op, gains, passes) == passes

Admitted(fp, op, gains, passes) ==
  IsAdmitted(ledger, fp, op, gains, family_index, passes)

\* The arm still looks for its first rule.
Seeks == phase = "write" /\ ~first_repair_done

\* After the family's first rule the write-back arm only materializes.
Reuse ==
  /\ phase = "write" /\ first_repair_done
  /\ UNCHANGED <<family_index, rules, snapshot, ledger, first_repair_done, read>>
  /\ active' = Append(active, first_repair_done)
  /\ NextVariant

\* Before it, the arm takes the search's repair and seeks to make it durable.
WriteBack ==
  /\ Seeks
  /\ IF read = NoChoice
     THEN UNCHANGED <<ledger, rules, first_repair_done>>
     ELSE \E gains \in ReplayGains : \E passes \in PassesReplay(gains) :
            LET admitted == Admitted(Fingerprint, read, gains, passes)
                written == admitted /\ CanWrite(Fingerprint, read)
            IN  /\ ledger' = Admit(ledger, Fingerprint, read, gains,
                                   family_index, passes)
                /\ rules' = IF written
                            THEN Append(rules, Rule(Fingerprint, read)) ELSE rules
                /\ first_repair_done' = written
  /\ active' = Append(active, first_repair_done')
  /\ NextVariant
  /\ UNCHANGED <<family_index, snapshot, read>>

\* restore() of the snapshot.
Restored == snapshot

\* restore(): the store, not the ledger.
Restore ==
  /\ phase = "restore"
  /\ rules' = Restored /\ read' = NoChoice
  /\ phase' = IF family_index = Len(Families) THEN "done" ELSE "family"
  /\ UNCHANGED <<family_index, order, snapshot, ledger, first_repair_done, active>>

Ended == phase \in {"done", "asserted"} /\ UNCHANGED vars

Init ==
  /\ phase = "family" /\ family_index = 0 /\ order = 1
  /\ rules = <<>> /\ snapshot = <<>> /\ ledger = <<>>
  /\ first_repair_done = FALSE /\ read = NoChoice /\ active = <<>>

Next ==
  \/ StartFamily \/ Exclude \/ Search \/ Reuse \/ WriteBack \/ Restore \/ Ended

Spec == Init /\ [][Next]_vars /\ WF_vars(Next)
-----------------------------------------------------------------------------
\* No family starts from another's rules, however its variants went: what the
\* write-back arm persisted is gone at every boundary between families.
FamiliesStartClean == phase \in {"family", "done"} => rules = <<>>

\* The store never holds two rules, so materialize's flag renderer_repaired,
\* which is not reset between rules, never credits a rule that changed nothing.
AtMostOneRule == Len(rules) <= 1

\* A rule in the store was admitted in its own family and is still active in the
\* ledger: a shape that an earlier family had admitted, even one retired since,
\* is a duplicate and never becomes durable again.
RuleIsGoverned ==
  \A n \in DOMAIN rules :
    \E i \in Entries(ledger, rules[n].fingerprint, rules[n].operator) :
      ~ledger[i].retired /\ ledger[i].admitted_generation = rules[n].family

\* What is durable is governed: at any time the store holds at most one rule, of
\* the family in course, which that family was admitted for.
StoreIsGoverned == FamiliesStartClean /\ AtMostOneRule /\ RuleIsGoverned

\* However many families share a fingerprint, no more than active_cap operators
\* are active for it.
ActiveWithinCap ==
  \A i \in DOMAIN ledger :
    Cardinality(Active(ledger, ledger[i].fingerprint)) <= active_cap

\* run_experiment_25_repair_durability.py:351 asserts that the read-time arm
\* never finds the store changed.
ReadArmFindsStoreUntouched == phase # "asserted"
=============================================================================
