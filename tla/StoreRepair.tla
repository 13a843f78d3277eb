----------------------------- MODULE StoreRepair -----------------------------
(***************************************************************************)
(* execute_store_repair over a directory of Markdown facts: plan by bucket *)
(* and freshness, snapshot, demote file by file, validate, and roll back   *)
(* from the snapshot when the gate refuses.  Every file operation is an    *)
(* action, so that a crash or an exception may stop the run between any    *)
(* two.  The agent that owns the directory may write facts meanwhile.      *)
(*                                                                         *)
(* A fact is its memory id, in the sorted order of the file names; the     *)
(* content of its file is the day of its timestamp, 0 where there is no    *)
(* file.  A checksum is the directory it digests.                          *)
(***************************************************************************)
EXTENDS Rankings, FiniteSetsExt, SequencesExt

CONSTANTS
  Facts,               \* memory ids, positive integers
  Days,                \* timestamps, in days
  Terms,               \* the fingerprint words of each fact's text
  max_bucket_size,
  similarity_threshold, \* in percent
  tolerance_days,
  Agents,              \* how the agent behaves: the phases in which it writes and
                       \* a bound on the runs that mutate the directory
  MayCrash             \* whether a run may be killed

ASSUME StoreAssumption ==
  /\ Facts \subseteq Nat \ {0} /\ IsFiniteSet(Facts)
  /\ Days \subseteq Nat \ {0}
  /\ max_bucket_size \in Nat \ {0}
  /\ similarity_threshold \in 0..100 /\ tolerance_days \in Nat
  /\ \A a \in Agents : a.runs \in Nat
  /\ MayCrash \in BOOLEAN

VARIABLES
  memory,    \* the facts under root
  demoted,   \* .cmd/demoted: every copy moved there, as <<fact, day>>
  snapshots, \* .cmd/snapshots, in the order they were taken
  phase,     \* where the run is: see RepairPhases
  todo,      \* what the current loop has still to visit, as <<bucket, fact>>
  plan,      \* the actionable buckets of StoreRepairPlan
  before,    \* before_checksum
  accepted,  \* what the gate said
  agent      \* one of Agents

vars == <<memory, demoted, snapshots, phase, todo, plan, before, accepted, agent>>

locals == <<todo, plan, before, accepted>>

RepairPhases ==
  {"idle", "checksum", "list", "snapshot", "demote", "validate", "unlink",
   "copy_back", "verify"}

Directory == [Facts -> Days \cup {0}]

EmptyDirectory == [f \in Facts |-> 0]

Present(d) == {f \in Facts : d[f] # 0}

-----------------------------------------------------------------------------
(* Planning: greedy buckets of similar facts and their freshness decision. *)

\* Jaccard similarity of a fact's words and a group's, in percent.
GroupSimilarity(f, group) ==
  LET words == UNION {Terms[g] : g \in group}
  IN  IF Terms[f] = {} \/ words = {} THEN 0
      ELSE (100 * Cardinality(Terms[f] \cap words)) \div Cardinality(Terms[f] \cup words)

\* Mistake: a fact joins every similar group.
PlaceInAll(groups, f) ==
  LET open == {i \in DOMAIN groups : /\ Cardinality(groups[i]) < max_bucket_size
                                     /\ GroupSimilarity(f, groups[i]) >= similarity_threshold}
  IN  IF open = {} THEN Append(groups, {f})
      ELSE [i \in DOMAIN groups |-> IF i \in open THEN groups[i] \cup {f} ELSE groups[i]]

\* A fact joins the first of the most similar groups that are not full.
Place(groups, f) ==
  LET open == {i \in DOMAIN groups : /\ Cardinality(groups[i]) < max_bucket_size
                                     /\ GroupSimilarity(f, groups[i]) >= similarity_threshold}
      best == {i \in open : \A j \in open :
                 GroupSimilarity(f, groups[j]) <= GroupSimilarity(f, groups[i])}
  IN  IF open = {} THEN Append(groups, {f})
      ELSE [groups EXCEPT ![Min(best)] = @ \cup {f}]

\* The facts are placed one by one, in the order of their names.
bucket_memory_items(d) ==
  LET items == Ascending(Present(d))
      groups[n \in 0..Len(items)] ==
        IF n = 0 THEN <<>> ELSE Place(groups[n - 1], items[n])
  IN  groups[Len(items)]

\* The newest fact of a bucket, the first one among equals.
Newest(d, bucket) ==
  Min({f \in bucket : \A g \in bucket : d[g] <= d[f]})

\* Mistake: every other fact of the bucket is stale.
AllButNewest(d, bucket) == bucket \ {Newest(d, bucket)}

\* The facts that the newest one of the bucket outdates.
Stale(d, bucket) ==
  {f \in bucket : d[Newest(d, bucket)] - d[f] > tolerance_days}

\* The actionable buckets: what each keeps and what it demotes, in file order.
StoreRepairPlan(d) ==
  LET groups == bucket_memory_items(d)
      actionable == AtPlaces(groups, {i \in DOMAIN groups : Stale(d, groups[i]) # {}})
  IN  [i \in DOMAIN actionable |->
        [kept |-> actionable[i] \ Stale(d, actionable[i]),
         demoted |-> Stale(d, actionable[i])]]

\* demoted_ids goes through the buckets in order, and by name within each.
Demotions(p) == {t \in (DOMAIN p) \X Facts : t[2] \in p[t[1]].demoted}

DemotedIds(p) == {t[2] : t \in Demotions(p)}

-----------------------------------------------------------------------------
(* The run.                                                                *)

\* Return, an exception and a crash alike leave nothing but the directory.
End ==
  /\ phase' = "idle"
  /\ todo' = {} /\ plan' = <<>> /\ before' = EmptyDirectory /\ accepted' = FALSE

\* plan_store_repair loads the facts, and digests the directory afterwards.
PlanRepair ==
  /\ phase = "idle"
  /\ Len(snapshots) < agent.runs
  /\ plan' = StoreRepairPlan(memory)
  /\ phase' = "checksum"
  /\ UNCHANGED <<memory, demoted, snapshots, todo, before, accepted>>

\* A dry run, or a plan without an actionable bucket, only writes its report.
Checksum(mode) ==
  /\ phase = "checksum"
  /\ IF mode = "dry-run" \/ plan = <<>>
     THEN End
     ELSE before' = memory /\ phase' = "list" /\ UNCHANGED <<todo, plan, accepted>>
  /\ UNCHANGED <<memory, demoted, snapshots>>

\* The files of a copy of the directory, as one bucket.
Listing(d) == {1} \X Present(d)

\* Mistake: only what the plan demotes is copied.
PlannedFiles(d) == {1} \X DemotedIds(plan)

Files(d) == Listing(d)

\* _snapshot_memory_dir lists the files, then copies them one by one.
ListForSnapshot ==
  /\ phase = "list"
  /\ todo' = Files(memory)
  /\ snapshots' = Append(snapshots, EmptyDirectory)
  /\ phase' = "snapshot"
  /\ UNCHANGED <<memory, demoted, plan, before, accepted>>

\* The item of a loop whose turn it is: by bucket, then by name.
AtTurn(t) ==
  /\ t \in todo
  /\ \A u \in todo : t[1] < u[1] \/ (t[1] = u[1] /\ t[2] <= u[2])

\* Mistake: the loop does not advance.
Stay(t) == todo

Rest(t) == todo \ {t}

Gone(f) == memory[f] = 0

\* A loop visits the file at its turn, or raises when that has disappeared.
Visit(t) ==
  /\ AtTurn(t)
  /\ IF Gone(t[2]) THEN End
     ELSE todo' = Rest(t) /\ UNCHANGED <<phase, plan, before, accepted>>

\* A loop that is through goes on with the next phase and its list.
Through(next, list) ==
  /\ todo = {} /\ todo' = list /\ phase' = next
  /\ UNCHANGED <<plan, before, accepted>>

\* A fact is added to a copy of the directory.
CopyFile(t) ==
  /\ Visit(t)
  /\ snapshots' = IF Gone(t[2]) THEN snapshots
                  ELSE [snapshots EXCEPT ![Len(snapshots)][t[2]] = memory[t[2]]]

CopyToSnapshot ==
  /\ phase = "snapshot"
  /\ \/ Through("demote", Demotions(plan)) /\ UNCHANGED snapshots
     \/ \E t \in todo : CopyFile(t)
  /\ UNCHANGED <<memory, demoted>>

\* A move never replaces an earlier copy of the same name.
DemotedCopy(f, day) == demoted \cup {<<f, day>>}

RemoveFile(f) == [memory EXCEPT ![f] = 0]

\* _demote_files: a file that has disappeared raises, with no rollback.
MoveFile(t) ==
  /\ Visit(t)
  /\ demoted' = IF Gone(t[2]) THEN demoted ELSE DemotedCopy(t[2], memory[t[2]])
  /\ memory' = RemoveFile(t[2])

DemoteFile ==
  /\ phase = "demote"
  /\ \/ Through("validate", {}) /\ UNCHANGED <<memory, demoted>>
     \/ \E t \in todo : MoveFile(t)
  /\ UNCHANGED snapshots

\* _retention_surrogate: every kept fact remains and no demoted one does.
RetentionSurrogate ==
  \A i \in DOMAIN plan : /\ plan[i].kept \subseteq Present(memory)
                         /\ plan[i].demoted \cap Present(memory) = {}

\* The gate is the surrogate, or the caller's probe, which answers as it likes
\* and may raise.
Validate(probe, verdict) ==
  /\ phase = "validate"
  /\ probe = "none" => verdict = RetentionSurrogate
  /\ IF probe = "raises"
     THEN End
     ELSE /\ accepted' = verdict
          /\ phase' = IF verdict THEN "verify" ELSE "unlink"
          /\ todo' = IF verdict THEN {} ELSE Listing(memory)
          /\ UNCHANGED <<plan, before>>
  /\ UNCHANGED <<memory, demoted, snapshots>>

\* _restore_snapshot removes every fact file that it listed, and then copies
\* the snapshot back.
Unlink ==
  /\ phase = "unlink"
  /\ \/ Through("copy_back", Listing(Last(snapshots))) /\ UNCHANGED memory
     \/ \E t \in todo : Visit(t) /\ memory' = RemoveFile(t[2])
  /\ UNCHANGED <<demoted, snapshots>>

PutBack(t) ==
  /\ AtTurn(t)
  /\ todo' = Rest(t)
  /\ memory' = [memory EXCEPT ![t[2]] = Last(snapshots)[t[2]]]
  /\ UNCHANGED <<phase, plan, before, accepted>>

CopyBack ==
  /\ phase = "copy_back"
  /\ \/ Through("verify", {}) /\ UNCHANGED memory
     \/ \E t \in todo : PutBack(t)
  /\ UNCHANGED <<demoted, snapshots>>

\* The report is written, or the rollback has missed the checksum and raises.
Verify ==
  /\ phase = "verify"
  /\ End
  /\ UNCHANGED <<memory, demoted, snapshots>>

-----------------------------------------------------------------------------
(* The environment.                                                        *)

\* The agent writes a fresher fact.
Write(f, day) ==
  /\ phase \in agent.phases
  /\ day > memory[f]
  /\ memory' = [memory EXCEPT ![f] = day]
  /\ UNCHANGED <<demoted, snapshots, phase, locals>>

\* The agent, or its user, drops a fact.
Drop(f) ==
  /\ phase \in agent.phases
  /\ memory[f] # 0
  /\ memory' = [memory EXCEPT ![f] = 0]
  /\ UNCHANGED <<demoted, snapshots, phase, locals>>

\* The process dies.
Crash ==
  /\ MayCrash
  /\ phase # "idle"
  /\ End
  /\ UNCHANGED <<memory, demoted, snapshots>>

Init ==
  /\ memory \in Directory
  /\ demoted = {} /\ snapshots = <<>> /\ phase = "idle"
  /\ todo = {} /\ plan = <<>> /\ before = EmptyDirectory /\ accepted = FALSE
  /\ agent \in Agents

Run ==
  \/ \E mode \in {"dry-run", "apply"} : Checksum(mode)
  \/ ListForSnapshot \/ CopyToSnapshot \/ DemoteFile
  \/ \E probe \in {"none", "answers", "raises"}, verdict \in BOOLEAN :
       Validate(probe, verdict)
  \/ Unlink \/ CopyBack \/ Verify

Step ==
  \/ PlanRepair \/ Run \/ Crash
  \/ \E f \in Facts : Drop(f) \/ \E day \in Days : Write(f, day)

Next == Step /\ UNCHANGED agent

\* A run that was started goes on; nobody has to start one.
Spec == Init /\ [][Next]_vars /\ WF_vars(Run /\ UNCHANGED agent)

-----------------------------------------------------------------------------
(* Properties.                                                             *)

\* The agent leaves the directory to the run while there is one.
Alone == agent.phases \subseteq {"idle"}

\* A fact is kept when .cmd holds a copy of it.
Kept(f, day) ==
  <<f, day>> \in demoted \/ \E i \in DOMAIN snapshots : snapshots[i][f] = day

\* No run destroys a fact: whatever leaves the directory, or is replaced there,
\* by another hand than the agent's has a copy under .cmd, which nothing removes.
NothingLost ==
  [][\A f \in Facts, day \in Days :
       /\ memory[f] = day /\ memory'[f] # day =>
            Kept(f, day)' \/ Drop(f) \/ \E d \in Days : Write(f, d)
       /\ Kept(f, day) => Kept(f, day)']_vars

\* A fact is only moved away while a fact fresher by more than the tolerance is
\* there to stand for it.
DemotesOnlyStale ==
  [][\A f \in Facts :
       Alone /\ phase = "demote" /\ memory[f] # 0 /\ memory'[f] = 0 =>
         \E g \in Facts : memory'[g] > memory[f] + tolerance_days]_vars

\* No loop meets a file that is gone: the FileNotFoundError of a demotion, which
\* leaves the directory half repaired, takes another hand than the run's own.
NothingDisappears ==
  Alone /\ phase \in {"snapshot", "demote", "unlink"} =>
    \A t \in todo : ~Gone(t[2])

\* While the directory differs from what the run found, its snapshot is whole.
SnapshotIsWhole ==
  Alone /\ phase \in {"demote", "validate", "unlink", "copy_back", "verify"} =>
    Last(snapshots) = before

\* A run that comes to its report has left the directory as it was, or without
\* exactly the planned facts: "rollback checksum mismatch" is not reachable
\* without interference.
ReportedRunIsAllOrNothing ==
  Alone /\ phase = "verify" =>
    memory = IF accepted
             THEN [f \in Facts |->
                    IF f \in DemotedIds(plan) THEN 0 ELSE before[f]]
             ELSE before

\* A run that was started ends.
RunEnds == phase # "idle" ~> phase = "idle"
=============================================================================
