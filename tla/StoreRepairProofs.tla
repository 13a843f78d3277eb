-------------------------- MODULE StoreRepairProofs --------------------------
(***************************************************************************)
(* Proofs about StoreRepair for any facts, any plan and any number of runs *)
(* and crashes.  From the moment the snapshot is listed until the run      *)
(* ends, Copies says, phase by phase, which part of the directory differs  *)
(* from its snapshot; so far nothing is used of what the planner computes. *)
(* Another part proves that no two buckets of a plan share a fact and      *)
(* that each keeps a fresher fact than those it demotes (PlannerFits), and *)
(* what follows for a run that nobody interferes with.  The last section   *)
(* is about the item gate, where freshness decides between the facts that  *)
(* one query recalled.                                                     *)
(***************************************************************************)
EXTENDS StoreRepair, ItemGate, RankingTheorems

Restorable == {"demote", "validate", "unlink", "copy_back", "verify"}

\* The types of the state; a run past its listing has a snapshot.
Typed ==
  /\ memory \in Directory /\ before \in Directory
  /\ snapshots \in Seq(Directory)
  /\ phase \in {"snapshot"} \cup Restorable => snapshots # <<>>
  /\ phase \in RepairPhases
  /\ accepted \in BOOLEAN
  /\ agent \in Agents
  /\ \A t \in todo : t[2] \in Facts

\* The agent leaves the directory alone once the snapshot is listed.
Quiet == agent.phases \subseteq {"idle", "checksum", "list"}

Latest == Last(snapshots)

Waiting(f) == <<1, f>> \in todo

\* What has left the directory so far, or must not stand there at the end.
Moved(f) == \E t \in Demotions(plan) \ todo : t[2] = f

Repaired == [f \in Facts |-> IF f \in DemotedIds(plan) THEN 0 ELSE Latest[f]]

\* How the directory and the latest snapshot relate in each phase.
Copies ==
  /\ phase \in {"snapshot", "unlink", "copy_back"} => todo \subseteq {1} \X Facts
  /\ phase = "demote" => todo \subseteq Demotions(plan)
  /\ phase \in {"unlink", "copy_back"} => ~accepted
  /\ phase = "snapshot" => \A f \in Facts :
       IF Waiting(f) THEN Latest[f] = 0 ELSE memory[f] = Latest[f]
  /\ phase = "demote" =>
       memory = [f \in Facts |-> IF Moved(f) THEN 0 ELSE Latest[f]]
  /\ phase = "validate" => memory = Repaired
  /\ phase = "unlink" => \A f \in Facts :
       memory[f] # 0 => memory[f] = Latest[f] /\ Waiting(f)
  /\ phase = "copy_back" => \A f \in Facts :
       memory[f] = IF Waiting(f) THEN 0 ELSE Latest[f]
  /\ phase = "verify" => memory = IF accepted THEN Repaired ELSE Latest

\* Without interference the snapshot is of what the run found.
Whole ==
  /\ phase \in {"list", "snapshot"} => memory = before
  /\ phase \in Restorable => Latest = before

CopyInvariant == Typed /\ (Quiet => Copies) /\ (Alone => Whole)

-----------------------------------------------------------------------------
(* Lemmas.                                                                 *)

LEMMA EmptyIsDirectory == EmptyDirectory \in Directory
BY DEF EmptyDirectory, Directory

LEMMA AloneIsQuiet == Alone => Quiet
BY DEF Alone, Quiet

\* A fresh snapshot leaves the earlier ones alone.
LEMMA Opened ==
  ASSUME NEW s \in Seq(Directory), NEW d \in Directory
  PROVE  /\ Append(s, d) \in Seq(Directory)
         /\ Append(s, d) # <<>>
         /\ Last(Append(s, d)) = d
         /\ \A i \in DOMAIN s : i \in DOMAIN Append(s, d) /\ Append(s, d)[i] = s[i]
BY DEF Last

\* Replacing the latest snapshot leaves the earlier ones alone.
LEMMA Filled ==
  ASSUME NEW s \in Seq(Directory), s # <<>>, NEW d \in Directory
  PROVE  LET t == [s EXCEPT ![Len(s)] = d]
         IN  /\ t \in Seq(Directory) /\ t # <<>>
             /\ Last(t) = d
             /\ DOMAIN t = DOMAIN s
             /\ \A i \in DOMAIN s : i # Len(s) => t[i] = s[i]
<1> DEFINE t == [s EXCEPT ![Len(s)] = d]
<1>1. Len(s) \in 1..Len(s) /\ DOMAIN s = 1..Len(s)
  OBVIOUS
<1>2. t \in Seq(Directory) /\ Len(t) = Len(s)
  BY <1>1, ExceptSeq
<1>3. /\ DOMAIN t = DOMAIN s /\ t[Len(s)] = d
      /\ \A i \in DOMAIN s : i # Len(s) => t[i] = s[i]
  BY <1>1
<1> HIDE DEF t
<1>4. t # <<>>  BY <1>1, <1>2
<1> QED  BY <1>2, <1>3, <1>4 DEF t, Last

LEMMA LatestTyped == ASSUME Typed, snapshots # <<>> PROVE Latest \in Directory
BY DEF Typed, Latest, Last

LEMMA ListingTyped ==
  ASSUME NEW d PROVE \A t \in Listing(d) : t[2] \in Facts
BY DEF Listing, Present

LEMMA DemotionsTyped == ASSUME NEW p PROVE \A t \in Demotions(p) : t[2] \in Facts
BY DEF Demotions

\* What a visit of the copying loop leaves in the snapshots.
LEMMA CopyFileSnapshots ==
  ASSUME snapshots \in Seq(Directory), snapshots # <<>>, NEW t,
         t[2] \in Facts, memory[t[2]] \in Days \cup {0}, CopyFile(t)
  PROVE  /\ snapshots' \in Seq(Directory) /\ snapshots' # <<>>
         /\ DOMAIN snapshots' = DOMAIN snapshots
         /\ \A i \in DOMAIN snapshots :
              i # Len(snapshots) => snapshots'[i] = snapshots[i]
         /\ ~Gone(t[2]) => Latest' = [Latest EXCEPT ![t[2]] = memory[t[2]]]
         /\ Gone(t[2]) => Latest' = Latest
<1>1. CASE Gone(t[2])  BY <1>1 DEF CopyFile, Latest
<1>2. CASE ~Gone(t[2])
  <2> DEFINE d == [Latest EXCEPT ![t[2]] = memory[t[2]]]
  <2>1. d \in Directory
    BY DEF Latest, Last, Directory
  <2>2. snapshots' = [snapshots EXCEPT ![Len(snapshots)] = d]
    BY <1>2 DEF CopyFile, Latest, Last
  <2> HIDE DEF d
  <2>3. /\ snapshots' \in Seq(Directory) /\ snapshots' # <<>>
        /\ Last(snapshots') = d
        /\ DOMAIN snapshots' = DOMAIN snapshots
        /\ \A i \in DOMAIN snapshots :
             i # Len(snapshots) => snapshots'[i] = snapshots[i]
    BY <2>1, <2>2, Filled
  <2> QED  BY <1>2, <2>3 DEF d, Latest
<1> QED  BY <1>1, <1>2

-----------------------------------------------------------------------------
(* Typed.                                                                  *)

LEMMA EndTyped == Typed /\ End => /\ before' \in Directory /\ phase' = "idle"
                                  /\ accepted' \in BOOLEAN /\ todo' = {}
BY EmptyIsDirectory DEF End

LEMMA VisitTyped ==
  ASSUME Typed, NEW t \in todo, Visit(t)
  PROVE  /\ before' \in Directory /\ accepted' \in BOOLEAN
         /\ phase' \in {phase, "idle"} /\ \A u \in todo' : u[2] \in Facts
         /\ t[2] \in Facts /\ memory[t[2]] \in Days \cup {0}
BY EndTyped DEF Visit, Rest, Typed, Directory

LEMMA RemoveTyped ==
  ASSUME Typed, NEW f \in Facts PROVE RemoveFile(f) \in Directory
BY DEF Typed, RemoveFile, Directory

LEMMA TypedKept == Typed /\ [Next]_vars => Typed'
<1> SUFFICES ASSUME Typed, [Next]_vars PROVE Typed'
  OBVIOUS
<1> USE DEF Restorable, RepairPhases
<1>1. CASE UNCHANGED vars  BY <1>1 DEF vars, Typed
<1>2. CASE Next
  <2> agent' \in Agents  BY <1>2 DEF Next, Typed
  <2>1. CASE PlanRepair  BY <2>1 DEF PlanRepair, Typed
  <2>2. CASE Crash  BY <2>2, EndTyped DEF Crash, Typed
  <2>3. ASSUME NEW f \in Facts, Drop(f) PROVE Typed'
    BY <2>3, RemoveTyped DEF Drop, locals, Typed, RemoveFile
  <2>4. ASSUME NEW f \in Facts, NEW day \in Days, Write(f, day) PROVE Typed'
    BY <2>4 DEF Write, locals, Typed, Directory
  <2>5. ASSUME NEW mode \in {"dry-run", "apply"}, Checksum(mode) PROVE Typed'
    BY <2>5, EndTyped DEF Checksum, Typed
  <2>6. CASE ListForSnapshot
    BY <2>6, Opened, EmptyIsDirectory, ListingTyped
       DEF ListForSnapshot, Files, Typed
  <2>7. CASE CopyToSnapshot
    <3>1. CASE Through("demote", Demotions(plan)) /\ UNCHANGED snapshots
      BY <2>7, <3>1, DemotionsTyped DEF CopyToSnapshot, Through, Typed
    <3>2. ASSUME NEW t \in todo, CopyFile(t) PROVE Typed'
      <4>1. Visit(t) /\ phase = "snapshot"  BY <2>7, <3>2 DEF CopyFile, CopyToSnapshot
      <4>2. /\ t[2] \in Facts /\ memory[t[2]] \in Days \cup {0}
            /\ snapshots \in Seq(Directory) /\ snapshots # <<>>
        BY <4>1, VisitTyped DEF Typed
      <4>3. snapshots' \in Seq(Directory) /\ snapshots' # <<>>
        BY <3>2, <4>2, CopyFileSnapshots
      <4> QED  BY <2>7, <4>1, <4>3, VisitTyped DEF CopyToSnapshot, Typed
    <3> QED  BY <2>7, <3>1, <3>2 DEF CopyToSnapshot
  <2>8. CASE DemoteFile
    <3>1. CASE Through("validate", {}) /\ UNCHANGED <<memory, demoted>>
      BY <2>8, <3>1 DEF DemoteFile, Through, Typed
    <3>2. ASSUME NEW t \in todo, MoveFile(t) PROVE Typed'
      BY <2>8, <3>2, VisitTyped, RemoveTyped DEF DemoteFile, MoveFile, Typed
    <3> QED  BY <2>8, <3>1, <3>2 DEF DemoteFile
  <2>9. ASSUME NEW probe, NEW verdict \in BOOLEAN, Validate(probe, verdict)
        PROVE  Typed'
    BY <2>9, EndTyped, ListingTyped DEF Validate, Typed
  <2>10. CASE Unlink
    <3>1. CASE Through("copy_back", Listing(Last(snapshots))) /\ UNCHANGED memory
      BY <2>10, <3>1, ListingTyped DEF Unlink, Through, Typed
    <3>2. ASSUME NEW t \in todo, Visit(t) /\ memory' = RemoveFile(t[2])
          PROVE  Typed'
      BY <2>10, <3>2, VisitTyped, RemoveTyped DEF Unlink, Typed
    <3> QED  BY <2>10, <3>1, <3>2 DEF Unlink
  <2>11. CASE CopyBack
    <3>1. CASE Through("verify", {}) /\ UNCHANGED memory
      BY <2>11, <3>1 DEF CopyBack, Through, Typed
    <3>2. ASSUME NEW t \in todo, PutBack(t) PROVE Typed'
      <4>1. Last(snapshots) \in Directory
        BY <2>11, LatestTyped DEF CopyBack, Typed, Latest
      <4>2. memory' \in Directory
        BY <3>2, <4>1 DEF PutBack, Typed, Directory
      <4> QED  BY <2>11, <3>2, <4>2 DEF CopyBack, PutBack, Rest, Typed
    <3> QED  BY <2>11, <3>1, <3>2 DEF CopyBack
  <2>12. CASE Verify  BY <2>12, EndTyped DEF Verify, Typed
  <2> QED
    BY <1>2, <2>1, <2>2, <2>3, <2>4, <2>5, <2>6, <2>7, <2>8, <2>9, <2>10,
       <2>11, <2>12 DEF Next, Step, Run
<1> QED  BY <1>1, <1>2

-----------------------------------------------------------------------------
(* Copies.                                                                 *)

\* Two contents of the directory are equal when every fact is.
LEMMA SameDirectory ==
  ASSUME NEW d \in Directory, NEW e \in Directory, \A f \in Facts : d[f] = e[f]
  PROVE  d = e
BY DEF Directory

\* Outside the phases that Copies speaks of there is nothing to show.
LEMMA OutsideCopies == phase' \in {"idle", "checksum", "list"} => Copies'
BY DEF Copies

LEMMA EndPhase == End => phase' = "idle"
BY DEF End

LEMMA ListCopies ==
  ASSUME Typed, ListForSnapshot PROVE Copies'
<1>1. Latest' = EmptyDirectory
  BY Opened, EmptyIsDirectory DEF Typed, ListForSnapshot, Latest
<1>2. todo' = {1} \X Present(memory) /\ memory' = memory /\ phase' = "snapshot"
  BY DEF ListForSnapshot, Files, Listing
<1>3. todo' \subseteq {1} \X Facts
  BY <1>2 DEF Present
<1>4. ASSUME NEW f \in Facts
      PROVE  IF Waiting(f)' THEN Latest'[f] = 0 ELSE memory'[f] = Latest'[f]
  <2>1. Latest'[f] = 0
    BY <1>1 DEF EmptyDirectory
  <2>2. memory[f] # 0 => Waiting(f)'
    BY <1>2 DEF Present, Waiting
  <2> QED  BY <1>2, <2>1, <2>2
<1> QED  BY <1>2, <1>3, <1>4 DEF Copies

LEMMA CopyFileCopies ==
  ASSUME Typed, Copies, phase = "snapshot", NEW t \in todo, CopyFile(t),
         UNCHANGED memory
  PROVE  Copies'
<1>1. CASE Gone(t[2])
  <2>1. phase' = "idle"
    BY <1>1, EndPhase DEF CopyFile, Visit
  <2> QED  BY <2>1, OutsideCopies
<1>2. CASE ~Gone(t[2])
  <2>1. /\ todo' = todo \ {t} /\ phase' = "snapshot"
        /\ todo \subseteq {1} \X Facts
    BY <1>2 DEF CopyFile, Visit, Rest, Copies
  <2>2. t = <<1, t[2]>> /\ t[2] \in Facts
    BY <2>1
  <2>3. snapshots # <<>> /\ snapshots \in Seq(Directory)
    BY DEF Typed, Restorable
  <2>4. memory[t[2]] \in Days \cup {0} /\ Latest \in Directory
    BY <2>2, <2>3, LatestTyped DEF Typed, Directory
  <2>5. Latest' = [Latest EXCEPT ![t[2]] = memory[t[2]]]
    BY <1>2, <2>2, <2>3, <2>4, CopyFileSnapshots
  <2>6. ASSUME NEW f \in Facts
        PROVE  IF Waiting(f)' THEN Latest'[f] = 0 ELSE memory'[f] = Latest'[f]
    <3>1. CASE f = t[2]
      BY <2>1, <2>2, <2>4, <2>5, <3>1 DEF Waiting, Directory
    <3>2. CASE f # t[2]
      <4>1. Latest'[f] = Latest[f]  BY <2>4, <2>5, <3>2 DEF Directory
      <4>2. Waiting(f)' <=> Waiting(f)  BY <2>1, <2>2, <3>2 DEF Waiting
      <4> QED  BY <4>1, <4>2 DEF Copies
    <3> QED  BY <3>1, <3>2
  <2> QED  BY <2>1, <2>6 DEF Copies
<1> QED  BY <1>1, <1>2

LEMMA SnapshotThroughCopies ==
  ASSUME Typed, Copies, phase = "snapshot", Through("demote", Demotions(plan)),
         UNCHANGED <<memory, snapshots>>
  PROVE  Copies'
<1>1. /\ todo = {} /\ phase' = "demote" /\ plan' = plan
      /\ todo' = Demotions(plan) /\ Latest' = Latest
  BY DEF Through, Latest
<1>2. \A f \in Facts : memory[f] = Latest[f]
  BY <1>1 DEF Copies, Waiting
<1>3. Demotions(plan)' = Demotions(plan)
  BY <1>1 DEF Demotions
<1>4. \A f \in Facts : ~Moved(f)'
  BY <1>1, <1>3 DEF Moved
<1>5. memory' = [f \in Facts |-> IF Moved(f)' THEN 0 ELSE Latest'[f]]
  BY <1>1, <1>2, <1>4 DEF Typed, Directory
<1> QED  BY <1>1, <1>3, <1>5 DEF Copies

LEMMA MoveFileCopies ==
  ASSUME Typed, Copies, phase = "demote", NEW t \in todo, MoveFile(t),
         UNCHANGED snapshots
  PROVE  Copies'
<1>1. CASE Gone(t[2])
  <2>1. phase' = "idle"
    BY <1>1, EndPhase DEF MoveFile, Visit
  <2> QED  BY <2>1, OutsideCopies
<1>2. CASE ~Gone(t[2])
  <2>1. /\ todo' = todo \ {t} /\ phase' = "demote" /\ plan' = plan
        /\ memory' = [memory EXCEPT ![t[2]] = 0]
        /\ todo \subseteq Demotions(plan) /\ Latest' = Latest
    BY <1>2 DEF MoveFile, Visit, Rest, RemoveFile, Copies, Latest
  <2>2. Demotions(plan)' = Demotions(plan)
    BY <2>1 DEF Demotions
  <2>3. \A f \in Facts : Moved(f)' <=> Moved(f) \/ f = t[2]
    BY <2>1, <2>2 DEF Moved
  <2>4. memory = [f \in Facts |-> IF Moved(f) THEN 0 ELSE Latest[f]]
    BY DEF Copies
  <2>5. memory' = [f \in Facts |-> IF Moved(f)' THEN 0 ELSE Latest'[f]]
    BY <2>1, <2>3, <2>4
  <2> QED  BY <2>1, <2>2, <2>5 DEF Copies
<1> QED  BY <1>1, <1>2

LEMMA DemoteThroughCopies ==
  ASSUME Typed, Copies, phase = "demote", Through("validate", {}),
         UNCHANGED <<memory, snapshots>>
  PROVE  Copies'
<1>1. todo = {} /\ phase' = "validate" /\ plan' = plan /\ Latest' = Latest
  BY DEF Through, Latest
<1>2. \A f \in Facts : Moved(f) <=> f \in DemotedIds(plan)
  BY <1>1 DEF Moved, DemotedIds
<1>3. memory = [f \in Facts |-> IF Moved(f) THEN 0 ELSE Latest[f]]
  BY DEF Copies
<1>4. memory = Repaired
  BY <1>2, <1>3 DEF Repaired
<1>5. Repaired' = Repaired
  BY <1>1 DEF Repaired, DemotedIds, Demotions
<1> QED  BY <1>1, <1>4, <1>5 DEF Copies

LEMMA ValidateCopies ==
  ASSUME Typed, Copies, NEW probe, NEW verdict \in BOOLEAN,
         Validate(probe, verdict)
  PROVE  Copies'
<1>1. CASE probe = "raises"
  BY <1>1, EndPhase, OutsideCopies DEF Validate
<1>2. CASE probe # "raises"
  <2>1. /\ memory' = memory /\ Latest' = Latest /\ plan' = plan
        /\ memory = Repaired /\ accepted' = verdict
    BY <1>2 DEF Validate, Copies, Latest
  <2>2. Repaired' = Repaired
    BY <2>1 DEF Repaired, DemotedIds, Demotions
  <2>3. CASE verdict
    <3>1. phase' = "verify" /\ accepted'
      BY <1>2, <2>3 DEF Validate
    <3> QED  BY <2>1, <2>2, <3>1 DEF Copies
  <2>4. CASE ~verdict
    <3>1. /\ phase' = "unlink" /\ ~accepted'
          /\ todo' = {1} \X Present(memory)
      BY <1>2, <2>4 DEF Validate, Listing
    <3>2. ASSUME NEW f \in Facts, memory[f] # 0
          PROVE  memory[f] = Latest[f] /\ Waiting(f)'
      BY <2>1, <3>1, <3>2 DEF Repaired, Waiting, Present
    <3> QED  BY <2>1, <3>1, <3>2 DEF Copies, Present
  <2> QED  BY <2>3, <2>4
<1> QED  BY <1>1, <1>2

LEMMA UnlinkCopies ==
  ASSUME Typed, Copies, Unlink PROVE Copies'
<1>1. /\ phase = "unlink" /\ Latest' = Latest
      /\ todo \subseteq {1} \X Facts /\ ~accepted
  BY DEF Unlink, Latest, Copies
<1>2. CASE Through("copy_back", Listing(Last(snapshots))) /\ UNCHANGED memory
  <2>1. /\ phase' = "copy_back" /\ ~accepted' /\ memory' = memory
        /\ todo' = {1} \X Present(Latest)
    BY <1>1, <1>2 DEF Through, Listing, Latest
  <2>2. \A f \in Facts : memory[f] = 0
    BY <1>1, <1>2 DEF Through, Copies, Waiting
  <2>3. \A f \in Facts : memory'[f] = IF Waiting(f)' THEN 0 ELSE Latest'[f]
    BY <1>1, <2>1, <2>2 DEF Waiting, Present
  <2> QED  BY <2>1, <2>3 DEF Copies, Present
<1>3. ASSUME NEW t \in todo, Visit(t), memory' = RemoveFile(t[2]) PROVE Copies'
  <2>1. CASE Gone(t[2])
    BY <1>3, <2>1, EndPhase, OutsideCopies DEF Visit
  <2>2. CASE ~Gone(t[2])
    <3>1. /\ todo' = todo \ {t} /\ phase' = "unlink" /\ ~accepted'
          /\ memory' = [memory EXCEPT ![t[2]] = 0]
      BY <1>1, <1>3, <2>2 DEF Visit, Rest, RemoveFile
    <3>2. t = <<1, t[2]>> /\ t[2] \in Facts
      BY <1>1
    <3>3. ASSUME NEW f \in Facts, memory'[f] # 0
          PROVE  memory'[f] = Latest'[f] /\ Waiting(f)'
      BY <1>1, <3>1, <3>2, <3>3 DEF Copies, Waiting, Typed, Directory
    <3> QED  BY <1>1, <3>1, <3>3 DEF Copies
  <2> QED  BY <2>1, <2>2
<1> QED  BY <1>2, <1>3 DEF Unlink

LEMMA CopyBackCopies ==
  ASSUME Typed, Copies, CopyBack PROVE Copies'
<1>1. /\ phase = "copy_back" /\ Latest' = Latest
      /\ todo \subseteq {1} \X Facts /\ ~accepted
      /\ memory \in Directory /\ Latest \in Directory
  BY LatestTyped DEF CopyBack, Latest, Copies, Typed, Restorable
<1>2. CASE Through("verify", {}) /\ UNCHANGED memory
  <2>1. phase' = "verify" /\ ~accepted' /\ memory' = memory
    BY <1>1, <1>2 DEF Through
  <2>2. \A f \in Facts : memory[f] = Latest[f]
    BY <1>1, <1>2 DEF Through, Copies, Waiting
  <2>3. memory = Latest
    BY <1>1, <2>2, SameDirectory
  <2> QED  BY <1>1, <2>1, <2>3 DEF Copies
<1>3. ASSUME NEW t \in todo, PutBack(t) PROVE Copies'
  <2>1. /\ todo' = todo \ {t} /\ phase' = "copy_back" /\ ~accepted'
        /\ memory' = [memory EXCEPT ![t[2]] = Latest[t[2]]]
    BY <1>1, <1>3 DEF PutBack, Rest, Latest
  <2>2. t = <<1, t[2]>> /\ t[2] \in Facts
    BY <1>1
  <2>3. ASSUME NEW f \in Facts
        PROVE  memory'[f] = IF Waiting(f)' THEN 0 ELSE Latest'[f]
    BY <1>1, <2>1, <2>2 DEF Copies, Waiting, Directory
  <2> QED  BY <1>1, <2>1, <2>3 DEF Copies
<1> QED  BY <1>2, <1>3 DEF CopyBack

\* A quiet agent acts only where Copies says nothing.
LEMMA CopiesKept == Typed /\ Quiet /\ Copies /\ [Next]_vars => Copies'
<1> SUFFICES ASSUME Typed, Quiet, Copies, [Next]_vars PROVE Copies'
  OBVIOUS
<1>1. CASE UNCHANGED vars
  BY <1>1 DEF vars, Copies, Latest, Waiting, Moved, Repaired, DemotedIds, Demotions
<1>2. CASE Next
  <2>1. CASE PlanRepair  BY <2>1, OutsideCopies DEF PlanRepair
  <2>2. CASE Crash  BY <2>2, EndPhase, OutsideCopies DEF Crash
  <2>3. ASSUME NEW f \in Facts, Drop(f) PROVE Copies'
    BY <2>3, OutsideCopies DEF Drop, Quiet
  <2>4. ASSUME NEW f \in Facts, NEW day \in Days, Write(f, day) PROVE Copies'
    BY <2>4, OutsideCopies DEF Write, Quiet
  <2>5. ASSUME NEW mode \in {"dry-run", "apply"}, Checksum(mode) PROVE Copies'
    BY <2>5, EndPhase, OutsideCopies DEF Checksum
  <2>6. CASE ListForSnapshot  BY <2>6, ListCopies
  <2>7. CASE CopyToSnapshot
    BY <2>7, CopyFileCopies, SnapshotThroughCopies DEF CopyToSnapshot
  <2>8. CASE DemoteFile
    BY <2>8, MoveFileCopies, DemoteThroughCopies DEF DemoteFile
  <2>9. ASSUME NEW probe, NEW verdict \in BOOLEAN, Validate(probe, verdict)
        PROVE  Copies'
    BY <2>9, ValidateCopies
  <2>10. CASE Unlink  BY <2>10, UnlinkCopies
  <2>11. CASE CopyBack  BY <2>11, CopyBackCopies
  <2>12. CASE Verify  BY <2>12, EndPhase, OutsideCopies DEF Verify
  <2> QED
    BY <1>2, <2>1, <2>2, <2>3, <2>4, <2>5, <2>6, <2>7, <2>8, <2>9, <2>10,
       <2>11, <2>12 DEF Next, Step, Run
<1> QED  BY <1>1, <1>2

-----------------------------------------------------------------------------
(* The invariant.                                                          *)

LEMMA OutsideWhole == phase' \in {"idle", "checksum"} => Whole'
BY DEF Whole, Restorable

\* The latest snapshot, once through, changes no more.
LEMMA RestorableWhole ==
  ASSUME Whole, phase \in Restorable, phase' \in Restorable \cup {"idle"},
         UNCHANGED snapshots, before' = before \/ phase' = "idle"
  PROVE  Whole'
BY DEF Whole, Restorable, Latest

LEMMA WholeKept == Typed /\ Alone /\ Copies /\ Whole /\ [Next]_vars => Whole'
<1> SUFFICES ASSUME Typed, Alone, Copies, Whole, [Next]_vars PROVE Whole'
  OBVIOUS
<1>1. CASE UNCHANGED vars  BY <1>1 DEF vars, Whole, Latest
<1>2. CASE Next
  <2>1. CASE PlanRepair  BY <2>1, OutsideWhole DEF PlanRepair
  <2>2. CASE Crash  BY <2>2, EndPhase, OutsideWhole DEF Crash
  <2>3. ASSUME NEW f \in Facts, Drop(f) PROVE Whole'
    BY <2>3, OutsideWhole DEF Drop, Alone
  <2>4. ASSUME NEW f \in Facts, NEW day \in Days, Write(f, day) PROVE Whole'
    BY <2>4, OutsideWhole DEF Write, Alone
  <2>5. ASSUME NEW mode \in {"dry-run", "apply"}, Checksum(mode) PROVE Whole'
    BY <2>5, EndPhase, OutsideWhole DEF Checksum, Whole, Restorable
  <2>6. CASE ListForSnapshot
    BY <2>6 DEF ListForSnapshot, Whole, Restorable
  <2>7. CASE CopyToSnapshot
    <3>1. memory' = memory /\ memory = before
      BY <2>7 DEF CopyToSnapshot, Whole
    <3>2. CASE Through("demote", Demotions(plan)) /\ UNCHANGED snapshots
      <4>1. Copies'
        BY <2>7, <3>1, <3>2, SnapshotThroughCopies DEF CopyToSnapshot
      <4>2. todo = {} /\ phase' = "demote" /\ before' = before /\ Latest' = Latest
        BY <3>2 DEF Through, Latest
      <4>3. \A f \in Facts : memory[f] = Latest[f]
        BY <2>7, <4>2 DEF Copies, Waiting, CopyToSnapshot
      <4>4. memory \in Directory /\ Latest \in Directory
        BY <2>7, LatestTyped DEF CopyToSnapshot, Typed
      <4> QED  BY <3>1, <4>2, <4>3, <4>4, SameDirectory DEF Whole
    <3>3. ASSUME NEW t \in todo, CopyFile(t) PROVE Whole'
      <4>1. \/ phase' = "idle"
            \/ phase' = "snapshot" /\ before' = before
        BY <2>7, <3>3, EndPhase DEF CopyFile, Visit, CopyToSnapshot
      <4> QED  BY <3>1, <4>1, OutsideWhole DEF Whole, Restorable
    <3> QED  BY <2>7, <3>2, <3>3 DEF CopyToSnapshot
  <2>8. CASE DemoteFile
    BY <2>8, EndPhase, RestorableWhole
       DEF DemoteFile, MoveFile, Visit, Through, Restorable
  <2>9. ASSUME NEW probe, NEW verdict \in BOOLEAN, Validate(probe, verdict)
        PROVE  Whole'
    BY <2>9, EndPhase, RestorableWhole DEF Validate, Restorable
  <2>10. CASE Unlink
    BY <2>10, EndPhase, RestorableWhole DEF Unlink, Visit, Through, Restorable
  <2>11. CASE CopyBack
    BY <2>11, RestorableWhole DEF CopyBack, PutBack, Through, Restorable
  <2>12. CASE Verify  BY <2>12, EndPhase, OutsideWhole DEF Verify
  <2> QED
    BY <1>2, <2>1, <2>2, <2>3, <2>4, <2>5, <2>6, <2>7, <2>8, <2>9, <2>10,
       <2>11, <2>12 DEF Next, Step, Run
<1> QED  BY <1>1, <1>2

\* The strengthened invariant of the run.
THEOREM RunIsRecoverable == Spec => []CopyInvariant
<1>1. Init => CopyInvariant
  <2>1. Init => Typed
    <3>1. Init => accepted \in BOOLEAN
      BY DEF Init
    <3>2. Init => snapshots \in Seq(Directory)
      BY DEF Init
    <3> QED  BY <3>1, <3>2, EmptyIsDirectory DEF Init, Typed, Restorable, RepairPhases
  <2>2. Init => Copies /\ Whole
    BY DEF Init, Copies, Whole, Restorable
  <2> QED  BY <2>1, <2>2 DEF CopyInvariant
<1>2. CopyInvariant /\ [Next]_vars => CopyInvariant'
  <2> SUFFICES ASSUME CopyInvariant, [Next]_vars PROVE CopyInvariant'
    OBVIOUS
  <2>1. agent' = agent
    BY DEF Next, vars
  <2>2. (Quiet' <=> Quiet) /\ (Alone' <=> Alone)
    BY <2>1 DEF Quiet, Alone
  <2> QED
    BY <2>2, TypedKept, CopiesKept, WholeKept, AloneIsQuiet DEF CopyInvariant
<1> QED  BY <1>1, <1>2, PTL DEF Spec

\* Whatever the plan, a directory that the run has begun to change is backed by
\* a snapshot of all that the run found.
THEOREM SnapshotStaysWhole == Spec => []SnapshotIsWhole
<1>1. CopyInvariant => SnapshotIsWhole
  BY DEF CopyInvariant, Whole, SnapshotIsWhole, Restorable, Latest
<1> QED  BY <1>1, RunIsRecoverable, PTL

\* A run that reports has applied all of its plan or nothing: "rollback checksum
\* mismatch" is not reachable without interference.
THEOREM ReportsAreAllOrNothing == Spec => []ReportedRunIsAllOrNothing
<1>1. CopyInvariant => ReportedRunIsAllOrNothing
  BY AloneIsQuiet
     DEF CopyInvariant, Copies, Whole, ReportedRunIsAllOrNothing, Repaired,
         Restorable
<1> QED  BY <1>1, RunIsRecoverable, PTL

-----------------------------------------------------------------------------
(* Nothing is lost, for agents that stop writing when the snapshot is       *)
(* listed.                                                                 *)

QuietAgents == \A a \in Agents : a.phases \subseteq {"idle", "checksum", "list"}

\* No step takes a copy away.
LEMMA CopiesStay ==
  ASSUME CopyInvariant, Quiet, [Next]_vars, NEW f \in Facts, NEW day \in Days,
         Kept(f, day)
  PROVE  Kept(f, day)'
<1>1. demoted \subseteq demoted'
  BY EndPhase
     DEF Next, Step, Run, vars, PlanRepair, Crash, Drop, Write, Checksum,
         ListForSnapshot, CopyToSnapshot, DemoteFile, MoveFile, DemotedCopy,
         Validate, Unlink, CopyBack, Verify
<1>2. ASSUME NEW i \in DOMAIN snapshots, snapshots[i][f] = day
      PROVE  i \in DOMAIN snapshots' /\ snapshots'[i][f] = day
  <2>1. CASE UNCHANGED snapshots  BY <1>2, <2>1
  <2>2. CASE ListForSnapshot
    BY <1>2, <2>2, Opened, EmptyIsDirectory
       DEF ListForSnapshot, CopyInvariant, Typed
  <2>3. ASSUME CopyToSnapshot, NEW t \in todo, CopyFile(t)
        PROVE  i \in DOMAIN snapshots' /\ snapshots'[i][f] = day
    <3>1. /\ Typed /\ Copies /\ phase = "snapshot"
          /\ todo \subseteq {1} \X Facts
      BY <2>3 DEF CopyInvariant, CopyToSnapshot, Copies
    <3>2. t = <<1, t[2]>> /\ t[2] \in Facts
      BY <3>1
    <3>3. snapshots # <<>> /\ snapshots \in Seq(Directory)
      BY <3>1 DEF Typed, Restorable
    <3>4. memory[t[2]] \in Days \cup {0} /\ Latest \in Directory
      BY <3>1, <3>2, <3>3, LatestTyped DEF Typed, Directory
    <3>5. /\ DOMAIN snapshots' = DOMAIN snapshots
          /\ snapshots' \in Seq(Directory)
          /\ i # Len(snapshots) => snapshots'[i] = snapshots[i]
          /\ \/ Latest' = [Latest EXCEPT ![t[2]] = memory[t[2]]]
             \/ Latest' = Latest
      BY <2>3, <3>2, <3>3, <3>4, CopyFileSnapshots
    <3>6. CASE i # Len(snapshots)  BY <1>2, <3>5, <3>6
    <3>7. CASE i = Len(snapshots)
      <4>1. Latest[f] = day /\ day # 0
        BY <1>2, <3>7, StoreAssumption DEF Latest, Last
      <4>2. f # t[2]
        BY <3>1, <3>2, <4>1 DEF Copies, Waiting
      <4>3. Latest'[f] = day
        BY <3>4, <3>5, <4>1, <4>2 DEF Directory
      <4>4. Len(snapshots') = Len(snapshots)
        BY <3>3, <3>5
      <4> QED  BY <3>5, <3>7, <4>3, <4>4 DEF Latest, Last
    <3> QED  BY <3>6, <3>7
  <2>4. \/ UNCHANGED snapshots \/ ListForSnapshot
        \/ CopyToSnapshot /\ \E t \in todo : CopyFile(t)
    BY DEF Next, Step, Run, vars, PlanRepair, Crash, Drop, Write, Checksum,
           CopyToSnapshot, DemoteFile, Validate, Unlink, CopyBack, Verify
  <2> QED  BY <2>1, <2>2, <2>3, <2>4
<1> QED  BY <1>1, <1>2 DEF Kept

\* What leaves the directory by the run's own hand has a copy.
LEMMA LeavesWithCopy ==
  ASSUME CopyInvariant, Quiet, [Next]_vars, NEW f \in Facts, NEW day \in Days,
         memory[f] = day, memory'[f] # day
  PROVE  Kept(f, day)' \/ Drop(f) \/ \E d \in Days : Write(f, d)
<1>1. day # 0
  BY StoreAssumption
<1>2. ASSUME NEW g \in Facts, Drop(g) PROVE Drop(f)
  BY <1>2 DEF Drop, CopyInvariant, Typed, Directory
<1>3. ASSUME NEW g \in Facts, NEW d \in Days, Write(g, d) PROVE Write(f, d)
  BY <1>3 DEF Write, CopyInvariant, Typed, Directory
<1>4. CASE DemoteFile
  <2>1. PICK t \in todo : MoveFile(t)
    BY <1>4 DEF DemoteFile
  <2>2. memory' = [memory EXCEPT ![t[2]] = 0] /\ t[2] \in Facts
    BY <2>1 DEF MoveFile, RemoveFile, CopyInvariant, Typed
  <2>3. f = t[2]
    BY <2>2 DEF CopyInvariant, Typed, Directory
  <2>4. demoted' = demoted \cup {<<f, day>>}
    BY <1>1, <2>1, <2>3 DEF MoveFile, Gone, DemotedCopy
  <2> QED  BY <2>4 DEF Kept
<1>5. CASE Unlink
  <2>1. Latest[f] = day /\ phase = "unlink" /\ Typed
    BY <1>1, <1>5 DEF Unlink, CopyInvariant, Copies
  <2>2. snapshots # <<>> /\ snapshots \in Seq(Directory)
    BY <2>1 DEF Typed, Restorable
  <2>3. Len(snapshots) \in DOMAIN snapshots
    BY <2>2
  <2>4. Kept(f, day)
    BY <2>1, <2>3 DEF Kept, Latest, Last
  <2> QED  BY <2>4, CopiesStay
<1>6. CASE CopyBack
  <2>1. PICK t \in todo : PutBack(t)
    BY <1>6 DEF CopyBack
  <2>2. /\ memory[f] = IF Waiting(f) THEN 0 ELSE Latest[f]
        /\ todo \subseteq {1} \X Facts
    BY <1>6 DEF CopyBack, CopyInvariant, Copies
  <2>3. memory' = [memory EXCEPT ![t[2]] = Last(snapshots)[t[2]]]
    BY <2>1 DEF PutBack
  <2>4. f = t[2]
    BY <2>3 DEF CopyInvariant, Typed, Directory
  <2>5. Waiting(f)
    BY <2>2, <2>4 DEF Waiting
  <2> QED  BY <1>1, <2>2, <2>5
<1>7. \/ UNCHANGED memory \/ DemoteFile \/ Unlink \/ CopyBack
      \/ \E g \in Facts : Drop(g) \/ \E d \in Days : Write(g, d)
  BY DEF Next, Step, Run, vars, PlanRepair, Crash, Checksum, ListForSnapshot,
         CopyToSnapshot, Validate, Verify
<1> QED  BY <1>2, <1>3, <1>4, <1>5, <1>6, <1>7

\* However often runs crash, raise or roll back, whatever they take from the
\* directory stays under .cmd.
THEOREM NoFactIsDestroyed == ASSUME QuietAgents PROVE Spec => NothingLost
<1>1. CopyInvariant => Quiet
  BY DEF CopyInvariant, Typed, Quiet, QuietAgents
<1>2. CopyInvariant /\ [Next]_vars =>
        [\A f \in Facts, day \in Days :
           /\ memory[f] = day /\ memory'[f] # day =>
                Kept(f, day)' \/ Drop(f) \/ \E d \in Days : Write(f, d)
           /\ Kept(f, day) => Kept(f, day)']_vars
  BY <1>1, CopiesStay, LeavesWithCopy
<1> QED  BY <1>2, RunIsRecoverable, PTL DEF Spec, NothingLost
-----------------------------------------------------------------------------
(* The planner.                                                            *)

\* Buckets of members of S: none is empty and no two share a member.
AreBuckets(b, S) ==
  /\ b \in Seq(SUBSET S)
  /\ \A i \in DOMAIN b : b[i] # {}
  /\ \A i, j \in DOMAIN b : i # j => b[i] \cap b[j] = {}

LEMMA PlaceKeepsBuckets ==
  ASSUME NEW S, NEW b, AreBuckets(b, S), NEW f, f \notin S
  PROVE  AreBuckets(Place(b, f), S \cup {f})
<1> DEFINE T == S \cup {f}
<1>1. Len(b) \in Nat /\ DOMAIN b = 1..Len(b) /\ b \in [1..Len(b) -> SUBSET S]
  BY LenProperties DEF AreBuckets
<1>2. \A i \in DOMAIN b : b[i] \subseteq S /\ f \notin b[i] /\ b[i] # {}
  BY <1>1 DEF AreBuckets
<1>3. PICK k : \/ Place(b, f) = Append(b, {f})
               \/ Place(b, f) = [b EXCEPT ![k] = @ \cup {f}]
  BY DEF Place
<1>4. CASE Place(b, f) = Append(b, {f})
  <2> DEFINE c == Append(b, {f})
  <2>1. b \in Seq(SUBSET T) /\ {f} \in SUBSET T
    <3>1. SUBSET S \subseteq SUBSET T  OBVIOUS
    <3> QED  BY <3>1, SeqMonotonic DEF AreBuckets
  <2> HIDE DEF T
  <2>2. /\ c \in Seq(SUBSET T) /\ Len(c) = Len(b) + 1
        /\ \A i \in 1..Len(b) : c[i] = b[i]
        /\ c[Len(b) + 1] = {f}
    BY <2>1, AppendProperties
  <2>3. DOMAIN c = 1..(Len(b) + 1)  BY <2>2, LenProperties
  <2> HIDE DEF c
  <2>4. \A i \in DOMAIN c : (i \in DOMAIN b /\ c[i] = b[i]) \/ (i = Len(b) + 1 /\ c[i] = {f})
    BY <1>1, <2>2, <2>3
  <2>5. \A i \in DOMAIN c : c[i] # {}  BY <1>2, <2>4
  <2>6. \A i, j \in DOMAIN c : i # j => c[i] \cap c[j] = {}
    BY <1>2, <2>4 DEF AreBuckets
  <2> QED  BY <1>4, <2>2, <2>5, <2>6 DEF AreBuckets, c, T
<1>5. CASE Place(b, f) = [b EXCEPT ![k] = @ \cup {f}]
  <2> DEFINE c == [b EXCEPT ![k] = @ \cup {f}]
  <2>1. /\ DOMAIN c = DOMAIN b
        /\ \A i \in DOMAIN b : c[i] = IF i = k THEN b[i] \cup {f} ELSE b[i]
        /\ c = [i \in DOMAIN b |-> c[i]]
    OBVIOUS
  <2> HIDE DEF c
  <2>2. c \in [1..Len(b) -> SUBSET T]  BY <1>1, <1>2, <2>1
  <2>3. c \in Seq(SUBSET T)  BY <1>1, <2>2, SeqDef
  <2>4. \A i \in DOMAIN c : c[i] # {}  BY <1>2, <2>1
  <2>5. ASSUME NEW i \in DOMAIN c, NEW j \in DOMAIN c, i # j
        PROVE  c[i] \cap c[j] = {}
    <3>1. b[i] \cap b[j] = {}  BY <2>1, <2>5 DEF AreBuckets
    <3>2. f \notin b[i] /\ f \notin b[j]  BY <1>2, <2>1
    <3>3. c[i] \cap c[j] \subseteq b[i] \cap b[j]  BY <2>1, <2>5, <3>2
    <3> QED  BY <3>1, <3>3
  <2> QED  BY <1>5, <2>3, <2>4, <2>5 DEF AreBuckets, c
<1> QED  BY <1>3, <1>4, <1>5

LEMMA PresentIsFinite ==
  ASSUME NEW d
  PROVE  IsFiniteSet(Present(d)) /\ Present(d) \subseteq Facts /\ Present(d) \subseteq Int
<1>1. Present(d) \subseteq Facts  BY DEF Present
<1>2. IsFiniteSet(Facts) /\ Facts \subseteq Int  BY StoreAssumption
<1>3. IsFiniteSet(Present(d))  BY <1>1, <1>2, FS_Subset
<1> QED  BY <1>1, <1>2, <1>3

\* The facts of the directory are bucketed, each in one bucket at most.
LEMMA FactsAreBucketed ==
  ASSUME NEW d PROVE AreBuckets(bucket_memory_items(d), Present(d))
<1> DEFINE items == Ascending(Present(d))
           N == Len(items)
           Upto(n, g) == g = [m \in 0..n |-> IF m = 0 THEN <<>> ELSE Place(g[m - 1], items[m])]
           T == {n \in Nat : \E g : Upto(n, g)}
<1>1. 0 \in T
  <2>1. Upto(0, [m \in 0..0 |-> <<>>])  OBVIOUS
  <2> QED  BY <2>1
<1>2. ASSUME NEW n \in Nat, n \in T PROVE n + 1 \in T
  <2>1. PICK g : Upto(n, g)  BY <1>2
  <2> DEFINE h == [m \in 0..(n + 1) |-> IF m = n + 1 THEN Place(g[n], items[n + 1]) ELSE g[m]]
  <2> HIDE DEF items
  <2>2. \A m \in 0..n : g[m] = IF m = 0 THEN <<>> ELSE Place(g[m - 1], items[m])  BY <2>1
  <2>3. ASSUME NEW m \in 0..(n + 1)
        PROVE  h[m] = IF m = 0 THEN <<>> ELSE Place(h[m - 1], items[m])
    <3>1. CASE m = n + 1
      <4>1. h[m] = Place(g[n], items[m]) /\ m # 0 /\ h[m - 1] = g[n]  BY <3>1
      <4> QED  BY <4>1
    <3>2. CASE m # n + 1 /\ m # 0
      <4>1. m \in 0..n /\ m - 1 \in 0..n /\ m - 1 # n + 1  BY <3>2
      <4>2. h[m] = g[m] /\ h[m - 1] = g[m - 1]  BY <3>2, <4>1
      <4> QED  BY <2>2, <3>2, <4>1, <4>2
    <3>3. CASE m = 0
      <4>1. h[0] = g[0] /\ g[0] = <<>>  BY <2>2
      <4> QED  BY <3>3, <4>1
    <3> QED  BY <3>1, <3>2, <3>3
  <2>4. h = [m \in 0..(n + 1) |-> h[m]]  OBVIOUS
  <2> HIDE DEF h
  <2>5. Upto(n + 1, h)  BY <2>3, <2>4
  <2> QED  BY <2>5
<1>3. /\ items \in Seq(Present(d)) /\ N \in Nat
      /\ \A m, n \in 1..N : m < n => items[m] < items[n]
      /\ \A m \in 1..N : items[m] \in Present(d) /\ items[m] \in Int
  <2>1. items \in Seq(Present(d)) /\ \A m, n \in 1..Len(items) : m < n => items[m] < items[n]
    BY PresentIsFinite, AscendingList
  <2> HIDE DEF items
  <2>2. N \in Nat  BY <2>1, LenProperties
  <2>3. \A m \in 1..N : items[m] \in Present(d)  BY <2>1, <2>2, ElementOfSeq
  <2>4. Present(d) \subseteq Int  BY PresentIsFinite
  <2> QED  BY <2>1, <2>2, <2>3, <2>4
<1> DEFINE s == CHOOSE h : Upto(N, h)
<1>4. bucket_memory_items(d) = s[N]  BY DEF bucket_memory_items
<1> HIDE DEF items
<1>5. N \in T
  <2> HIDE DEF T
  <2> QED  BY <1>1, <1>2, <1>3, NaturalInduction
<1>6. Upto(N, s)  BY <1>5
<1> HIDE DEF N, s
<1>7. \A n \in 0..N : s[n] = IF n = 0 THEN <<>> ELSE Place(s[n - 1], items[n])
  BY <1>6
<1> DEFINE Seen(n) == {items[m] : m \in 1..n}
           U == {n \in Nat : n <= N => AreBuckets(s[n], Seen(n))}
<1>8. 0 \in U
  <2>1. s[0] = <<>>  BY <1>3, <1>7
  <2>2. AreBuckets(<<>>, Seen(0))
    <3>1. <<>> \in Seq(SUBSET Seen(0)) /\ DOMAIN <<>> = {}  BY EmptySeq
    <3> QED  BY <3>1 DEF AreBuckets
  <2> QED  BY <2>1, <2>2
<1>9. ASSUME NEW n \in Nat, n \in U PROVE n + 1 \in U
  <2> SUFFICES ASSUME n + 1 <= N PROVE AreBuckets(s[n + 1], Seen(n + 1))
    OBVIOUS
  <2>1. n + 1 \in 0..N /\ n + 1 \in 1..N /\ n + 1 # 0 /\ (n + 1) - 1 = n /\ n <= N
    BY <1>3
  <2>2. s[n + 1] = Place(s[n], items[n + 1])  BY <1>7, <2>1
  <2>3. AreBuckets(s[n], Seen(n))  BY <1>9, <2>1
  <2>4. items[n + 1] \notin Seen(n)
    <3> SUFFICES ASSUME NEW m \in 1..n, items[m] = items[n + 1] PROVE FALSE
      OBVIOUS
    <3>1. m \in 1..N /\ m < n + 1  BY <1>3, <2>1
    <3>2. items[m] < items[n + 1] /\ items[m] \in Int  BY <1>3, <2>1, <3>1
    <3> QED  BY <3>2
  <2>5. Seen(n + 1) = Seen(n) \cup {items[n + 1]}
    <3>1. \A m : m \in 1..(n + 1) <=> m \in 1..n \/ m = n + 1  OBVIOUS
    <3> QED  BY <3>1, Zenon
  <2> HIDE DEF Seen
  <2>6. AreBuckets(Place(s[n], items[n + 1]), Seen(n) \cup {items[n + 1]})
    BY <2>3, <2>4, PlaceKeepsBuckets
  <2> QED  BY <2>2, <2>5, <2>6
<1>10. N \in U
  <2> HIDE DEF U
  <2> QED  BY <1>3, <1>8, <1>9, NaturalInduction
<1>11. AreBuckets(s[N], Seen(N)) /\ Seen(N) \subseteq Present(d)  BY <1>3, <1>10
<1> HIDE DEF Seen
<1>12. AreBuckets(s[N], Present(d))
  <2>1. SUBSET Seen(N) \subseteq SUBSET Present(d)  BY <1>11
  <2>2. s[N] \in Seq(SUBSET Present(d))  BY <1>11, <2>1, SeqMonotonic DEF AreBuckets
  <2> QED  BY <1>11, <2>2 DEF AreBuckets
<1> QED  BY <1>4, <1>12

LEMMA DaysAreNumbers ==
  ASSUME NEW d \in Directory, NEW f \in Facts
  PROVE  d[f] \in Int
<1>1. \A x \in Days \cup {0} : x \in Int  BY StoreAssumption
<1>2. d[f] \in Days \cup {0}  BY DEF Directory
<1> QED  BY <1>1, <1>2

\* The newest fact of a bucket is one of it and none is newer.
LEMMA NewestIsThere ==
  ASSUME NEW d \in Directory, NEW b, b \subseteq Present(d), b # {}
  PROVE  Newest(d, b) \in b /\ \A g \in b : d[g] <= d[Newest(d, b)]
<1> DEFINE days == {d[g] : g \in b}
           top == {f \in b : \A g \in b : d[g] <= d[f]}
<1>1. IsFiniteSet(b) /\ b \subseteq Facts /\ b \subseteq Int
  BY PresentIsFinite, FS_Subset
<1>2. \A g \in b : d[g] \in Int
  BY <1>1, DaysAreNumbers
<1>3. IsFiniteSet(days)
  <2> DEFINE m == [g \in b |-> d[g]]
  <2>1. m \in Surjection(b, days)  BY DEF Surjection
  <2> QED  BY <1>1, <2>1, FS_Surjection
<1>4. days \subseteq Int /\ days # {}  BY <1>2
<1>5. PICK x \in days : \A y \in days : y <= x
  <2> HIDE DEF days
  <2> QED  BY <1>3, <1>4, GreatestElement
<1>6. top # {}
  <2>1. PICK f \in b : d[f] = x  OBVIOUS
  <2>2. f \in top  BY <1>5, <2>1
  <2> QED  BY <2>2
<1>7. Newest(d, b) = Min(top)  BY DEF Newest
<1>8. top \subseteq b  OBVIOUS
<1>9. \A f \in top : \A g \in b : d[g] <= d[f]  OBVIOUS
<1> HIDE DEF top
<1>10. IsFiniteSet(top) /\ top \subseteq Int  BY <1>1, <1>8, FS_Subset
<1>11. Min(top) \in top  BY <1>6, <1>10, MinOfFinite
<1> QED  BY <1>7, <1>8, <1>9, <1>11

\* What a plan may promise of the directory d that it was made for.
PlanFits(p, d) ==
  /\ \A i \in DOMAIN p : p[i].demoted \subseteq Present(d)
  /\ \A i, j \in DOMAIN p : i # j => p[i].demoted \cap p[j].demoted = {}
  /\ \A i \in DOMAIN p : \A f \in p[i].demoted :
       \E g \in Present(d) : /\ d[g] > d[f] + tolerance_days
                             /\ \A j \in DOMAIN p : g \notin p[j].demoted

\* The planner demotes no fact twice, and none without a fresher one that stays.
LEMMA PlannerFits ==
  ASSUME NEW d \in Directory PROVE PlanFits(StoreRepairPlan(d), d)
<1> DEFINE groups == bucket_memory_items(d)
           K == {i \in DOMAIN groups : Stale(d, groups[i]) # {}}
           p == Ascending(K)
           t == AtPlaces(groups, K)
           P == StoreRepairPlan(d)
<1>1. AreBuckets(groups, Present(d))  BY FactsAreBucketed
<1>2. P = [i \in DOMAIN t |-> [kept |-> t[i] \ Stale(d, t[i]), demoted |-> Stale(d, t[i])]]
  BY DEF StoreRepairPlan
<1> HIDE DEF groups
<1>3. groups \in Seq(SUBSET Present(d)) /\ DOMAIN groups = 1..Len(groups)
  BY <1>1, LenProperties DEF AreBuckets
<1>4. K \subseteq 1..Len(groups)  BY <1>3
<1> HIDE DEF K
<1>5. /\ t \in Seq(SUBSET Present(d))
      /\ \A n \in 1..Len(t) : p[n] \in K /\ t[n] = groups[p[n]]
      /\ \A m, n \in 1..Len(t) : m < n => p[m] < p[n]
  <2> DEFINE S == SUBSET Present(d)
  <2>1. groups \in Seq(S) /\ K \subseteq 1..Len(groups)  BY <1>3, <1>4
  <2> HIDE DEF S
  <2>2. /\ t \in Seq(S)
        /\ \A n \in 1..Len(t) : p[n] \in K /\ t[n] = groups[p[n]]
        /\ \A m, n \in 1..Len(t) : m < n => p[m] < p[n]
    <3>1. t \in Seq(S) /\ Len(t) = Cardinality(K)  BY <2>1, PickedList
    <3>2. IsFiniteSet(K) /\ K \subseteq Int
      <4>1. Len(groups) \in Nat  BY <2>1, LenProperties
      <4>2. IsFiniteSet(1..Len(groups))  BY <4>1, FS_Interval
      <4>3. IsFiniteSet(K)  BY <2>1, <4>2, FS_Subset
      <4>4. K \subseteq Int  BY <2>1, <4>1
      <4> QED  BY <4>3, <4>4
    <3>3. p \in Seq(K) /\ Len(p) = Cardinality(K)  BY <3>2, AscendingList
    <3>4. ASSUME NEW m \in 1..Len(p), NEW n \in 1..Len(p), m < n PROVE p[m] < p[n]
      BY <3>2, <3>4, AscendingList
    <3>5. \A n \in 1..Len(p) : p[n] \in K
      <4> HIDE DEF p
      <4> QED  BY <3>3, ElementOfSeq
    <3>6. \A n \in 1..Cardinality(K) : t[n] = groups[p[n]]  BY DEF AtPlaces
    <3> HIDE DEF t, p
    <3> QED  BY <3>1, <3>3, <3>4, <3>5, <3>6
  <2> QED  BY <2>2 DEF S
<1>6. DOMAIN t = 1..Len(t) /\ Len(t) \in Nat  BY <1>5, LenProperties
<1> HIDE DEF t, p, P
<1>7. \A m, n \in DOMAIN t : m # n => p[m] # p[n]
  <2> SUFFICES ASSUME NEW m \in DOMAIN t, NEW n \in DOMAIN t, m # n PROVE p[m] # p[n]
    OBVIOUS
  <2>1. p[m] \in 1..Len(groups) /\ p[n] \in 1..Len(groups)  BY <1>4, <1>5, <1>6
  <2>2. m < n \/ n < m  BY <1>6
  <2> QED  BY <1>5, <1>6, <2>1, <2>2
<1>8. \A n \in DOMAIN t : p[n] \in DOMAIN groups /\ t[n] = groups[p[n]]
  BY <1>3, <1>4, <1>5, <1>6
<1>9. \A n \in DOMAIN t : t[n] \subseteq Present(d) /\ t[n] # {}
  <2>1. \A i \in DOMAIN groups : groups[i] \subseteq Present(d)
    BY <1>3, ElementOfSeq
  <2> QED  BY <1>1, <1>8, <2>1 DEF AreBuckets
<1>10. \A m, n \in DOMAIN t : m # n => t[m] \cap t[n] = {}
  BY <1>1, <1>7, <1>8 DEF AreBuckets
<1>11. /\ DOMAIN P = DOMAIN t
       /\ \A i \in DOMAIN t : P[i].demoted = Stale(d, t[i])
  BY <1>2
<1>12. \A i \in DOMAIN t : Stale(d, t[i]) \subseteq t[i]  BY DEF Stale
<1>13. \A i \in DOMAIN P : P[i].demoted \subseteq Present(d)
  BY <1>9, <1>11, <1>12
<1>14. \A i, j \in DOMAIN P : i # j => P[i].demoted \cap P[j].demoted = {}
  BY <1>10, <1>11, <1>12
<1>15. ASSUME NEW i \in DOMAIN P, NEW f \in P[i].demoted
       PROVE  \E g \in Present(d) : /\ d[g] > d[f] + tolerance_days
                                    /\ \A j \in DOMAIN P : g \notin P[j].demoted
  <2> DEFINE g == Newest(d, t[i])
  <2>1. g \in t[i] /\ g \in Present(d)
    BY <1>9, <1>11, NewestIsThere
  <2>2. d[g] - d[f] > tolerance_days /\ f \in t[i]  BY <1>11 DEF Stale
  <2>3. d[g] \in Int /\ d[f] \in Int /\ tolerance_days \in Nat
    <3>1. tolerance_days \in Nat  BY StoreAssumption
    <3>2. f \in Facts /\ g \in Facts  BY <1>9, <1>11, <2>1, <2>2, PresentIsFinite
    <3> HIDE DEF g
    <3> QED  BY <3>1, <3>2, DaysAreNumbers
  <2>4. g \notin Stale(d, t[i])
    <3>1. ~(d[g] - d[g] > tolerance_days)  BY <2>3
    <3> QED  BY <3>1 DEF Stale
  <2> HIDE DEF g
  <2>5. d[g] > d[f] + tolerance_days  BY <2>2, <2>3
  <2>6. \A j \in DOMAIN P : g \notin P[j].demoted
    BY <1>10, <1>11, <1>12, <2>1, <2>4
  <2> QED  BY <2>1, <2>5, <2>6
<1> QED  BY <1>13, <1>14, <1>15 DEF PlanFits, P

-----------------------------------------------------------------------------
(* The plan and the directory.                                             *)

\* Without interference the plan fits what the run found, and the loops meet
\* what they listed.
PlanInvariant ==
  /\ phase = "checksum" => PlanFits(plan, memory)
  /\ phase \in {"list", "snapshot"} \cup Restorable => PlanFits(plan, before)
  /\ phase = "snapshot" => \A t \in todo : memory[t[2]] # 0
  /\ phase = "unlink" => \A t \in todo : memory[t[2]] # 0

LEMMA OutsidePlan == phase' = "idle" => PlanInvariant'
BY DEF PlanInvariant, Restorable

LEMMA ListedIsThere == ASSUME NEW d PROVE \A t \in Listing(d) : d[t[2]] # 0
BY DEF Listing, Present

\* Steps between the phases that have a plan and no listing.
LEMMA PlanStays ==
  ASSUME PlanInvariant, phase \in {"list", "snapshot"} \cup Restorable,
         phase' \in {"list", "snapshot"} \cup Restorable,
         phase' \notin {"snapshot", "unlink"},
         plan' = plan, before' = before
  PROVE  PlanInvariant'
<1>1. PlanFits(plan, before)'  BY DEF PlanInvariant, PlanFits, Present
<1> QED  BY <1>1 DEF PlanInvariant, Restorable

LEMMA PlanInvariantKept ==
  Typed /\ Alone /\ Copies /\ PlanInvariant /\ [Next]_vars => PlanInvariant'
<1> SUFFICES ASSUME Typed, Alone, Copies, PlanInvariant, [Next]_vars PROVE PlanInvariant'
  OBVIOUS
<1>1. CASE UNCHANGED vars
  BY <1>1 DEF vars, PlanInvariant, PlanFits, Present
<1>2. CASE Next
  <2>1. CASE PlanRepair
    <3>1. memory' = memory /\ phase' = "checksum" /\ plan' = StoreRepairPlan(memory)
      BY <2>1 DEF PlanRepair
    <3>2. PlanFits(StoreRepairPlan(memory), memory)  BY PlannerFits DEF Typed
    <3>3. PlanFits(plan, memory)'  BY <3>1, <3>2 DEF PlanFits, Present
    <3> QED  BY <3>1, <3>3 DEF PlanInvariant, Restorable
  <2>2. CASE Crash  BY <2>2, EndPhase, OutsidePlan DEF Crash
  <2>3. ASSUME NEW f \in Facts, Drop(f) PROVE PlanInvariant'
    BY <2>3, OutsidePlan DEF Drop, Alone
  <2>4. ASSUME NEW f \in Facts, NEW day \in Days, Write(f, day) PROVE PlanInvariant'
    BY <2>4, OutsidePlan DEF Write, Alone
  <2>5. ASSUME NEW mode \in {"dry-run", "apply"}, Checksum(mode) PROVE PlanInvariant'
    <3>1. CASE mode = "dry-run" \/ plan = <<>>
      BY <2>5, <3>1, EndPhase, OutsidePlan DEF Checksum
    <3>2. CASE ~(mode = "dry-run" \/ plan = <<>>)
      <4>1. phase = "checksum" /\ phase' = "list" /\ before' = memory /\ plan' = plan
        BY <2>5, <3>2 DEF Checksum
      <4>2. PlanFits(plan, before)'  BY <4>1 DEF PlanInvariant, PlanFits, Present
      <4> QED  BY <4>1, <4>2 DEF PlanInvariant
    <3> QED  BY <3>1, <3>2
  <2>6. CASE ListForSnapshot
    <3>1. /\ phase = "list" /\ phase' = "snapshot" /\ before' = before /\ plan' = plan
          /\ memory' = memory /\ todo' = Listing(memory)
      BY <2>6 DEF ListForSnapshot, Files
    <3>2. PlanFits(plan, before)'  BY <3>1 DEF PlanInvariant, PlanFits, Present
    <3>3. \A t \in todo' : memory'[t[2]] # 0  BY <3>1, ListedIsThere
    <3> QED  BY <3>1, <3>2, <3>3 DEF PlanInvariant
  <2>7. CASE CopyToSnapshot
    <3>0. phase = "snapshot" /\ memory' = memory  BY <2>7 DEF CopyToSnapshot
    <3>1. CASE Through("demote", Demotions(plan)) /\ UNCHANGED snapshots
      BY <3>0, <3>1, PlanStays DEF Through, Restorable
    <3>2. ASSUME NEW t \in todo, CopyFile(t) PROVE PlanInvariant'
      <4>1. CASE Gone(t[2])
        BY <3>2, <4>1, EndPhase, OutsidePlan DEF CopyFile, Visit
      <4>2. CASE ~Gone(t[2])
        <5>1. phase' = phase /\ plan' = plan /\ before' = before /\ todo' \subseteq todo
          BY <3>2, <4>2 DEF CopyFile, Visit, Rest
        <5>2. PlanFits(plan, before)'  BY <3>0, <5>1 DEF PlanInvariant, PlanFits, Present
        <5> QED  BY <3>0, <5>1, <5>2 DEF PlanInvariant
      <4> QED  BY <4>1, <4>2
    <3> QED  BY <2>7, <3>1, <3>2 DEF CopyToSnapshot
  <2>8. CASE DemoteFile
    <3>0. phase = "demote"  BY <2>8 DEF DemoteFile
    <3>1. \/ phase' = "idle"
          \/ phase' \in {"demote", "validate"} /\ plan' = plan /\ before' = before
      BY <2>8, EndPhase DEF DemoteFile, MoveFile, Visit, Through
    <3> QED  BY <3>0, <3>1, OutsidePlan, PlanStays DEF Restorable
  <2>9. ASSUME NEW probe, NEW verdict \in BOOLEAN, Validate(probe, verdict)
        PROVE  PlanInvariant'
    <3>1. CASE probe = "raises"
      BY <2>9, <3>1, EndPhase, OutsidePlan DEF Validate
    <3>2. CASE probe # "raises" /\ verdict
      BY <2>9, <3>2, PlanStays DEF Validate, Restorable
    <3>3. CASE probe # "raises" /\ ~verdict
      <4>1. /\ phase = "validate" /\ phase' = "unlink" /\ plan' = plan
            /\ before' = before /\ memory' = memory /\ todo' = Listing(memory)
        BY <2>9, <3>3 DEF Validate
      <4>2. PlanFits(plan, before)'
        BY <4>1 DEF PlanInvariant, PlanFits, Present, Restorable
      <4>3. \A t \in todo' : memory'[t[2]] # 0  BY <4>1, ListedIsThere
      <4> QED  BY <4>1, <4>2, <4>3 DEF PlanInvariant
    <3> QED  BY <3>1, <3>2, <3>3
  <2>10. CASE Unlink
    <3>0. phase = "unlink"  BY <2>10 DEF Unlink
    <3>1. CASE Through("copy_back", Listing(Last(snapshots))) /\ UNCHANGED memory
      BY <3>0, <3>1, PlanStays DEF Through, Restorable
    <3>2. ASSUME NEW t \in todo, Visit(t) /\ memory' = RemoveFile(t[2])
          PROVE  PlanInvariant'
      <4>1. CASE Gone(t[2])  BY <3>2, <4>1, EndPhase, OutsidePlan DEF Visit
      <4>2. CASE ~Gone(t[2])
        <5>1. /\ phase' = phase /\ plan' = plan /\ before' = before
              /\ todo' = todo \ {t} /\ memory' = [memory EXCEPT ![t[2]] = 0]
              /\ todo \subseteq {1} \X Facts
          BY <3>0, <3>2, <4>2 DEF Visit, Rest, RemoveFile, Copies
        <5>2. PlanFits(plan, before)'
          BY <3>0, <5>1 DEF PlanInvariant, PlanFits, Present, Restorable
        <5>3. ASSUME NEW u \in todo' PROVE memory'[u[2]] # 0
          <6>1. u \in todo /\ u # t  BY <5>1
          <6>2. u[2] # t[2]  BY <5>1, <6>1
          <6>3. memory'[u[2]] = memory[u[2]]
            BY <5>1, <6>1, <6>2 DEF Typed, Directory
          <6> QED  BY <3>0, <6>1, <6>3 DEF PlanInvariant
        <5> QED  BY <3>0, <5>1, <5>2, <5>3 DEF PlanInvariant
      <4> QED  BY <4>1, <4>2
    <3> QED  BY <2>10, <3>1, <3>2 DEF Unlink
  <2>11. CASE CopyBack
    <3>0. phase = "copy_back"  BY <2>11 DEF CopyBack
    <3>1. phase' \in {"copy_back", "verify"} /\ plan' = plan /\ before' = before
      BY <2>11, <3>0 DEF CopyBack, PutBack, Through
    <3> QED  BY <3>0, <3>1, PlanStays DEF Restorable
  <2>12. CASE Verify  BY <2>12, EndPhase, OutsidePlan DEF Verify
  <2> QED
    BY <1>2, <2>1, <2>2, <2>3, <2>4, <2>5, <2>6, <2>7, <2>8, <2>9, <2>10,
       <2>11, <2>12 DEF Next, Step, Run
<1> QED  BY <1>1, <1>2

\* The invariant of the run together with its plan.
RepairInvariant == CopyInvariant /\ (Alone => PlanInvariant)

THEOREM PlanStaysFitting == Spec => []RepairInvariant
<1>1. Init => PlanInvariant  BY DEF Init, PlanInvariant, Restorable
<1>2. RepairInvariant /\ [Next]_vars /\ CopyInvariant' => RepairInvariant'
  <2> SUFFICES ASSUME RepairInvariant, [Next]_vars, CopyInvariant' PROVE RepairInvariant'
    OBVIOUS
  <2>1. Alone' <=> Alone  BY DEF Next, vars, Alone
  <2> QED
    BY <2>1, PlanInvariantKept, AloneIsQuiet DEF RepairInvariant, CopyInvariant
<1>3. CopyInvariant /\ PlanInvariant => RepairInvariant  BY DEF RepairInvariant
<1> QED  BY <1>1, <1>2, <1>3, RunIsRecoverable, PTL DEF Spec

\* What has still to be demoted is where the run found it.
LEMMA AwaitsItsTurn ==
  ASSUME RepairInvariant, Alone, phase = "demote", NEW t \in todo
  PROVE  /\ t \in Demotions(plan) /\ memory[t[2]] = before[t[2]] /\ before[t[2]] # 0
         /\ PlanFits(plan, before)
<1>1. /\ Copies /\ Whole /\ Typed /\ PlanFits(plan, before)
  BY AloneIsQuiet DEF RepairInvariant, CopyInvariant, PlanInvariant, Restorable
<1>2. /\ todo \subseteq Demotions(plan)
      /\ memory = [f \in Facts |-> IF Moved(f) THEN 0 ELSE before[f]]
  BY <1>1 DEF Copies, Whole, Restorable
<1>3. /\ t \in Demotions(plan) /\ t[2] \in Facts /\ t[1] \in DOMAIN plan
      /\ t[2] \in plan[t[1]].demoted /\ t = <<t[1], t[2]>>
  BY <1>2 DEF Demotions
<1>4. ~Moved(t[2])
  <2> SUFFICES ASSUME NEW u \in Demotions(plan), u \notin todo, u[2] = t[2] PROVE FALSE
    BY DEF Moved
  <2>1. /\ u[1] \in DOMAIN plan /\ t[2] \in plan[u[1]].demoted /\ u = <<u[1], u[2]>>
    BY DEF Demotions
  <2>2. u[1] = t[1]  BY <1>1, <1>3, <2>1 DEF PlanFits
  <2>3. u = t  BY <1>3, <2>1, <2>2
  <2> QED  BY <2>3
<1>5. before[t[2]] # 0  BY <1>1, <1>3 DEF PlanFits, Present
<1> QED  BY <1>1, <1>2, <1>3, <1>4, <1>5

\* Whatever the facts say, no loop of a run that is left alone meets a file that
\* is gone: no two buckets of a plan share a fact.
THEOREM NoFileDisappears == Spec => []NothingDisappears
<1>1. RepairInvariant => NothingDisappears
  <2> SUFFICES ASSUME RepairInvariant, Alone, phase \in {"snapshot", "demote", "unlink"},
                      NEW t \in todo
               PROVE  memory[t[2]] # 0
    BY DEF NothingDisappears, Gone
  <2>1. PlanInvariant  BY DEF RepairInvariant
  <2>2. CASE phase = "demote"  BY <2>2, AwaitsItsTurn
  <2>3. CASE phase # "demote"  BY <2>1, <2>3 DEF PlanInvariant
  <2> QED  BY <2>2, <2>3
<1> QED  BY <1>1, PlanStaysFitting, PTL

\* A fact leaves only while one fresher by more than the tolerance stays, for
\* any timestamps, words, bucket size and threshold.
THEOREM OnlyStaleAreDemoted == Spec => DemotesOnlyStale
<1>1. ASSUME RepairInvariant, [Next]_vars, NEW f \in Facts,
             Alone, phase = "demote", memory[f] # 0, memory'[f] = 0
      PROVE  \E g \in Facts : memory'[g] > memory[f] + tolerance_days
  <2>1. PICK t \in todo : MoveFile(t)
    <3>1. DemoteFile
      BY <1>1
         DEF Next, Step, Run, vars, PlanRepair, Crash, Drop, Write, Alone, Checksum,
             ListForSnapshot, CopyToSnapshot, Validate, Unlink, CopyBack, Verify
    <3> QED  BY <1>1, <3>1 DEF DemoteFile
  <2>2. /\ t \in Demotions(plan) /\ memory[t[2]] = before[t[2]] /\ PlanFits(plan, before)
    BY <1>1, AwaitsItsTurn
  <2>3. /\ Copies /\ Whole /\ memory \in Directory
    BY <1>1, AloneIsQuiet DEF RepairInvariant, CopyInvariant, Typed
  <2>4. t[2] \in Facts /\ t[1] \in DOMAIN plan /\ t[2] \in plan[t[1]].demoted
    BY <2>2 DEF Demotions
  <2>5. memory' = [memory EXCEPT ![t[2]] = 0]  BY <2>1 DEF MoveFile, RemoveFile
  <2>6. f = t[2]  BY <1>1, <2>3, <2>4, <2>5 DEF Directory
  <2>7. PICK g \in Present(before) : /\ before[g] > before[f] + tolerance_days
                                     /\ \A j \in DOMAIN plan : g \notin plan[j].demoted
    BY <2>2, <2>4, <2>6 DEF PlanFits
  <2>8. g \in Facts /\ g # f  BY <2>4, <2>6, <2>7 DEF Present
  <2>9. ~Moved(g)  BY <2>7 DEF Moved, Demotions
  <2>10. memory[g] = before[g]
    BY <1>1, <2>3, <2>8, <2>9 DEF Copies, Whole, Restorable
  <2>11. memory'[g] = memory[g]  BY <2>3, <2>5, <2>6, <2>8 DEF Directory
  <2> QED  BY <2>2, <2>6, <2>7, <2>8, <2>10, <2>11
<1>2. RepairInvariant /\ [Next]_vars =>
        [\A f \in Facts :
           Alone /\ phase = "demote" /\ memory[f] # 0 /\ memory'[f] = 0 =>
             \E g \in Facts : memory'[g] > memory[f] + tolerance_days]_vars
  BY <1>1
<1> QED  BY <1>2, PlanStaysFitting, PTL DEF Spec, DemotesOnlyStale

-----------------------------------------------------------------------------
(* The item gate.                                                          *)

\* Pair n of the collisions has the item i.
OfPair(i, n) == i \in {collisions[n][1], collisions[n][2]}

\* Who is promoted, and who is demoted, for pair n.
Newer(i, n) ==
  LET p == collisions[n]
  IN  \/ i = p[1] /\ Direction(p[1], p[2]) = "a_newer"
      \/ i = p[2] /\ Direction(p[1], p[2]) = "b_newer"

Older(i, n) ==
  LET p == collisions[n]
  IN  \/ i = p[1] /\ Direction(p[1], p[2]) = "b_newer"
      \/ i = p[2] /\ Direction(p[1], p[2]) = "a_newer"

\* A reconstruction labels the target, when no collision has it.
GateInvariant ==
  /\ recall \in Seq(Stamps \cup {NoStamp})
  /\ targets \in Seq(Places)
  /\ collisions \in Seq(Pairs)
  /\ status = "unjudged" => collisions = <<>>
  /\ ~Scanned => loo_label = {}
  /\ Scanned => targets # <<>>
  /\ \A i \in loo_label :
       i = Target /\ \A n \in 1..Len(collisions) : ~OfPair(i, n)

LEMMA PlacesAreNumbers ==
  ASSUME recall \in Seq(Stamps \cup {NoStamp})
  PROVE  /\ Len(recall) \in Nat /\ Places = 1..Len(recall)
         /\ Places \subseteq Nat /\ IsFiniteSet(Places)
         /\ \A i \in Places : recall[i] \in Nat
<1>1. Len(recall) \in Nat /\ Places = 1..Len(recall)
      /\ recall \in [1..Len(recall) -> Stamps \cup {NoStamp}]
  BY LenProperties DEF Places
<1>2. \A i \in Places : recall[i] \in Nat
  <2>1. Stamps \cup {NoStamp} \subseteq Nat  BY GateConstants DEF NoStamp
  <2>2. \A i \in Places : recall[i] \in Stamps \cup {NoStamp}  BY <1>1
  <2> QED  BY <2>1, <2>2
<1> QED  BY <1>1, <1>2, FS_Interval

LEMMA LoopOrderLists ==
  ASSUME recall \in Seq(Stamps \cup {NoStamp}), NEW found \in SUBSET Pairs
  PROVE  InLoopOrder(found) \in Seq(Pairs)
<1> DEFINE R == {o \in found \X found :
                   \/ o[1][1] < o[2][1]
                   \/ o[1][1] = o[2][1] /\ o[1][2] < o[2][2]}
<1>1. IsFiniteSet(found)
  <2>1. IsFiniteSet(Places \X Places)  BY PlacesAreNumbers, FS_Product
  <2>2. found \subseteq Places \X Places  BY DEF Pairs
  <2> QED  BY <2>1, <2>2, FS_Subset
<1>2. \A p \in found : p[1] \in Int /\ p[2] \in Int /\ p = <<p[1], p[2]>>
  BY PlacesAreNumbers DEF Pairs
<1>3. \A x, y \in found :
        <<x, y>> \in R <=> x[1] < y[1] \/ (x[1] = y[1] /\ x[2] < y[2])
  <2> SUFFICES ASSUME NEW x \in found, NEW y \in found
               PROVE  <<x, y>> \in R <=> x[1] < y[1] \/ (x[1] = y[1] /\ x[2] < y[2])
    OBVIOUS
  <2> DEFINE o == <<x, y>>
  <2>1. o \in found \X found /\ o[1] = x /\ o[2] = y  OBVIOUS
  <2>2. o \in R <=> \/ o[1][1] < o[2][1]
                    \/ o[1][1] = o[2][1] /\ o[1][2] < o[2][2]
    <3> HIDE DEF o
    <3> QED  BY <2>1
  <2> QED  BY <2>1, <2>2
<1>0. InLoopOrder(found) = Ranked(found, R)  BY DEF InLoopOrder
<1> HIDE DEF R
<1>4. IsTotalOrder(found, R)
  <2>1. \A x \in found : <<x, x>> \notin R  BY <1>2, <1>3
  <2>2. \A x, y, z \in found : <<x, y>> \in R /\ <<y, z>> \in R => <<x, z>> \in R
    BY <1>2, <1>3
  <2>3. \A x, y \in found : x # y => <<x, y>> \in R \/ <<y, x>> \in R
    <3>1. \A x, y \in found : x # y => x[1] # y[1] \/ x[2] # y[2]  BY <1>2
    <3> QED  BY <1>2, <1>3, <3>1
  <2> QED  BY <2>1, <2>2, <2>3 DEF IsTotalOrder, IsStrictOrder
<1>5. Ranked(found, R) \in Seq(found)  BY <1>1, <1>4, RankedList
<1> QED  BY <1>0, <1>5, SeqMonotonic

LEMMA NobodyInvolved ==
  ASSUME NEW S, NEW found \in Seq(S), NEW i, Involves(i, found) = <<>>
  PROVE  \A n \in 1..Len(found) : i \notin {found[n][1], found[n][2]}
<1> DEFINE K == {n \in DOMAIN found : i \in {found[n][1], found[n][2]}}
<1>1. DOMAIN found = 1..Len(found)  BY LenProperties
<1>2. K \subseteq 1..Len(found) /\ AtPlaces(found, K) = <<>>
  BY <1>1 DEF Involves
<1> HIDE DEF K
<1>3. \A k \in K : \E n \in 1..Len(AtPlaces(found, K)) : TRUE
  BY <1>2, PickedList
<1>4. K = {}
  <2>1. Len(AtPlaces(found, K)) = 0  BY <1>2
  <2> QED  BY <1>3, <2>1
<1> QED  BY <1>1, <1>4 DEF K

LEMMA GateStarts == GateInit => GateInvariant
<1> SUFFICES ASSUME GateInit PROVE GateInvariant
  OBVIOUS
<1>1. \A S : <<>> \in Seq(S)  BY EmptySeq
<1> QED  BY <1>1 DEF GateInit, GateInvariant, Scanned

LEMMA GateStep == GateInvariant /\ [GateNext]_gateVars => GateInvariant'
<1> SUFFICES ASSUME GateInvariant, [GateNext]_gateVars PROVE GateInvariant'
  OBVIOUS
<1> USE DEF GateInvariant
<1>1. ASSUME Recall PROVE GateInvariant'
  <2>1. PICK n \in 1..MaxRecall :
          recall' \in [1..n -> Stamps \cup {NoStamp}] /\ targets' \in [1..n -> 1..n]
    BY <1>1 DEF Recall
  <2>2. n \in Nat  BY <2>1, GateConstants
  <2>3. recall' \in Seq(Stamps \cup {NoStamp}) /\ targets' \in Seq(1..n) /\ Places' = 1..n
    BY <2>1, <2>2, SeqDef DEF Places
  <2>4. collisions' = <<>> /\ status' = "unjudged" /\ loo_label' = {}
    BY <1>1 DEF Recall, Scanned
  <2>5. collisions' \in Seq(Pairs')  BY <2>4, EmptySeq
  <2> QED  BY <2>3, <2>4, <2>5 DEF Scanned
<1>2. ASSUME FailWithoutClient PROVE GateInvariant'
  <2>1. /\ targets # <<>> /\ collisions' = <<>> /\ loo_label' = {}
        /\ status' = "processing_failed" /\ recall' = recall /\ targets' = targets
    BY <1>2 DEF FailWithoutClient, CanJudge
  <2>2. collisions' \in Seq(Pairs')  BY <2>1, EmptySeq
  <2> QED  BY <2>1, <2>2 DEF Places
<1>3. ASSUME Collide PROVE GateInvariant'
  <2>1. PICK found \in SUBSET Pairs :
          /\ collisions' = InLoopOrder(found)
          /\ status' \in {"item_stale", "item_conflict"}
    BY <1>3 DEF Collide
  <2>2. targets # <<>> /\ loo_label' = {} /\ recall' = recall /\ targets' = targets
    BY <1>3 DEF Collide, CanJudge
  <2>3. Places' = Places /\ Pairs' = Pairs  BY <2>2 DEF Places, Pairs
  <2>4. collisions' \in Seq(Pairs)  BY <2>1, LoopOrderLists
  <2> QED  BY <2>1, <2>2, <2>3, <2>4
<1>4. ASSUME Reconstruct PROVE GateInvariant'
  <2>1. PICK found \in SUBSET Pairs :
          /\ collisions' = InLoopOrder(found)
          /\ Involves(Head(targets), collisions') = <<>>
    BY <1>4 DEF Reconstruct
  <2>2. PICK label \in {"pass", "item_wrong", "item_compression_distorted"} :
          /\ status' = label
          /\ loo_label' = IF label = "pass" THEN {} ELSE {Head(targets)}
          /\ targets' = IF label = "pass" THEN Tail(targets) ELSE targets
    BY <1>4 DEF Reconstruct
  <2>3. targets # <<>> /\ recall' = recall
    BY <1>4 DEF Reconstruct, CanJudge
  <2>4. Places' = Places /\ Pairs' = Pairs  BY <2>3 DEF Places, Pairs
  <2>5. collisions' \in Seq(Pairs)  BY <2>1, LoopOrderLists
  <2>6. targets' \in Seq(Places)
    <3>1. Tail(targets) \in Seq(Places)  BY <2>3, HeadTailProperties
    <3> QED  BY <2>2, <3>1
  <2>7. \A n \in 1..Len(collisions') :
          Head(targets) \notin {collisions'[n][1], collisions'[n][2]}
    BY <2>1, <2>5, NobodyInvolved
  <2>8. \A i \in loo_label' :
          i = Target' /\ \A n \in 1..Len(collisions') : ~OfPair(i, n)'
    BY <2>2, <2>7 DEF Target, OfPair
  <2> QED  BY <2>2, <2>3, <2>4, <2>5, <2>6, <2>8 DEF Scanned
<1>5. ASSUME UNCHANGED gateVars PROVE GateInvariant'
  BY <1>5 DEF gateVars, Places, Pairs, Scanned, Target, OfPair
<1> QED  BY <1>1, <1>2, <1>3, <1>4, <1>5 DEF GateNext

-----------------------------------------------------------------------------
(* Timestamps.                                                             *)

LEMMA HalfRoundsDown ==
  ASSUME NEW x \in Int
  PROVE  x \div 2 \in Int /\ 2 * (x \div 2) <= x /\ x <= 2 * (x \div 2) + 1
OBVIOUS

\* Who is newer, whichever of the two comes first.
LEMMA NewerByDays ==
  ASSUME recall \in Seq(Stamps \cup {NoStamp}), NEW a \in Places, NEW b \in Places
  PROVE  /\ Direction(a, b) = "a_newer" =>
              /\ NoStamp \notin {recall[a], recall[b]}
              /\ recall[a] - recall[b] > 2 * timestamp_tolerance_days
         /\ Direction(a, b) = "b_newer" =>
              /\ NoStamp \notin {recall[a], recall[b]}
              /\ recall[b] - recall[a] > 2 * timestamp_tolerance_days
         /\ /\ NoStamp \notin {recall[a], recall[b]}
            /\ recall[a] - recall[b] >= 2 * (timestamp_tolerance_days + 1)
            => Direction(a, b) = "a_newer"
         /\ /\ NoStamp \notin {recall[a], recall[b]}
            /\ recall[b] - recall[a] >= 2 * (timestamp_tolerance_days + 1)
            => Direction(a, b) = "b_newer"
<1> DEFINE x == recall[a]
           y == recall[b]
           g == GapDays(a, b)
           tol == timestamp_tolerance_days
<1>1. x \in Nat /\ y \in Nat /\ tol \in Nat /\ x - y \in Int
  BY PlacesAreNumbers, GateConstants
<1>2. g \in Int /\ 2 * g <= x - y /\ x - y <= 2 * g + 1
  BY <1>1, HalfRoundsDown DEF GapDays
<1>3. Direction(a, b) =
        IF NoStamp \in {x, y} THEN "no_reliable_timestamp"
        ELSE IF ~(Max({g, -g}) > tol) THEN "same_period"
        ELSE IF x > y THEN "a_newer" ELSE "b_newer"
  BY DEF Direction
<1> HIDE DEF g, x, y, tol
<1>4. Max({g, -g}) = IF g <= -g THEN -g ELSE g
  <2>1. -g \in Int  BY <1>2
  <2> QED  BY <1>2, <2>1, OfTwo
<1>5. Direction(a, b) = "a_newer" <=>
        NoStamp \notin {x, y} /\ x > y /\ (IF g <= -g THEN -g ELSE g) > tol
  BY <1>3, <1>4
<1>6. Direction(a, b) = "b_newer" <=>
        NoStamp \notin {x, y} /\ ~(x > y) /\ (IF g <= -g THEN -g ELSE g) > tol
  BY <1>3, <1>4
<1>7. x > y /\ (IF g <= -g THEN -g ELSE g) > tol => x - y > 2 * tol
  BY <1>1, <1>2
<1>8. ~(x > y) /\ (IF g <= -g THEN -g ELSE g) > tol => y - x > 2 * tol
  BY <1>1, <1>2
<1>9. x - y >= 2 * (tol + 1) => x > y /\ (IF g <= -g THEN -g ELSE g) > tol
  BY <1>1, <1>2
<1>10. y - x >= 2 * (tol + 1) => ~(x > y) /\ (IF g <= -g THEN -g ELSE g) > tol
  BY <1>1, <1>2
<1> QED  BY <1>5, <1>6, <1>7, <1>8, <1>9, <1>10 DEF x, y, tol

-----------------------------------------------------------------------------
(* Hints.                                                                  *)

HintsOfPlaces == [Places -> -2..2]

\* What one collision does to the hint of an item.
LEMMA PairMovesHints ==
  ASSUME recall \in Seq(Stamps \cup {NoStamp}), collisions \in Seq(Pairs),
         NEW n \in 1..Len(collisions), NEW h \in HintsOfPlaces
  PROVE  LET g == HintPair(h, collisions[n])
         IN  /\ g \in HintsOfPlaces
             /\ \A i \in Places :
                  /\ ~OfPair(i, n) => g[i] = h[i]
                  /\ Newer(i, n) => g[i] = 2
                  /\ Older(i, n) => g[i] = -2
                  /\ OfPair(i, n) /\ ~Newer(i, n) => g[i] < 0
             /\ \E i \in Places : g[i] < 0
<1> DEFINE p == collisions[n]
           a == p[1]
           b == p[2]
           dir == Direction(a, b)
           g == HintPair(h, p)
<1>1. p \in Pairs  BY ElementOfSeq
<1>2. a \in Places /\ b \in Places /\ a < b /\ a # b
  <2>1. a \in Places /\ b \in Places /\ a < b  BY <1>1 DEF Pairs
  <2> QED  BY <2>1, PlacesAreNumbers
<1>3. /\ \A i : OfPair(i, n) <=> i = a \/ i = b
      /\ \A i : Newer(i, n) <=> (i = a /\ dir = "a_newer") \/ (i = b /\ dir = "b_newer")
      /\ \A i : Older(i, n) <=> (i = a /\ dir = "b_newer") \/ (i = b /\ dir = "a_newer")
  BY DEF OfPair, Newer, Older
<1>4. g = CASE dir = "a_newer" -> AtMost(AtLeast(h, a, 2), b, -2)
            [] dir = "b_newer" -> AtMost(AtLeast(h, b, 2), a, -2)
            [] OTHER -> AtMost(AtMost(h, a, -1), b, -1)
  BY DEF HintPair
<1> HIDE DEF p, a, b, dir, g
<1>5. \A i \in Places : h[i] \in -2..2 /\ h[i] \in Int  BY DEF HintsOfPlaces
<1>6. ASSUME NEW f \in HintsOfPlaces, NEW c \in Places
      PROVE  /\ AtLeast(f, c, 2) = [f EXCEPT ![c] = 2]
             /\ AtMost(f, c, -2) = [f EXCEPT ![c] = -2]
             /\ AtMost(f, c, -1) = [f EXCEPT ![c] = IF f[c] = -2 THEN -2 ELSE -1]
  <2>1. f[c] \in -2..2 /\ f[c] \in Int  BY DEF HintsOfPlaces
  <2>2. Max({f[c], 2}) = 2 /\ Min({f[c], -2}) = -2
        /\ Min({f[c], -1}) = IF f[c] = -2 THEN -2 ELSE -1
    <3>1. -2 \in Int /\ -1 \in Int /\ 2 \in Int  OBVIOUS
    <3>2. Max({f[c], 2}) = IF f[c] <= 2 THEN 2 ELSE f[c]  BY <2>1, <3>1, OfTwo
    <3>3. Min({f[c], -2}) = IF f[c] <= -2 THEN f[c] ELSE -2  BY <2>1, <3>1, OfTwo
    <3>4. Min({f[c], -1}) = IF f[c] <= -1 THEN f[c] ELSE -1  BY <2>1, <3>1, OfTwo
    <3> QED  BY <2>1, <3>2, <3>3, <3>4
  <2> QED  BY <2>2 DEF AtLeast, AtMost
<1>7. ASSUME NEW f \in HintsOfPlaces, NEW c \in Places, NEW v \in -2..2
      PROVE  [f EXCEPT ![c] = v] \in HintsOfPlaces
  BY DEF HintsOfPlaces
<1>71. 2 \in -2..2 /\ -2 \in -2..2  OBVIOUS
<1>8. CASE dir = "a_newer"
  <2>1. [h EXCEPT ![a] = 2] \in HintsOfPlaces  BY <1>2, <1>7, <1>71
  <2>2. g = [[h EXCEPT ![a] = 2] EXCEPT ![b] = -2]
    BY <1>2, <1>4, <1>6, <1>8, <2>1
  <2>3. g \in HintsOfPlaces  BY <1>2, <1>7, <1>71, <2>1, <2>2
  <2>4. /\ g[a] = 2 /\ g[b] = -2
        /\ \A i \in Places : i # a /\ i # b => g[i] = h[i]
    BY <1>2, <2>2 DEF HintsOfPlaces
  <2>5. \A i \in Places : /\ ~OfPair(i, n) => g[i] = h[i]
                          /\ Newer(i, n) => g[i] = 2
                          /\ Older(i, n) => g[i] = -2
                          /\ OfPair(i, n) /\ ~Newer(i, n) => g[i] = -2
    BY <1>3, <1>8, <2>4
  <2> QED  BY <1>2, <2>3, <2>4, <2>5 DEF g, p
<1>9. CASE dir = "b_newer"
  <2>1. [h EXCEPT ![b] = 2] \in HintsOfPlaces  BY <1>2, <1>7, <1>71
  <2>2. g = [[h EXCEPT ![b] = 2] EXCEPT ![a] = -2]
    BY <1>2, <1>4, <1>6, <1>9, <2>1
  <2>3. g \in HintsOfPlaces  BY <1>2, <1>7, <1>71, <2>1, <2>2
  <2>4. /\ g[b] = 2 /\ g[a] = -2
        /\ \A i \in Places : i # a /\ i # b => g[i] = h[i]
    BY <1>2, <2>2 DEF HintsOfPlaces
  <2>5. \A i \in Places : /\ ~OfPair(i, n) => g[i] = h[i]
                          /\ Newer(i, n) => g[i] = 2
                          /\ Older(i, n) => g[i] = -2
                          /\ OfPair(i, n) /\ ~Newer(i, n) => g[i] = -2
    BY <1>3, <1>9, <2>4
  <2> QED  BY <1>2, <2>3, <2>4, <2>5 DEF g, p
<1>10. CASE dir \notin {"a_newer", "b_newer"}
  <2> DEFINE low(x) == IF x = -2 THEN -2 ELSE -1
             f == [h EXCEPT ![a] = low(h[a])]
  <2>1. f \in HintsOfPlaces /\ f[b] = h[b]
    BY <1>2, <1>7 DEF HintsOfPlaces
  <2>2. AtMost(h, a, -1) = f  BY <1>2, <1>6
  <2>3. g = [f EXCEPT ![b] = low(f[b])]
    <3>1. g = AtMost(AtMost(h, a, -1), b, -1)  BY <1>4, <1>10
    <3> HIDE DEF f
    <3> QED  BY <1>2, <1>6, <2>1, <2>2, <3>1
  <2>4. low(f[b]) \in -2..2 /\ low(f[b]) < 0 /\ low(h[a]) < 0  OBVIOUS
  <2>5. g \in HintsOfPlaces
    <3> HIDE DEF f, low
    <3> QED  BY <1>2, <1>7, <2>1, <2>3, <2>4
  <2>6. g[a] = low(h[a]) /\ g[b] = low(f[b])
        /\ \A i \in Places : i # a /\ i # b => g[i] = h[i]
    <3> HIDE DEF low
    <3> QED  BY <1>2, <2>3 DEF HintsOfPlaces
  <2> HIDE DEF f, low
  <2>7. \A i \in Places : /\ ~OfPair(i, n) => g[i] = h[i]
                          /\ ~Newer(i, n) /\ ~Older(i, n)
                          /\ OfPair(i, n) => g[i] < 0
    BY <1>3, <1>10, <2>4, <2>6
  <2>8. g[a] < 0  BY <2>4, <2>6
  <2> QED  BY <1>2, <2>5, <2>7, <2>8 DEF g, p
<1> QED  BY <1>8, <1>9, <1>10

\* The hints, collision by collision.
LEMMA HintsByCollision ==
  ASSUME recall \in Seq(Stamps \cup {NoStamp}), collisions \in Seq(Pairs)
  PROVE  \E hints : /\ CollisionHints = hints[Len(collisions)]
                    /\ hints[0] = [i \in Places |-> 0]
                    /\ \A n \in 1..Len(collisions) :
                         hints[n] = HintPair(hints[n - 1], collisions[n])
<1> DEFINE First == [i \in Places |-> 0]
           After(f, n) == HintPair(f, collisions[n])
           Upto(m, f) == f = [n \in 0..m |-> IF n = 0 THEN First ELSE After(f[n - 1], n)]
           T == {m \in Nat : \E f : Upto(m, f)}
           s == CHOOSE f : Upto(Len(collisions), f)
<1>0. Len(collisions) \in Nat  BY LenProperties
<1>1. CollisionHints = s[Len(collisions)]  BY DEF CollisionHints
<1> HIDE DEF After
<1>3. 0 \in T
  <2> HIDE DEF First
  <2>1. Upto(0, [m \in 0..0 |-> First])  OBVIOUS
  <2> QED  BY <2>1
<1>4. ASSUME NEW m \in Nat, m \in T PROVE m + 1 \in T
  <2> HIDE DEF First
  <2>1. PICK f : Upto(m, f)  BY <1>4
  <2> DEFINE h == [i \in 0..(m + 1) |-> IF i = m + 1 THEN After(f[m], m + 1) ELSE f[i]]
  <2>2. \A i \in 0..m : f[i] = IF i = 0 THEN First ELSE After(f[i - 1], i)  BY <2>1
  <2>3. ASSUME NEW i \in 0..(m + 1)
        PROVE  h[i] = IF i = 0 THEN First ELSE After(h[i - 1], i)
    <3>1. CASE i = m + 1
      <4>1. h[i] = After(f[m], i) /\ i # 0 /\ h[i - 1] = f[m]  BY <3>1
      <4> QED  BY <4>1
    <3>2. CASE i # m + 1 /\ i # 0
      <4>1. i \in 0..m /\ i - 1 \in 0..m /\ i - 1 # m + 1  BY <3>2
      <4>2. h[i] = f[i] /\ h[i - 1] = f[i - 1]  BY <3>2, <4>1
      <4> QED  BY <2>2, <3>2, <4>1, <4>2
    <3>3. CASE i = 0
      <4>1. h[0] = f[0] /\ f[0] = First  BY <2>2
      <4> QED  BY <3>3, <4>1
    <3> QED  BY <3>1, <3>2, <3>3
  <2>4. h = [i \in 0..(m + 1) |-> h[i]]  OBVIOUS
  <2> HIDE DEF h
  <2>5. Upto(m + 1, h)  BY <2>3, <2>4
  <2> QED  BY <2>5
<1>5. Len(collisions) \in T
  <2> HIDE DEF T
  <2> QED  BY <1>0, <1>3, <1>4, NaturalInduction
<1>6. Upto(Len(collisions), s)  BY <1>5
<1> HIDE DEF s, First
<1>7. \A n \in 0..Len(collisions) : s[n] = IF n = 0 THEN First ELSE After(s[n - 1], n)
  BY <1>6
<1>8. s[0] = First  BY <1>0, <1>7
<1>9. \A n \in 1..Len(collisions) : s[n] = After(s[n - 1], n)
  <2>1. \A n \in 1..Len(collisions) : n \in 0..Len(collisions) /\ n # 0  BY <1>0
  <2> QED  BY <1>7, <2>1
<1> QED  BY <1>1, <1>8, <1>9 DEF First, After

\* What the collisions leave: an item is promoted only over an older one, one that
\* is newer than all it collides with stays promoted, one that is older than all
\* demoted, one without a collision gets no hint.
LEMMA CollisionsDecide ==
  ASSUME recall \in Seq(Stamps \cup {NoStamp}), collisions \in Seq(Pairs)
  PROVE  LET h == CollisionHints
             N == Len(collisions)
         IN  /\ h \in HintsOfPlaces
             /\ collisions # <<>> => \E i \in Places : h[i] < 0
             /\ \A i \in Places :
                  /\ (\A n \in 1..N : ~OfPair(i, n)) => h[i] = 0
                  /\ h[i] > 0 => \E n \in 1..N : Newer(i, n)
                  /\ (\E n \in 1..N : OfPair(i, n)) =>
                       /\ (\A n \in 1..N : OfPair(i, n) => Newer(i, n)) => h[i] = 2
                       /\ (\A n \in 1..N : OfPair(i, n) => Older(i, n)) => h[i] = -2
<1> DEFINE N == Len(collisions)
<1>1. PICK hints : /\ CollisionHints = hints[N]
                   /\ hints[0] = [i \in Places |-> 0]
                   /\ \A n \in 1..N : hints[n] = HintPair(hints[n - 1], collisions[n])
  BY HintsByCollision
<1>2. N \in Nat  BY LenProperties
<1> DEFINE
     Decided(m, i) ==
       /\ (\A n \in 1..m : ~OfPair(i, n)) => hints[m][i] = 0
       /\ hints[m][i] > 0 => \E n \in 1..m : Newer(i, n)
       /\ (\E n \in 1..m : OfPair(i, n)) =>
            /\ (\A n \in 1..m : OfPair(i, n) => Newer(i, n)) => hints[m][i] = 2
            /\ (\A n \in 1..m : OfPair(i, n) => Older(i, n)) => hints[m][i] = -2
     T == {m \in Nat : m <= N => hints[m] \in HintsOfPlaces /\ \A i \in Places : Decided(m, i)}
<1>3. 0 \in T
  <2>1. hints[0] \in HintsOfPlaces /\ \A i \in Places : hints[0][i] = 0
    BY <1>1 DEF HintsOfPlaces
  <2>2. \A n \in 1..0 : FALSE  OBVIOUS
  <2> QED  BY <2>1, <2>2
<1>4. ASSUME NEW m \in Nat, m \in T, m + 1 <= N
      PROVE  /\ hints[m + 1] \in HintsOfPlaces
             /\ \E i \in Places : hints[m + 1][i] < 0
             /\ \A i \in Places : Decided(m + 1, i)
  <2> DEFINE k == m + 1
  <2>1. k \in 1..N /\ k - 1 = m /\ m <= N  BY <1>2, <1>4
  <2>2. hints[m] \in HintsOfPlaces /\ \A i \in Places : Decided(m, i)
    BY <1>4, <2>1
  <2>3. hints[k] = HintPair(hints[m], collisions[k])  BY <1>1, <2>1
  <2> HIDE DEF k
  <2>4. /\ hints[k] \in HintsOfPlaces
        /\ \E i \in Places : hints[k][i] < 0
        /\ \A i \in Places :
             /\ ~OfPair(i, k) => hints[k][i] = hints[m][i]
             /\ Newer(i, k) => hints[k][i] = 2
             /\ Older(i, k) => hints[k][i] = -2
             /\ OfPair(i, k) /\ ~Newer(i, k) => hints[k][i] < 0
    <3> DEFINE f == hints[m]
    <3>1. f \in HintsOfPlaces /\ k \in 1..Len(collisions)  BY <2>1, <2>2
    <3> HIDE DEF f
    <3>2. LET g == HintPair(f, collisions[k])
          IN  /\ g \in HintsOfPlaces
              /\ \A i \in Places :
                   /\ ~OfPair(i, k) => g[i] = f[i]
                   /\ Newer(i, k) => g[i] = 2
                   /\ Older(i, k) => g[i] = -2
                   /\ OfPair(i, k) /\ ~Newer(i, k) => g[i] < 0
              /\ \E i \in Places : g[i] < 0
      BY <3>1, PairMovesHints
    <3>3. hints[k] = HintPair(f, collisions[k])  BY <2>3 DEF f
    <3> QED  BY <3>2, <3>3 DEF f
  <2>5. /\ \A n \in 1..m : n \in 1..k
        /\ k \in 1..k
        /\ \A n \in 1..k : n \in 1..m \/ n = k
    BY DEF k
  <2>6. \A i \in Places : Newer(i, k) \/ Older(i, k) => OfPair(i, k)
    BY DEF Newer, Older, OfPair
  <2>7. \A i \in Places : hints[k][i] \in Int  BY <2>4 DEF HintsOfPlaces
  <2>8. ASSUME NEW i \in Places PROVE Decided(k, i)
    <3>1. CASE ~OfPair(i, k)
      BY <2>2, <2>4, <2>5, <2>6, <3>1
    <3>2. CASE OfPair(i, k)
      <4>1. (\A n \in 1..k : ~OfPair(i, n)) => hints[k][i] = 0  BY <2>5, <3>2
      <4>2. hints[k][i] > 0 => \E n \in 1..k : Newer(i, n)
        BY <2>4, <2>5, <2>7, <3>2
      <4>3. (\A n \in 1..k : OfPair(i, n) => Newer(i, n)) => hints[k][i] = 2
        BY <2>4, <2>5, <3>2
      <4>4. (\A n \in 1..k : OfPair(i, n) => Older(i, n)) => hints[k][i] = -2
        BY <2>4, <2>5, <3>2
      <4> QED  BY <4>1, <4>2, <4>3, <4>4
    <3> QED  BY <3>1, <3>2
  <2> HIDE DEF Decided
  <2> QED  BY <2>4, <2>8 DEF k
<1>5. ASSUME NEW m \in Nat, m \in T PROVE m + 1 \in T
  <2> HIDE DEF Decided
  <2>1. m + 1 <= N => hints[m + 1] \in HintsOfPlaces /\ \A i \in Places : Decided(m + 1, i)
    BY <1>4, <1>5
  <2> QED  BY <2>1
<1>6. Nat \subseteq T
  <2> HIDE DEF T
  <2> QED  BY <1>3, <1>5, NaturalInduction
<1>7. hints[N] \in HintsOfPlaces /\ \A i \in Places : Decided(N, i)
  BY <1>2, <1>6
<1>8. collisions # <<>> => \E i \in Places : hints[N][i] < 0
  <2>1. ASSUME collisions # <<>> PROVE \E i \in Places : hints[N][i] < 0
    <3>1. N # 0  BY <2>1, EmptySeq
    <3>2. N - 1 \in Nat /\ (N - 1) + 1 = N /\ (N - 1) + 1 <= N  BY <1>2, <3>1
    <3> HIDE DEF T, N, Decided
    <3>3. \E i \in Places : hints[(N - 1) + 1][i] < 0  BY <1>4, <1>6, <3>2
    <3> QED  BY <3>2, <3>3
  <2> QED  BY <2>1
<1> QED  BY <1>1, <1>7, <1>8

\* The hint of a reconstruction, or of a scan that found nothing to name, comes
\* on top of those of the collisions and can only demote.
LEMMA ScanDemotes ==
  ASSUME GateInvariant, Scanned
  PROVE  /\ Hints \in [Places -> Int]
         /\ \E i \in Places : Hints[i] < 0
         /\ \A i \in Places :
              /\ Hints[i] > 0 => CollisionHints[i] > 0
              /\ (\E n \in 1..Len(collisions) : OfPair(i, n)) => Hints[i] = CollisionHints[i]
              /\ i # Target /\ (\A n \in 1..Len(collisions) : ~OfPair(i, n)) => Hints[i] = 0
<1> DEFINE C == CollisionHints
           labelled == [i \in Places |-> IF i \in loo_label THEN Min({C[i], -2}) ELSE C[i]]
           silent == collisions = <<>> /\ loo_label = {}
<1>1. Hints = IF silent THEN AtMost(labelled, Target, -2) ELSE labelled
  BY DEF Hints
<1>2. /\ C \in HintsOfPlaces
      /\ collisions # <<>> => \E i \in Places : C[i] < 0
      /\ \A i \in Places : (\A n \in 1..Len(collisions) : ~OfPair(i, n)) => C[i] = 0
  BY CollisionsDecide DEF GateInvariant
<1> HIDE DEF C
<1>3. \A i \in Places : C[i] \in Int  BY <1>2 DEF HintsOfPlaces
<1>4. ASSUME NEW x \in Int PROVE Min({x, -2}) = IF x <= -2 THEN x ELSE -2
  <2>1. -2 \in Int  OBVIOUS
  <2> QED  BY <2>1, OfTwo
<1>5. /\ labelled \in [Places -> Int]
      /\ \A i \in Places : labelled[i] = IF i \in loo_label /\ ~(C[i] <= -2) THEN -2 ELSE C[i]
  <2>1. \A i \in Places : Min({C[i], -2}) = IF C[i] <= -2 THEN C[i] ELSE -2
    BY <1>3, <1>4
  <2>2. \A i \in Places : labelled[i] = IF i \in loo_label THEN Min({C[i], -2}) ELSE C[i]
    OBVIOUS
  <2>3. \A i \in Places : labelled[i] \in Int  BY <1>3, <2>1, <2>2
  <2>4. labelled \in [Places -> Int]  BY <2>3
  <2> QED  BY <2>1, <2>2, <2>4
<1> HIDE DEF labelled
<1>6. Target \in Places
  BY HeadTailProperties DEF GateInvariant, Target
<1>7. \A i \in loo_label : i = Target /\ \A n \in 1..Len(collisions) : ~OfPair(i, n)
  BY DEF GateInvariant
<1>8. CASE silent
  <2>1. AtMost(labelled, Target, -2) =
          [labelled EXCEPT ![Target] = Min({labelled[Target], -2})]
    BY DEF AtMost
  <2>2. Min({labelled[Target], -2}) =
          IF labelled[Target] <= -2 THEN labelled[Target] ELSE -2
    BY <1>4, <1>5, <1>6
  <2>3. /\ Hints \in [Places -> Int]
        /\ Hints[Target] < 0
        /\ \A i \in Places : i # Target => Hints[i] = labelled[i]
    BY <1>1, <1>5, <1>6, <1>8, <2>1, <2>2
  <2>4. Len(collisions) = 0  BY <1>8
  <2>5. \A n \in 1..Len(collisions) : FALSE  BY <2>4
  <2>6. \A i \in Places : i # Target => Hints[i] = 0
    BY <1>2, <1>5, <1>8, <2>3, <2>5
  <2>7. ~(Hints[Target] > 0)  BY <1>6, <2>3
  <2> QED  BY <1>6, <2>3, <2>5, <2>6, <2>7
<1>9. CASE ~silent
  <2>1. Hints = labelled  BY <1>1, <1>9
  <2>2. \E i \in Places : Hints[i] < 0
    <3>1. CASE collisions # <<>>
      <4>1. PICK i \in Places : C[i] < 0  BY <1>2, <3>1
      <4>2. labelled[i] < 0  BY <1>3, <1>5, <4>1
      <4> QED  BY <2>1, <4>2
    <3>2. CASE loo_label # {}
      <4>1. Target \in loo_label  BY <1>7, <3>2
      <4>2. labelled[Target] < 0  BY <1>3, <1>5, <1>6, <4>1
      <4> QED  BY <1>6, <2>1, <4>2
    <3> QED  BY <1>9, <3>1, <3>2
  <2>3. ASSUME NEW i \in Places, Hints[i] > 0 PROVE C[i] > 0
    BY <1>3, <1>5, <2>1, <2>3
  <2>4. ASSUME NEW i \in Places, i \notin loo_label PROVE Hints[i] = C[i]
    BY <1>5, <2>1, <2>4
  <2>5. \A i \in Places :
          /\ (\E n \in 1..Len(collisions) : OfPair(i, n)) => Hints[i] = C[i]
          /\ i # Target /\ (\A n \in 1..Len(collisions) : ~OfPair(i, n)) => Hints[i] = 0
    BY <1>2, <1>7, <2>4
  <2> QED  BY <1>5, <2>1, <2>2, <2>3, <2>5 DEF C
<1> QED  BY <1>8, <1>9 DEF C

\* Evidence with a higher hint comes first.
LEMMA HintsRank ==
  ASSUME recall \in Seq(Stamps \cup {NoStamp}), Hints \in [Places -> Int],
         NEW i \in Places, NEW j \in Places, Hints[i] > Hints[j]
  PROVE  Rank(i) < Rank(j)
<1> DEFINE h == Hints
           R == {p \in Places \X Places :
                   \/ h[p[1]] > h[p[2]]
                   \/ h[p[1]] = h[p[2]] /\ p[1] < p[2]}
           s == Evidence
<1>1. s = Ranked(Places, R)  BY DEF Evidence
<1>2. \A x, y \in Places : <<x, y>> \in R <=> h[x] > h[y] \/ (h[x] = h[y] /\ x < y)
  OBVIOUS
<1> HIDE DEF R, h
<1>3. IsFiniteSet(Places) /\ \A x \in Places : x \in Int /\ h[x] \in Int
  BY PlacesAreNumbers DEF h
<1>4. IsTotalOrder(Places, R)
  <2>1. \A x \in Places : <<x, x>> \notin R  BY <1>2, <1>3
  <2>2. \A x, y, z \in Places : <<x, y>> \in R /\ <<y, z>> \in R => <<x, z>> \in R
    <3> SUFFICES ASSUME NEW x \in Places, NEW y \in Places, NEW z \in Places,
                        <<x, y>> \in R, <<y, z>> \in R
                 PROVE  <<x, z>> \in R
      OBVIOUS
    <3>1. /\ h[x] > h[y] \/ (h[x] = h[y] /\ x < y)
          /\ h[y] > h[z] \/ (h[y] = h[z] /\ y < z)
      BY <1>2
    <3>2. h[x] > h[z] \/ (h[x] = h[z] /\ x < z)  BY <1>3, <3>1
    <3> QED  BY <1>2, <3>2
  <2>3. \A x, y \in Places : x # y => <<x, y>> \in R \/ <<y, x>> \in R
    <3> SUFFICES ASSUME NEW x \in Places, NEW y \in Places, x # y
                 PROVE  <<x, y>> \in R \/ <<y, x>> \in R
      OBVIOUS
    <3>1. \/ h[x] > h[y] \/ (h[x] = h[y] /\ x < y)
          \/ h[y] > h[x] \/ (h[y] = h[x] /\ y < x)
      BY <1>3
    <3> QED  BY <1>2, <3>1
  <2> QED  BY <2>1, <2>2, <2>3 DEF IsTotalOrder, IsStrictOrder
<1> HIDE DEF s
<1>5. /\ s \in Seq(Places) /\ Len(s) \in Nat
      /\ \A x \in Places : \E n \in 1..Len(s) : s[n] = x
      /\ \A m, n \in 1..Len(s) : m < n => <<s[m], s[n]>> \in R
  <2>1. LET l == Ranked(Places, R)
        IN  /\ l \in Seq(Places)
            /\ \A x \in Places : \E n \in 1..Len(l) : l[n] = x
            /\ \A m, n \in 1..Len(l) : m < n => <<l[m], l[n]>> \in R
    BY <1>3, <1>4, RankedList
  <2> QED  BY <1>1, <2>1, LenProperties
<1>6. DOMAIN s = 1..Len(s)  BY <1>5, LenProperties
<1>7. ASSUME NEW x \in Places PROVE Rank(x) \in 1..Len(s) /\ s[Rank(x)] = x
  BY <1>5, <1>6 DEF Rank, s
<1>8. Rank(i) \in 1..Len(s) /\ s[Rank(i)] = i /\ Rank(j) \in 1..Len(s) /\ s[Rank(j)] = j
  BY <1>7
<1>9. h[i] > h[j]  BY DEF h
<1>10. i # j /\ <<j, i>> \notin R  BY <1>2, <1>3, <1>9
<1>11. ~(Rank(j) < Rank(i)) /\ Rank(i) # Rank(j)
  BY <1>5, <1>8, <1>10
<1> HIDE DEF Rank
<1>12. Rank(i) \in Int /\ Rank(j) \in Int  BY <1>5, <1>8
<1> QED  BY <1>11, <1>12

\* Contradictions are pairs of the collisions.
LEMMA ContradictingPairs ==
  ASSUME collisions \in Seq(Pairs), NEW i, NEW j
  PROVE  Contradicts(i, j) <=>
           \E n \in 1..Len(collisions) : collisions[n] \in {<<i, j>>, <<j, i>>}
<1>1. DOMAIN collisions = 1..Len(collisions)  BY LenProperties
<1> QED  BY <1>1 DEF Contradicts, ToSet

\* Who is newer for a pair contradicts the other item, which is older by more
\* than the tolerance; who supersedes the other item is newer for the pair.
LEMMA PairsOfItem ==
  ASSUME recall \in Seq(Stamps \cup {NoStamp}), collisions \in Seq(Pairs),
         NEW n \in 1..Len(collisions), NEW i \in Places, OfPair(i, n)
  PROVE  \E j \in Places :
           /\ Contradicts(i, j) /\ Contradicts(j, i)
           /\ Newer(i, n) =>
                recall[j] # NoStamp /\ recall[i] - recall[j] > 2 * timestamp_tolerance_days
           /\ Supersedes(i, j) => Newer(i, n)
           /\ Supersedes(j, i) => Older(i, n)
<1> DEFINE p == collisions[n]
           a == p[1]
           b == p[2]
<1>1. p \in Pairs  BY ElementOfSeq
<1>2. p = <<a, b>> /\ a \in Places /\ b \in Places  BY <1>1 DEF Pairs
<1>3. a # b
  <2>1. a < b  BY <1>1 DEF Pairs
  <2> QED  BY <1>2, <2>1, PlacesAreNumbers
<1>4. /\ i = a \/ i = b
      /\ Newer(i, n) <=> \/ i = a /\ Direction(a, b) = "a_newer"
                         \/ i = b /\ Direction(a, b) = "b_newer"
      /\ Older(i, n) <=> \/ i = a /\ Direction(a, b) = "b_newer"
                         \/ i = b /\ Direction(a, b) = "a_newer"
  BY DEF OfPair, Newer, Older
<1> HIDE DEF p, a, b
<1>5. Contradicts(a, b) /\ Contradicts(b, a)
  <2>1. collisions[n] = <<a, b>>  BY <1>2 DEF p
  <2> QED  BY <2>1, ContradictingPairs
<1>6. CASE i = a
  <2>1. /\ Newer(a, n) => Direction(a, b) = "a_newer"
        /\ Direction(a, b) = "a_newer" => Newer(a, n)
        /\ Direction(a, b) = "b_newer" => Older(a, n)
    BY <1>3, <1>4, <1>6
  <2>2. Newer(a, n) =>
          recall[b] # NoStamp /\ recall[a] - recall[b] > 2 * timestamp_tolerance_days
    BY <1>2, <2>1, NewerByDays
  <2>3. Supersedes(a, b) => Newer(a, n)
    BY <1>2, <2>1, NewerByDays DEF Supersedes
  <2>4. Supersedes(b, a) => Older(a, n)
    BY <1>2, <2>1, NewerByDays DEF Supersedes
  <2> QED  BY <1>2, <1>5, <1>6, <2>2, <2>3, <2>4
<1>7. CASE i = b
  <2>1. /\ Newer(b, n) => Direction(a, b) = "b_newer"
        /\ Direction(a, b) = "b_newer" => Newer(b, n)
        /\ Direction(a, b) = "a_newer" => Older(b, n)
    BY <1>3, <1>4, <1>7
  <2>2. Newer(b, n) =>
          recall[a] # NoStamp /\ recall[b] - recall[a] > 2 * timestamp_tolerance_days
    BY <1>2, <2>1, NewerByDays
  <2>3. Supersedes(b, a) => Newer(b, n)
    BY <1>2, <2>1, NewerByDays DEF Supersedes
  <2>4. Supersedes(a, b) => Older(b, n)
    BY <1>2, <2>1, NewerByDays DEF Supersedes
  <2> QED  BY <1>2, <1>5, <1>7, <2>2, <2>3, <2>4
<1> QED  BY <1>4, <1>6, <1>7

LEMMA FreshnessFollows == GateInvariant => HintsFollowFreshness
<1> SUFFICES ASSUME GateInvariant, Scanned PROVE HintsFollowFreshness
  BY DEF HintsFollowFreshness
<1> DEFINE N == Len(collisions)
           Met(i) == \E n \in 1..N : OfPair(i, n)
<1>1. /\ recall \in Seq(Stamps \cup {NoStamp})
      /\ collisions \in Seq(Pairs)
  BY DEF GateInvariant
<1>2. /\ Hints \in [Places -> Int]
      /\ \E i \in Places : Hints[i] < 0
      /\ \A i \in Places :
           /\ Hints[i] > 0 => CollisionHints[i] > 0
           /\ Met(i) => Hints[i] = CollisionHints[i]
           /\ i # Target /\ (\A n \in 1..N : ~OfPair(i, n)) => Hints[i] = 0
  BY ScanDemotes
<1>3. \A i \in Places :
        /\ CollisionHints[i] > 0 => \E n \in 1..N : Newer(i, n)
        /\ Met(i) =>
             /\ (\A n \in 1..N : OfPair(i, n) => Newer(i, n)) => CollisionHints[i] = 2
             /\ (\A n \in 1..N : OfPair(i, n) => Older(i, n)) => CollisionHints[i] = -2
  BY <1>1, CollisionsDecide
<1>4. ASSUME NEW i \in Places, Hints[i] > 0
      PROVE  \E j \in Places :
               /\ Contradicts(i, j) /\ recall[j] # NoStamp
               /\ recall[i] - recall[j] > 2 * timestamp_tolerance_days
  <2>1. PICK n \in 1..N : Newer(i, n)  BY <1>2, <1>3, <1>4
  <2>2. OfPair(i, n)  BY <2>1 DEF Newer, OfPair
  <2> QED  BY <1>1, <2>1, <2>2, PairsOfItem
<1>5. ASSUME NEW i \in Places, NEW j \in Places, Contradicts(i, j),
             \A k \in Places : Contradicts(i, k) => Supersedes(i, k),
             \A k \in Places : Contradicts(j, k) => Supersedes(k, j)
      PROVE  Rank(i) < Rank(j)
  <2>1. Met(i) /\ Met(j)
    <3>1. PICK n \in 1..N : collisions[n] \in {<<i, j>>, <<j, i>>}
      BY <1>1, <1>5, ContradictingPairs
    <3> QED  BY <3>1 DEF OfPair
  <2>2. ASSUME NEW n \in 1..N, OfPair(i, n) PROVE Newer(i, n)
    BY <1>1, <1>5, <2>2, PairsOfItem
  <2>3. ASSUME NEW n \in 1..N, OfPair(j, n) PROVE Older(j, n)
    BY <1>1, <1>5, <2>3, PairsOfItem
  <2>4. Hints[i] = 2 /\ Hints[j] = -2
    BY <1>2, <1>3, <2>1, <2>2, <2>3
  <2>5. Hints[i] > Hints[j]  BY <2>4
  <2> QED  BY <1>1, <1>2, <2>5, HintsRank
<1>6. ASSUME NEW i \in Places, NEW j \in Places,
             Involves(i, collisions) = <<>>, i # Target, Hints[j] < 0
      PROVE  Rank(i) < Rank(j)
  <2>1. \A n \in 1..N : ~OfPair(i, n)
    BY <1>1, <1>6, NobodyInvolved DEF OfPair
  <2>2. Hints[i] = 0 /\ Hints[j] \in Int  BY <1>2, <1>6, <2>1
  <2>3. Hints[i] > Hints[j]  BY <1>6, <2>2
  <2> QED  BY <1>1, <1>2, <2>3, HintsRank
<1> QED  BY <1>2, <1>4, <1>5, <1>6 DEF HintsFollowFreshness

\* Whatever is recalled, in whatever order and up to wherever the scan goes, the
\* evidence that the item gate hands back is promoted only over what is older by
\* more than the tolerance, the newest of a contradiction comes before the oldest,
\* and a faultless item stays ahead of what is demoted.
THEOREM HintsAlwaysFollowFreshness == GateSpec => []HintsFollowFreshness
<1>1. GateSpec => []GateInvariant
  BY GateStarts, GateStep, PTL DEF GateSpec
<1> QED  BY <1>1, FreshnessFollows, PTL
=============================================================================
