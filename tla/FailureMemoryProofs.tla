------------------------ MODULE FailureMemoryProofs ------------------------
(***************************************************************************)
(* Proofs about FailureMemory for any cases, repairs, thresholds and       *)
(* number of runs.  A line enters the index only after its file, and the   *)
(* program that dies in between leaves a file without a line, never a line *)
(* without a file; a torn file exists.  A pattern belongs to the cluster   *)
(* whose position is in its identifier, and a case is recorded once in a   *)
(* run and has its file before it joins a cluster.  The programs of        *)
(* SkillAbstraction are writers of this memory: whichever list a seed      *)
(* comes from, it has passed the filter for the case that it is tried on.  *)
(*   The last part is about OperatorTrajectory, whose library is retrieved *)
(* by the same fingerprints: the scan that the arms share finds again all  *)
(* that a library can hold, so they never differ in what they recover.     *)
(***************************************************************************)
EXTENDS SkillAbstraction, OperatorTrajectory, RankingTheorems

\* Between a file and its line the recording remembers which file it wrote.
IndexInvariant ==
  /\ step \in 0..6
  /\ step = 2 => current.case \in DOMAIN case_files
  /\ step = 5 => Cluster.pattern_id \in DOMAIN pattern_files
  /\ IndexNamesFiles

LEMMA PutDomain ==
  ASSUME NEW f, NEW x, NEW v
  PROVE  DOMAIN Put(f, x, v) = DOMAIN f \cup {x}
BY DEF Put

\* The order of the operations, by number.
LEMMA Places ==
  ASSUME step \in 0..6
  PROVE  /\ Len(Order) = 6
         /\ At("case_file") <=> step = 1
         /\ At("case_line") <=> step = 2
         /\ At("cluster") <=> step = 3
         /\ At("pattern_file") <=> step = 4
         /\ At("pattern_line") <=> step = 5
         /\ At("memory") <=> step = 6
<1>1. Len(Order) = 6  BY DEF Order
<1>2. /\ Order[1] = "case_file" /\ Order[2] = "case_line" /\ Order[3] = "cluster"
      /\ Order[4] = "pattern_file" /\ Order[5] = "pattern_line" /\ Order[6] = "memory"
  BY DEF Order
<1>3. step = 0 \/ step = 1 \/ step = 2 \/ step = 3 \/ step = 4 \/ step = 5 \/ step = 6
  OBVIOUS
<1> QED  BY <1>1, <1>2, <1>3 DEF At

\* Files are added and never removed, so an unchanged index still names files.
LEMMA FilesStay ==
  ASSUME IndexNamesFiles,
         DOMAIN case_files \subseteq DOMAIN case_files',
         DOMAIN pattern_files \subseteq DOMAIN pattern_files',
         index' \subseteq index
  PROVE  IndexNamesFiles'
BY DEF IndexNamesFiles

LEMMA StartsUnlisted == Init => IndexInvariant
BY DEF Init, IndexInvariant, IndexNamesFiles

LEMMA StepKeepsIndex == IndexInvariant /\ [Next]_vars => IndexInvariant'
<1> SUFFICES ASSUME IndexInvariant, [Next]_vars PROVE IndexInvariant'
  OBVIOUS
<1> USE DEF files, loop
<1>0. /\ step \in 0..6 /\ IndexNamesFiles
      /\ step = 2 => current.case \in DOMAIN case_files
      /\ step = 5 => Cluster.pattern_id \in DOMAIN pattern_files
  BY DEF IndexInvariant
<1>1. CASE Recover
  <2>1. step' = 1 /\ UNCHANGED files  BY <1>1 DEF Recover
  <2> QED  BY <1>0, <2>1, FilesStay DEF IndexInvariant
<1>2. CASE WriteCase
  <2>1. /\ step = 1 /\ step' = 2 /\ current' = current
        /\ case_files' = Put(case_files, current.case, CaseFile(current))
        /\ UNCHANGED <<pattern_files, index>>
    BY <1>0, <1>2, Places DEF WriteCase, Advance
  <2>2. DOMAIN case_files' = DOMAIN case_files \cup {current.case}
    BY <2>1, PutDomain
  <2>3. IndexNamesFiles'  BY <1>0, <2>1, <2>2, FilesStay
  <2> QED  BY <2>1, <2>2, <2>3 DEF IndexInvariant
<1>3. CASE ListCase
  <2>1. /\ step = 2 /\ step' = 3 /\ index' = index \cup {CaseLine}
        /\ UNCHANGED <<case_files, pattern_files>>
    <3>1. step = 2  BY <1>0, <1>3, Places DEF ListCase
    <3>2. step' = 3  BY <1>3, <3>1, <1>0, Places DEF ListCase, Advance
    <3> QED  BY <1>3, <3>1, <3>2 DEF ListCase
  <2>2. IndexNamesFiles'
    BY <1>0, <2>1 DEF IndexNamesFiles, CaseLine
  <2> QED  BY <2>1, <2>2 DEF IndexInvariant
<1>4. CASE AssignCluster
  <2>1. step = 3 /\ step' \in {0, 4} /\ UNCHANGED files
    BY <1>0, <1>4, Places DEF AssignCluster, Advance
  <2> QED  BY <1>0, <2>1, FilesStay DEF IndexInvariant
<1>5. CASE WritePattern
  <2>1. /\ step = 4 /\ step' = 5 /\ current' = current /\ clusters' = clusters
        /\ pattern_files' = Put(pattern_files, Cluster.pattern_id, PatternFile(Cluster))
        /\ UNCHANGED <<case_files, index>>
    BY <1>0, <1>5, Places DEF WritePattern, Advance
  <2>2. DOMAIN pattern_files' = DOMAIN pattern_files \cup {Cluster.pattern_id}
    BY <2>1, PutDomain
  <2>3. IndexNamesFiles'  BY <1>0, <2>1, <2>2, FilesStay
  <2>4. Cluster' = Cluster  BY <2>1 DEF Cluster
  <2> QED  BY <2>1, <2>2, <2>3, <2>4 DEF IndexInvariant
<1>6. CASE ListPattern
  <2>1. /\ step = 5 /\ step' = 6 /\ index' = index \cup {PatternLine}
        /\ UNCHANGED <<case_files, pattern_files>>
    <3>1. step = 5  BY <1>0, <1>6, Places DEF ListPattern
    <3>2. step' = 6  BY <1>6, <3>1, <1>0, Places DEF ListPattern, Advance
    <3> QED  BY <1>6, <3>1, <3>2 DEF ListPattern
  <2>2. IndexNamesFiles'
    BY <1>0, <2>1 DEF IndexNamesFiles, PatternLine
  <2> QED  BY <2>1, <2>2 DEF IndexInvariant
<1>7. CASE KeepPattern
  <2>1. step = 6 /\ step' = 0 /\ UNCHANGED files
    BY <1>0, <1>7, Places DEF KeepPattern, Advance
  <2> QED  BY <1>0, <2>1, FilesStay DEF IndexInvariant
<1>8. CASE RunAgain
  <2>1. /\ step' = 0
        /\ Tear \/ UNCHANGED files
    BY <1>8 DEF RunAgain
  <2>2. /\ DOMAIN case_files \subseteq DOMAIN case_files'
        /\ DOMAIN pattern_files \subseteq DOMAIN pattern_files'
        /\ index' \subseteq index
    <3>1. CASE UNCHANGED files  BY <3>1
    <3>2. CASE Tear /\ step = 1
      <4>1. /\ case_files' = Put(case_files, current.case, Torn)
            /\ UNCHANGED <<pattern_files, index>>
        BY <1>0, <3>2, Places DEF Tear
      <4>2. DOMAIN case_files' = DOMAIN case_files \cup {current.case}
        BY <4>1, PutDomain
      <4> QED  BY <4>1, <4>2
    <3>3. CASE Tear /\ step = 4
      <4>1. /\ pattern_files' = Put(pattern_files, Cluster.pattern_id, Torn)
            /\ UNCHANGED <<case_files, index>>
        BY <1>0, <3>3, Places DEF Tear
      <4>2. DOMAIN pattern_files' = DOMAIN pattern_files \cup {Cluster.pattern_id}
        BY <4>1, PutDomain
      <4> QED  BY <4>1, <4>2
    <3>4. CASE Tear /\ (step = 2 \/ step = 5)
      <4>1. index' = {} /\ UNCHANGED <<case_files, pattern_files>>
        BY <1>0, <3>4, Places DEF Tear
      <4> QED  BY <4>1
    <3>5. CASE Tear /\ step \notin {1, 2, 4, 5}
      <4>1. UNCHANGED files  BY <1>0, <3>5, Places DEF Tear
      <4> QED  BY <4>1
    <3> QED  BY <2>1, <3>1, <3>2, <3>3, <3>4, <3>5
  <2> QED  BY <1>0, <2>1, <2>2, FilesStay DEF IndexInvariant
<1>9. CASE UNCHANGED vars
  <2>1. Cluster' = Cluster  BY <1>9 DEF vars, Cluster
  <2>2. IndexNamesFiles'  BY <1>0, <1>9, FilesStay DEF vars
  <2> QED  BY <1>0, <1>9, <2>1, <2>2 DEF vars, IndexInvariant
<1> QED
  BY <1>1, <1>2, <1>3, <1>4, <1>5, <1>6, <1>7, <1>8, <1>9 DEF Next

\* The strengthened invariant of the index.
THEOREM IndexFollowsFiles == Spec => []IndexInvariant
BY StartsUnlisted, StepKeepsIndex, PTL DEF Spec

\* The index never sends a reader to a file that does not exist, wherever the
\* runs that wrote the directory were killed.
THEOREM IndexAlwaysNamesFiles == Spec => []IndexNamesFiles
<1>1. IndexInvariant => IndexNamesFiles  BY DEF IndexInvariant
<1> QED  BY <1>1, IndexFollowsFiles, PTL
-----------------------------------------------------------------------------
(* Clusters and their patterns.                                            *)

\* What Opened makes and Grown keeps: all the fields, an identifier that holds
\* the cluster's position, and distinct cases of this run that have files.
SoundCluster(cl, n) ==
  /\ cl = [label |-> cl.label, pattern_id |-> cl.pattern_id, cases |-> cl.cases,
           hops |-> cl.hops, texts |-> cl.texts, fingerprint |-> cl.fingerprint]
  /\ cl.pattern_id = <<cl.label, n - 1>>
  /\ cl.cases \in Seq(recorded \cap DOMAIN case_files)
  /\ \A i, j \in 1..Len(cl.cases) : cl.cases[i] = cl.cases[j] => i = j

Owns(cl) ==
  Len(cl.cases) >= threshold =>
    /\ cl.pattern_id \in DOMAIN patterns
    /\ patterns[cl.pattern_id].sources = cl.cases
    /\ patterns[cl.pattern_id].label = cl.label

Distilling == step \in {4, 5, 6}

\* The case being recorded is new to the clusters; a cluster whose pattern is
\* being written is the only one that may not own it yet.
ClusterInvariant ==
  /\ step \in 0..6
  /\ clusters \in Seq(ToSet(clusters))
  /\ \A n \in 1..Len(clusters) : SoundCluster(clusters[n], n)
  /\ \A n \in 1..Len(clusters) :
       Owns(clusters[n]) \/ (Distilling /\ current.cluster = n)
  /\ step \in {1, 2, 3} =>
       /\ current = [case |-> current.case, label |-> current.label,
                     hop |-> current.hop, cluster |-> current.cluster]
       /\ current.case \in recorded
       /\ \A n \in 1..Len(clusters) : current.case \notin ToSet(clusters[n].cases)
  /\ step \in {2, 3} => current.case \in DOMAIN case_files
  /\ Distilling =>
       /\ current.cluster \in 1..Len(clusters)
       /\ Len(Cluster.cases) >= threshold
  /\ PatternsAreEvidenced

LEMMA CountedOnce ==
  ASSUME NEW S, NEW s \in Seq(S),
         \A i, j \in 1..Len(s) : s[i] = s[j] => i = j
  PROVE  Cardinality(ToSet(s)) = Len(s)
<1>1. Len(s) \in Nat /\ DOMAIN s = 1..Len(s) /\ s \in [1..Len(s) -> S]
  BY LenProperties
<1>2. s \in [1..Len(s) -> ToSet(s)]  BY <1>1 DEF ToSet
<1>3. \A x \in ToSet(s) : \E i \in 1..Len(s) : s[i] = x  BY <1>1 DEF ToSet
<1>4. s \in Bijection(1..Len(s), ToSet(s))
  BY <1>1, <1>2, <1>3 DEF Bijection, Injection, Surjection, IsInjective
<1> QED  BY <1>1, <1>4, FS_CountingElements DEF ExistsBijection

\* More recorded cases and more files leave a cluster sound.
LEMMA ClusterStaysSound ==
  ASSUME NEW cl, NEW n, SoundCluster(cl, n),
         recorded \subseteq recorded', DOMAIN case_files \subseteq DOMAIN case_files'
  PROVE  SoundCluster(cl, n)'
<1>1. recorded \cap DOMAIN case_files \subseteq recorded' \cap DOMAIN case_files'
  OBVIOUS
<1>2. cl.cases \in Seq(recorded' \cap DOMAIN case_files')
  BY <1>1, SeqMonotonic DEF SoundCluster
<1> QED  BY <1>2 DEF SoundCluster

\* The patterns that are there keep their evidence when files are added.
LEMMA EvidenceStays ==
  ASSUME PatternsAreEvidenced, DOMAIN case_files \subseteq DOMAIN case_files',
         pattern_files' = pattern_files
  PROVE  PatternsAreEvidenced'
BY DEF PatternsAreEvidenced

\* A pattern that is torn, or has the evidence, joins the patterns.
LEMMA EvidenceGrows ==
  ASSUME PatternsAreEvidenced, UNCHANGED case_files, NEW id, NEW v,
         pattern_files' = Put(pattern_files, id, v),
         v # Torn =>
           /\ Cardinality(ToSet(v.sources)) >= threshold
           /\ ToSet(v.sources) \subseteq DOMAIN case_files
  PROVE  PatternsAreEvidenced'
<1> SUFFICES ASSUME NEW i \in DOMAIN pattern_files', pattern_files'[i] # Torn
             PROVE  /\ Cardinality(ToSet(pattern_files'[i].sources)) >= threshold
                    /\ ToSet(pattern_files'[i].sources) \subseteq DOMAIN case_files
  BY DEF PatternsAreEvidenced
<1>1. CASE i = id
  <2>1. pattern_files'[i] = v  BY <1>1 DEF Put
  <2> QED  BY <2>1
<1>2. CASE i # id
  <2>1. i \in DOMAIN pattern_files /\ pattern_files'[i] = pattern_files[i]
    BY <1>2 DEF Put
  <2> QED  BY <2>1 DEF PatternsAreEvidenced
<1> QED  BY <1>1, <1>2

LEMMA ClusterIsEvidence ==
  ASSUME ClusterInvariant, Distilling
  PROVE  /\ Cardinality(ToSet(Cluster.cases)) >= threshold
         /\ ToSet(Cluster.cases) \subseteq DOMAIN case_files
<1>1. SoundCluster(Cluster, current.cluster) /\ Len(Cluster.cases) >= threshold
  BY DEF ClusterInvariant, Cluster
<1>2. Cardinality(ToSet(Cluster.cases)) = Len(Cluster.cases)
  BY <1>1, CountedOnce DEF SoundCluster
<1>3. /\ DOMAIN Cluster.cases = 1..Len(Cluster.cases)
      /\ \A i \in 1..Len(Cluster.cases) : Cluster.cases[i] \in DOMAIN case_files
  BY <1>1, LenProperties, ElementOfSeq DEF SoundCluster
<1> QED  BY <1>1, <1>2, <1>3 DEF ToSet

\* At most one cluster matches: a later one would have to be strictly more similar.
LEMMA OneMatch ==
  ASSUME NEW label, NEW f, DOMAIN clusters = 1..Len(clusters), Len(clusters) \in Nat,
         Matching(label, f) # {}
  PROVE  \E n \in 1..Len(clusters) :
           Matching(label, f) = {n} /\ Min(Matching(label, f)) = n
<1> DEFINE Sim(n) == Similarity(clusters[n].fingerprint, f)
           same == {n \in DOMAIN clusters : clusters[n].label = label}
<1>1. PICK n \in Matching(label, f) : TRUE  OBVIOUS
<1>2. \A m \in Matching(label, f) : m \in same
  BY DEF Matching
<1>3. \A m \in Matching(label, f), k \in same :
        ~Exceeds(Sim(k), Sim(m)) /\ (k < m => Exceeds(Sim(m), Sim(k)))
  BY DEF Matching
<1> HIDE DEF Sim
<1>4. \A m \in Matching(label, f) : m = n
  <2> SUFFICES ASSUME NEW m \in Matching(label, f), m # n PROVE FALSE
    OBVIOUS
  <2>1. m \in same /\ n \in same  BY <1>1, <1>2
  <2>2. m < n \/ n < m  BY <2>1
  <2> QED  BY <1>1, <1>3, <2>1, <2>2
<1>5. Matching(label, f) = {n} /\ n \in 1..Len(clusters)  BY <1>1, <1>2, <1>4
<1>6. Min({n}) = n  BY <1>5 DEF Min
<1> QED  BY <1>5, <1>6

\* The case is added to the cluster's cases and to nothing that identifies it.
LEMMA GrowsSound ==
  ASSUME NEW cl, NEW n, NEW c, NEW hop, SoundCluster(cl, n),
         c \in recorded \cap DOMAIN case_files, c \notin ToSet(cl.cases)
  PROVE  /\ SoundCluster(Grown(cl, c, hop), n)
         /\ Grown(cl, c, hop).label = cl.label
<1> DEFINE g == Grown(cl, c, hop)
           words == cl.texts \o TextsOf[c]
<1>1. g = [label |-> cl.label, pattern_id |-> cl.pattern_id,
           cases |-> Append(cl.cases, c), hops |-> Append(cl.hops, hop),
           texts |-> words, fingerprint |-> Fingerprint(words)]
  <2>1. cl = [label |-> cl.label, pattern_id |-> cl.pattern_id, cases |-> cl.cases,
              hops |-> cl.hops, texts |-> cl.texts, fingerprint |-> cl.fingerprint]
    BY DEF SoundCluster
  <2>2. g = [cl EXCEPT !.cases = Append(cl.cases, c), !.hops = Append(cl.hops, hop),
                       !.texts = words, !.fingerprint = Fingerprint(words)]
    BY DEF Grown
  <2> HIDE DEF g, words
  <2> QED  BY <2>1, <2>2
<1> HIDE DEF g, words
<1>2. /\ g.label = cl.label /\ g.pattern_id = cl.pattern_id
      /\ g.cases = Append(cl.cases, c) /\ g.hops = Append(cl.hops, hop)
      /\ g.texts = words /\ g.fingerprint = Fingerprint(words)
  BY <1>1
<1>3. g = [label |-> g.label, pattern_id |-> g.pattern_id, cases |-> g.cases,
           hops |-> g.hops, texts |-> g.texts, fingerprint |-> g.fingerprint]
  BY <1>1, <1>2
<1>4. /\ cl.cases \in Seq(recorded \cap DOMAIN case_files)
      /\ Len(cl.cases) \in Nat /\ DOMAIN cl.cases = 1..Len(cl.cases)
  BY LenProperties DEF SoundCluster
<1>5. /\ g.cases \in Seq(recorded \cap DOMAIN case_files)
      /\ Len(g.cases) = Len(cl.cases) + 1
      /\ \A i \in 1..Len(cl.cases) : g.cases[i] = cl.cases[i]
      /\ g.cases[Len(cl.cases) + 1] = c
  BY <1>2, <1>4, AppendProperties
<1>6. \A i \in 1..Len(cl.cases) : cl.cases[i] # c  BY <1>4 DEF ToSet
<1>7. ASSUME NEW i \in 1..Len(g.cases), NEW j \in 1..Len(g.cases), g.cases[i] = g.cases[j]
      PROVE  i = j
  <2>1. i \in 1..Len(cl.cases) \/ i = Len(cl.cases) + 1  BY <1>4, <1>5, <1>7
  <2>2. j \in 1..Len(cl.cases) \/ j = Len(cl.cases) + 1  BY <1>4, <1>5, <1>7
  <2> QED  BY <1>5, <1>6, <1>7, <2>1, <2>2 DEF SoundCluster
<1>8. g.pattern_id = <<g.label, n - 1>>  BY <1>2 DEF SoundCluster
<1> QED  BY <1>2, <1>3, <1>5, <1>7, <1>8 DEF SoundCluster, g

LEMMA OpensSound ==
  ASSUME NEW label, NEW f, Len(clusters) \in Nat
  PROVE  /\ SoundCluster(Opened(label, f), Len(clusters) + 1)
         /\ ToSet(Opened(label, f).cases) = {}
         /\ Opened(label, f).label = label
BY EmptySeq DEF SoundCluster, Opened, PatternId, ToSet

LEMMA StartsUnclustered == Init => ClusterInvariant
<1> SUFFICES ASSUME Init PROVE ClusterInvariant
  OBVIOUS
<1>1. clusters = <<>> /\ step = 0 /\ DOMAIN pattern_files = {}  BY DEF Init
<1>2. clusters \in Seq(ToSet(clusters)) /\ Len(clusters) = 0  BY <1>1, EmptySeq
<1> QED  BY <1>1, <1>2 DEF ClusterInvariant, Distilling, PatternsAreEvidenced

\* Steps that leave the clusters and the patterns alone.
LEMMA ClustersStay ==
  ASSUME ClusterInvariant, UNCHANGED loop,
         recorded \subseteq recorded', DOMAIN case_files \subseteq DOMAIN case_files'
  PROVE  /\ clusters' \in Seq(ToSet(clusters'))
         /\ \A n \in 1..Len(clusters') : SoundCluster(clusters[n], n)'
         /\ \A n \in 1..Len(clusters') :
              Owns(clusters[n])' \/ (Distilling /\ current.cluster = n)
<1>1. clusters' = clusters /\ patterns' = patterns  BY DEF loop
<1>2. \A n \in 1..Len(clusters) : SoundCluster(clusters[n], n)
  BY DEF ClusterInvariant
<1>3. ASSUME NEW n \in 1..Len(clusters) PROVE SoundCluster(clusters[n], n)'
  <2> DEFINE cl == clusters[n]
  <2>1. SoundCluster(cl, n)  BY <1>2
  <2>2. cl' = cl  BY <1>1
  <2>3. /\ recorded \cap DOMAIN case_files \subseteq recorded' \cap DOMAIN case_files'
        /\ cl.cases \in Seq(recorded \cap DOMAIN case_files)
    BY <2>1 DEF SoundCluster
  <2>4. cl.cases \in Seq(recorded' \cap DOMAIN case_files')
    BY <2>3, SeqMonotonic
  <2> QED  BY <2>1, <2>2, <2>4 DEF SoundCluster
<1>4. \A n \in 1..Len(clusters) :
        Owns(clusters[n])' \/ (Distilling /\ current.cluster = n)
  BY <1>1 DEF ClusterInvariant, Owns
<1> QED  BY <1>1, <1>3, <1>4 DEF ClusterInvariant

\* The case joins its cluster or opens one: the others are as they were, and the
\* one that grows is either too small for a pattern or gets it next.
LEMMA AssignKeepsClusters ==
  ASSUME ClusterInvariant, AssignCluster
  PROVE  ClusterInvariant'
<1>1. /\ step = 3 /\ At("cluster")
      /\ UNCHANGED <<case_files, pattern_files, patterns, recorded>>
  BY Places DEF ClusterInvariant, AssignCluster, files
<1>0. PICK n, extended, cluster :
        /\ \/ /\ n = Len(clusters) + 1
              /\ extended = Append(clusters,
                                   Opened(current.label, Fingerprint(TextsOf[current.case])))
           \/ /\ Matching(current.label, Fingerprint(TextsOf[current.case])) # {}
              /\ n = Min(Matching(current.label, Fingerprint(TextsOf[current.case])))
              /\ extended = clusters
        /\ cluster = Grown(extended[n], current.case, current.hop)
        /\ clusters' = [extended EXCEPT ![n] = cluster]
        /\ IF Len(cluster.cases) < threshold
           THEN step' = 0 /\ current' = <<>>
           ELSE step' = 4 /\ current' = [current EXCEPT !.cluster = n]
  <2> DEFINE f == Fingerprint(TextsOf[current.case])
             found == Matching(current.label, f)
             n == IF found = {} THEN Len(clusters) + 1 ELSE Min(found)
             extended == IF found = {} THEN Append(clusters, Opened(current.label, f))
                         ELSE clusters
             cluster == Grown(extended[n], current.case, current.hop)
  <2>1. Advance => step' = 4
    BY <1>1, Places DEF ClusterInvariant, Advance
  <2>2. /\ clusters' = [extended EXCEPT ![n] = cluster]
        /\ IF Len(cluster.cases) < threshold
           THEN step' = 0 /\ current' = <<>>
           ELSE Advance /\ current' = [current EXCEPT !.cluster = n]
    BY DEF AssignCluster
  <2>3. \/ n = Len(clusters) + 1 /\ extended = Append(clusters, Opened(current.label, f))
        \/ found # {} /\ n = Min(found) /\ extended = clusters
    OBVIOUS
  <2>4. cluster = Grown(extended[n], current.case, current.hop)
    OBVIOUS
  <2> HIDE DEF n, extended, cluster
  <2> QED  BY <2>1, <2>2, <2>3, <2>4
<1>2. /\ clusters \in Seq(ToSet(clusters)) /\ Len(clusters) \in Nat
      /\ DOMAIN clusters = 1..Len(clusters)
      /\ \A m \in 1..Len(clusters) : SoundCluster(clusters[m], m) /\ Owns(clusters[m])
      /\ \A m \in 1..Len(clusters) : current.case \notin ToSet(clusters[m].cases)
      /\ current.case \in recorded \cap DOMAIN case_files
      /\ current = [case |-> current.case, label |-> current.label,
                    hop |-> current.hop, cluster |-> current.cluster]
  BY <1>1, LenProperties DEF ClusterInvariant, Distilling
<1>3. /\ n \in 1..Len(extended) /\ Len(extended) \in Nat
      /\ \E S : extended \in Seq(S)
      /\ SoundCluster(extended[n], n) /\ current.case \notin ToSet(extended[n].cases)
      /\ \A m \in 1..Len(extended) :
           m # n => m \in 1..Len(clusters) /\ extended[m] = clusters[m]
  <2>1. CASE /\ n = Len(clusters) + 1
             /\ extended = Append(clusters,
                                  Opened(current.label, Fingerprint(TextsOf[current.case])))
    <3> DEFINE new == Opened(current.label, Fingerprint(TextsOf[current.case]))
               S == ToSet(clusters) \cup {new}
    <3>1. SoundCluster(new, n) /\ ToSet(new.cases) = {}  BY <1>2, <2>1, OpensSound
    <3>2. clusters \in Seq(S) /\ new \in S /\ extended = Append(clusters, new)
      BY <1>2, <2>1, SeqMonotonic
    <3> HIDE DEF new
    <3>3. /\ extended \in Seq(S) /\ Len(extended) = Len(clusters) + 1
          /\ \A m \in 1..Len(clusters) : extended[m] = clusters[m]
          /\ extended[n] = new
      <4> HIDE DEF S
      <4> QED  BY <2>1, <3>2, AppendProperties
    <3> HIDE DEF S
    <3>4. \A m \in 1..Len(extended) : m # n => m \in 1..Len(clusters)
      BY <1>2, <2>1, <3>3
    <3> QED  BY <1>2, <2>1, <3>1, <3>3, <3>4
  <2>2. CASE /\ Matching(current.label, Fingerprint(TextsOf[current.case])) # {}
             /\ n = Min(Matching(current.label, Fingerprint(TextsOf[current.case])))
             /\ extended = clusters
    <3>1. n \in 1..Len(clusters)  BY <1>2, <2>2, OneMatch
    <3> QED  BY <1>2, <2>2, <3>1
  <2> QED  BY <1>0, <2>1, <2>2
<1>4. SoundCluster(cluster, n)  BY <1>0, <1>2, <1>3, GrowsSound
<1>5. /\ Len(clusters') = Len(extended)
      /\ clusters' \in Seq(ToSet(clusters'))
      /\ \A m \in 1..Len(clusters') :
           clusters'[m] = IF m = n THEN cluster ELSE clusters[m]
  <2>1. PICK S : extended \in Seq(S)  BY <1>3
  <2>2. extended \in Seq(S \cup {cluster})  BY <2>1, SeqMonotonic
  <2>3. /\ clusters' \in Seq(S \cup {cluster}) /\ Len(clusters') = Len(extended)
        /\ \A m \in 1..Len(extended) :
             clusters'[m] = IF m = n THEN cluster ELSE extended[m]
    BY <1>0, <1>3, <2>2, ExceptSeq
  <2>4. clusters' \in Seq(ToSet(clusters'))  BY <2>3, SeqOfItself
  <2> QED  BY <1>3, <2>3, <2>4
<1>6. ASSUME NEW m \in 1..Len(clusters') PROVE SoundCluster(clusters[m], m)'
  <2> DEFINE cl == clusters'[m]
  <2>1. SoundCluster(cl, m)  BY <1>2, <1>3, <1>4, <1>5
  <2> QED  BY <1>1, <2>1 DEF SoundCluster
<1>7. ASSUME NEW m \in 1..Len(clusters'), m # n PROVE Owns(clusters[m])'
  <2>1. m \in 1..Len(clusters) /\ clusters'[m] = clusters[m]
    BY <1>3, <1>5, <1>7
  <2> QED  BY <1>1, <1>2, <2>1 DEF Owns
<1>8. PatternsAreEvidenced'  BY <1>1, EvidenceStays DEF ClusterInvariant
<1>9. CASE Len(cluster.cases) < threshold
  <2>1. step' = 0  BY <1>0, <1>9
  <2>2. Len(cluster.cases) \in Nat
    BY <1>4, LenProperties DEF SoundCluster
  <2>3. clusters'[n] = cluster  BY <1>3, <1>5
  <2>4. Owns(clusters[n])'
    BY <1>9, <2>2, <2>3, FailureMemoryAssumption DEF Owns
  <2> QED  BY <1>5, <1>6, <1>7, <1>8, <2>1, <2>4 DEF ClusterInvariant, Distilling
<1>10. CASE ~(Len(cluster.cases) < threshold)
  <2>1. step' = 4 /\ current' = [current EXCEPT !.cluster = n]
    BY <1>0, <1>10
  <2>2. current'.cluster = n  BY <1>2, <2>1
  <2>3. Len(cluster.cases) \in Nat
    BY <1>4, LenProperties DEF SoundCluster
  <2>4. n \in 1..Len(clusters') /\ Cluster' = cluster
    BY <1>3, <1>5, <2>2 DEF Cluster
  <2>5. Len(Cluster'.cases) >= threshold
    BY <1>10, <2>3, <2>4, FailureMemoryAssumption
  <2> QED
    BY <1>5, <1>6, <1>7, <1>8, <2>1, <2>2, <2>4, <2>5 DEF ClusterInvariant, Distilling
<1> QED  BY <1>9, <1>10

\* The memory takes the pattern under an identifier no other cluster has.
LEMMA KeepKeepsClusters ==
  ASSUME ClusterInvariant, KeepPattern
  PROVE  ClusterInvariant'
<1>1. /\ step = 6 /\ step' = 0 /\ UNCHANGED <<files, clusters, recorded>>
      /\ patterns' = Put(patterns, Cluster.pattern_id, Record(Cluster))
  BY Places DEF ClusterInvariant, KeepPattern, Advance
<1>2. /\ clusters \in Seq(ToSet(clusters)) /\ Len(clusters) \in Nat
      /\ current.cluster \in 1..Len(clusters)
      /\ \A n \in 1..Len(clusters) :
           /\ clusters[n].pattern_id = <<clusters[n].label, n - 1>>
           /\ Owns(clusters[n]) \/ current.cluster = n
  BY <1>1, LenProperties DEF ClusterInvariant, Distilling, SoundCluster
<1>3. ASSUME NEW n \in 1..Len(clusters) PROVE Owns(clusters[n])'
  <2>1. CASE n = current.cluster
    <3>1. clusters[n] = Cluster  BY <2>1 DEF Cluster
    <3>2. /\ Cluster.pattern_id \in DOMAIN patterns'
          /\ patterns'[Cluster.pattern_id] = Record(Cluster)
      BY <1>1 DEF Put
    <3>3. Record(Cluster).sources = Cluster.cases /\ Record(Cluster).label = Cluster.label
      BY DEF Record
    <3> QED  BY <1>1, <3>1, <3>2, <3>3 DEF Owns
  <2>2. CASE n # current.cluster
    <3>1. clusters[n].pattern_id # Cluster.pattern_id
      BY <1>2, <2>2 DEF Cluster
    <3>2. Owns(clusters[n])  BY <1>2, <2>2
    <3>3. \A id \in DOMAIN patterns :
            id # Cluster.pattern_id => id \in DOMAIN patterns' /\ patterns'[id] = patterns[id]
      BY <1>1 DEF Put
    <3> QED  BY <1>1, <3>1, <3>2, <3>3 DEF Owns
  <2> QED  BY <2>1, <2>2
<1>4. \A n \in 1..Len(clusters) : SoundCluster(clusters[n], n)'
  BY <1>1 DEF ClusterInvariant, SoundCluster, files
<1>5. PatternsAreEvidenced'
  BY <1>1 DEF ClusterInvariant, PatternsAreEvidenced, files
<1> QED
  BY <1>1, <1>2, <1>3, <1>4, <1>5 DEF ClusterInvariant, Distilling

\* A case that is about to be recorded is in no cluster.
LEMMA RecoverKeepsClusters ==
  ASSUME ClusterInvariant, Recover
  PROVE  ClusterInvariant'
<1>1. PICK c \in Cases \ recorded :
        /\ recorded' = recorded \cup {c}
        /\ \E choice \in RepairsOf[c] :
             current' = [case |-> c, label |-> choice[1], hop |-> choice[2], cluster |-> 0]
  BY DEF Recover
<1>2. step = 0 /\ step' = 1 /\ UNCHANGED files /\ UNCHANGED loop  BY DEF Recover
<1>3. current'.case = c /\ current' = [case |-> current'.case, label |-> current'.label,
                     hop |-> current'.hop, cluster |-> current'.cluster]
  BY <1>1
<1>4. ASSUME NEW n \in 1..Len(clusters) PROVE c \notin ToSet(clusters[n].cases)
  <2>1. clusters[n].cases \in Seq(recorded \cap DOMAIN case_files)
    BY DEF ClusterInvariant, SoundCluster
  <2> QED  BY <1>1, <2>1, LenProperties, ElementOfSeq DEF ToSet
<1>5. PatternsAreEvidenced'
  BY <1>2, EvidenceStays DEF ClusterInvariant, files
<1> QED
  BY <1>1, <1>2, <1>3, <1>4, <1>5, ClustersStay DEF ClusterInvariant, Distilling, loop, files

LEMMA StepKeepsClusters == ClusterInvariant /\ [Next]_vars => ClusterInvariant'
<1> SUFFICES ASSUME ClusterInvariant, [Next]_vars PROVE ClusterInvariant'
  OBVIOUS
<1>0. step \in 0..6 /\ PatternsAreEvidenced  BY DEF ClusterInvariant
<1>1. CASE Recover  BY <1>1, RecoverKeepsClusters
<1>2. CASE WriteCase
  <2>1. /\ step = 1 /\ step' = 2 /\ UNCHANGED <<pattern_files, loop, recorded, current>>
        /\ case_files' = Put(case_files, current.case, CaseFile(current))
    BY <1>0, <1>2, Places DEF WriteCase, Advance
  <2>2. DOMAIN case_files' = DOMAIN case_files \cup {current.case}
    BY <2>1, PutDomain
  <2>3. PatternsAreEvidenced'  BY <1>0, <2>1, <2>2, EvidenceStays
  <2> QED  BY <2>1, <2>2, <2>3, ClustersStay DEF ClusterInvariant, Distilling, loop
<1>3. CASE ListCase
  <2>1. /\ step = 2 /\ step' = 3
        /\ UNCHANGED <<case_files, pattern_files, loop, recorded, current>>
    <3>1. step = 2  BY <1>0, <1>3, Places DEF ListCase
    <3> QED  BY <1>0, <1>3, <3>1, Places DEF ListCase, Advance
  <2>2. PatternsAreEvidenced'  BY <1>0, <2>1, EvidenceStays
  <2> QED  BY <2>1, <2>2, ClustersStay DEF ClusterInvariant, Distilling, loop
<1>4. CASE AssignCluster  BY <1>4, AssignKeepsClusters
<1>5. CASE WritePattern
  <2>1. /\ step = 4 /\ step' = 5 /\ UNCHANGED <<case_files, loop, recorded, current>>
        /\ pattern_files' = Put(pattern_files, Cluster.pattern_id, PatternFile(Cluster))
    BY <1>0, <1>5, Places DEF WritePattern, Advance
  <2>2. PatternFile(Cluster).sources = Cluster.cases  BY DEF PatternFile
  <2>3. PatternsAreEvidenced'
    BY <1>0, <2>1, <2>2, ClusterIsEvidence, EvidenceGrows DEF Distilling
  <2>4. Cluster' = Cluster  BY <2>1 DEF Cluster, loop
  <2> QED  BY <2>1, <2>3, <2>4, ClustersStay DEF ClusterInvariant, Distilling, loop
<1>6. CASE ListPattern
  <2>1. /\ step = 5 /\ step' = 6
        /\ UNCHANGED <<case_files, pattern_files, loop, recorded, current>>
    <3>1. step = 5  BY <1>0, <1>6, Places DEF ListPattern
    <3> QED  BY <1>0, <1>6, <3>1, Places DEF ListPattern, Advance
  <2>2. PatternsAreEvidenced'  BY <1>0, <2>1, EvidenceStays
  <2>3. Cluster' = Cluster  BY <2>1 DEF Cluster, loop
  <2> QED  BY <2>1, <2>2, <2>3, ClustersStay DEF ClusterInvariant, Distilling, loop
<1>7. CASE KeepPattern  BY <1>7, KeepKeepsClusters
<1>8. CASE RunAgain
  <2>1. /\ step' = 0 /\ clusters' = <<>>
        /\ Tear \/ UNCHANGED files
    BY <1>8 DEF RunAgain
  <2>2. PatternsAreEvidenced'
    <3>1. CASE UNCHANGED files
      BY <1>0, <3>1, EvidenceStays DEF files
    <3>2. CASE Tear /\ step = 1
      <4>1. /\ case_files' = Put(case_files, current.case, Torn)
            /\ UNCHANGED pattern_files
        BY <1>0, <3>2, Places DEF Tear
      <4>2. DOMAIN case_files' = DOMAIN case_files \cup {current.case}
        BY <4>1, PutDomain
      <4> QED  BY <1>0, <4>1, <4>2, EvidenceStays
    <3>3. CASE Tear /\ step = 4
      <4>1. /\ pattern_files' = Put(pattern_files, Cluster.pattern_id, Torn)
            /\ UNCHANGED case_files
        BY <1>0, <3>3, Places DEF Tear
      <4> QED  BY <1>0, <4>1, EvidenceGrows
    <3>4. CASE Tear /\ (step = 2 \/ step = 5)
      <4>1. UNCHANGED <<case_files, pattern_files>>
        BY <1>0, <3>4, Places DEF Tear
      <4> QED  BY <1>0, <4>1, EvidenceStays
    <3>5. CASE Tear /\ step \notin {1, 2, 4, 5}
      <4>1. UNCHANGED files  BY <1>0, <3>5, Places DEF Tear
      <4> QED  BY <1>0, <4>1, EvidenceStays DEF files
    <3> QED  BY <2>1, <3>1, <3>2, <3>3, <3>4, <3>5
  <2>3. clusters' \in Seq(ToSet(clusters')) /\ Len(clusters') = 0  BY <2>1, EmptySeq
  <2> QED  BY <2>1, <2>2, <2>3 DEF ClusterInvariant, Distilling
<1>9. CASE UNCHANGED vars
  <2>1. UNCHANGED <<case_files, pattern_files, loop, recorded, current, step>>
    BY <1>9 DEF vars, files
  <2>2. PatternsAreEvidenced'  BY <1>0, <2>1, EvidenceStays
  <2>3. Cluster' = Cluster  BY <2>1 DEF Cluster, loop
  <2> QED  BY <2>1, <2>2, <2>3, ClustersStay DEF ClusterInvariant, Distilling, loop
<1> QED
  BY <1>1, <1>2, <1>3, <1>4, <1>5, <1>6, <1>7, <1>8, <1>9 DEF Next

\* The strengthened invariant of the clusters.
THEOREM ClustersStaySound == Spec => []ClusterInvariant
BY StartsUnclustered, StepKeepsClusters, PTL DEF Spec

\* Whatever cases recover, in whatever order and with whatever overlap, a cluster
\* that is large enough has the pattern made of its own cases.
THEOREM ClustersAlwaysOwnTheirPatterns == Spec => []ClustersOwnTheirPatterns
<1>1. ClusterInvariant => ClustersOwnTheirPatterns
  <2> SUFFICES ASSUME ClusterInvariant, step = 0,
                      NEW n \in DOMAIN clusters, Len(clusters[n].cases) >= threshold
               PROVE  /\ clusters[n].pattern_id \in DOMAIN patterns
                      /\ patterns[clusters[n].pattern_id].sources = clusters[n].cases
                      /\ patterns[clusters[n].pattern_id].label = clusters[n].label
    BY DEF ClustersOwnTheirPatterns
  <2>1. n \in 1..Len(clusters)  BY LenProperties DEF ClusterInvariant
  <2> QED  BY <2>1 DEF ClusterInvariant, Distilling, Owns
<1> QED  BY <1>1, ClustersStaySound, PTL

\* A pattern that can be read rests on threshold cases that have files, whichever
\* run wrote it and wherever the runs were killed.
THEOREM PatternsAlwaysEvidenced == Spec => []PatternsAreEvidenced
<1>1. ClusterInvariant => PatternsAreEvidenced  BY DEF ClusterInvariant
<1> QED  BY <1>1, ClustersStaySound, PTL
-----------------------------------------------------------------------------
(* Memory and files.                                                       *)

SeedAgrees(id) ==
  /\ id \in DOMAIN pattern_files /\ pattern_files[id] # Torn
  /\ Reloaded(pattern_files[id]) = patterns[id]

\* Until the memory takes a pattern, its file alone holds the new one.
ReloadInvariant ==
  /\ step \in 0..6
  /\ \A id \in DOMAIN patterns :
       SeedAgrees(id) \/ (step \in {5, 6} /\ id = Cluster.pattern_id)
  /\ step \in {5, 6} =>
       /\ Cluster.pattern_id \in DOMAIN pattern_files
       /\ pattern_files[Cluster.pattern_id] = PatternFile(Cluster)

\* The file and the memory take the hop from two votes that count the same hops.
LEMMA FileHoldsTheRecord ==
  ASSUME NEW cl
  PROVE  PatternFile(cl) # Torn /\ Reloaded(PatternFile(cl)) = Record(cl)
<1>1. DOMAIN PatternFile(cl) = {"label", "sources", "operator_hop", "signature"}
  BY DEF PatternFile
<1>2. "label" \notin DOMAIN Torn  BY DEF Torn
<1>3. /\ PatternFile(cl).label = cl.label /\ PatternFile(cl).sources = cl.cases
      /\ PatternFile(cl).operator_hop = HopIndex(cl)
      /\ PatternFile(cl).signature = cl.fingerprint
  BY DEF PatternFile, OperatorHop, HopIndex
<1>4. Reloaded(PatternFile(cl)) = Record(cl)
  BY <1>3 DEF Reloaded, Record
<1> QED  BY <1>1, <1>2, <1>4

LEMMA ReloadStays ==
  ASSUME ReloadInvariant, UNCHANGED <<pattern_files, patterns>>, step' \in 0..6,
         \/ step \notin {5, 6} /\ step' \notin {5, 6}
         \/ UNCHANGED <<current, clusters>> /\ step \in {5, 6} /\ step' \in {5, 6}
  PROVE  ReloadInvariant'
<1>1. \A id \in DOMAIN patterns : SeedAgrees(id) => SeedAgrees(id)'
  BY DEF SeedAgrees
<1>2. CASE step \notin {5, 6} /\ step' \notin {5, 6}
  BY <1>1, <1>2 DEF ReloadInvariant
<1>3. CASE UNCHANGED <<current, clusters>> /\ step \in {5, 6} /\ step' \in {5, 6}
  <2>1. Cluster' = Cluster  BY <1>3 DEF Cluster
  <2> QED  BY <1>1, <1>3, <2>1 DEF ReloadInvariant, PatternFile, OperatorHop
<1> QED  BY <1>2, <1>3

LEMMA StartsAgreeing == Init => ReloadInvariant
BY DEF Init, ReloadInvariant

LEMMA StepKeepsReload == ReloadInvariant /\ [Next]_vars => ReloadInvariant'
<1> SUFFICES ASSUME ReloadInvariant, [Next]_vars PROVE ReloadInvariant'
  OBVIOUS
<1>0. step \in 0..6  BY DEF ReloadInvariant
<1>1. CASE Recover
  <2>1. step = 0 /\ step' = 1 /\ UNCHANGED <<pattern_files, patterns>>
    BY <1>1 DEF Recover, files, loop
  <2> QED  BY <2>1, ReloadStays
<1>2. CASE WriteCase
  <2>1. step = 1 /\ step' = 2 /\ UNCHANGED <<pattern_files, patterns>>
    BY <1>0, <1>2, Places DEF WriteCase, Advance, loop
  <2> QED  BY <2>1, ReloadStays
<1>3. CASE ListCase
  <2>1. step = 2 /\ UNCHANGED <<pattern_files, patterns>>
    BY <1>0, <1>3, Places DEF ListCase, loop
  <2>2. step' = 3  BY <1>0, <1>3, <2>1, Places DEF ListCase, Advance
  <2> QED  BY <2>1, <2>2, ReloadStays
<1>4. CASE AssignCluster
  <2>1. step = 3 /\ step' \in {0, 4} /\ UNCHANGED <<pattern_files, patterns>>
    BY <1>0, <1>4, Places DEF AssignCluster, Advance, files
  <2> QED  BY <2>1, ReloadStays
<1>5. CASE WritePattern
  <2>1. /\ step = 4 /\ step' = 5 /\ UNCHANGED <<patterns, clusters, current>>
        /\ pattern_files' = Put(pattern_files, Cluster.pattern_id, PatternFile(Cluster))
    BY <1>0, <1>5, Places DEF WritePattern, Advance, loop
  <2>2. Cluster' = Cluster  BY <2>1 DEF Cluster
  <2>3. /\ pattern_files'[Cluster.pattern_id] = PatternFile(Cluster)
        /\ Cluster.pattern_id \in DOMAIN pattern_files'
        /\ \A id \in DOMAIN pattern_files : id \in DOMAIN pattern_files'
        /\ \A id \in DOMAIN pattern_files :
              id # Cluster.pattern_id => pattern_files'[id] = pattern_files[id]
    BY <2>1 DEF Put
  <2>4. ASSUME NEW id \in DOMAIN patterns', id # Cluster'.pattern_id PROVE SeedAgrees(id)'
    <3>1. SeedAgrees(id)  BY <2>1, <2>2, <2>4 DEF ReloadInvariant
    <3> QED  BY <2>1, <2>2, <2>3, <2>4, <3>1 DEF SeedAgrees
  <2>5. PatternFile(Cluster)' = PatternFile(Cluster)
    BY <2>2 DEF PatternFile, OperatorHop
  <2> QED  BY <2>1, <2>2, <2>3, <2>4, <2>5 DEF ReloadInvariant
<1>6. CASE ListPattern
  <2>1. step = 5 /\ UNCHANGED <<pattern_files, patterns, clusters, current>>
    BY <1>0, <1>6, Places DEF ListPattern, loop
  <2>2. step' = 6  BY <1>0, <1>6, <2>1, Places DEF ListPattern, Advance
  <2> QED  BY <2>1, <2>2, ReloadStays
<1>7. CASE KeepPattern
  <2>1. /\ step = 6 /\ step' = 0 /\ UNCHANGED pattern_files
        /\ patterns' = Put(patterns, Cluster.pattern_id, Record(Cluster))
    BY <1>0, <1>7, Places DEF KeepPattern, Advance, files
  <2>2. /\ Cluster.pattern_id \in DOMAIN pattern_files
        /\ pattern_files[Cluster.pattern_id] = PatternFile(Cluster)
    BY <2>1 DEF ReloadInvariant
  <2>3. ASSUME NEW id \in DOMAIN patterns' PROVE SeedAgrees(id)'
    <3>1. CASE id = Cluster.pattern_id
      <4>1. patterns'[id] = Record(Cluster)  BY <2>1, <3>1 DEF Put
      <4> QED  BY <2>1, <2>2, <3>1, <4>1, FileHoldsTheRecord DEF SeedAgrees
    <3>2. CASE id # Cluster.pattern_id
      <4>1. id \in DOMAIN patterns /\ patterns'[id] = patterns[id]
        BY <2>1, <2>3, <3>2 DEF Put
      <4>2. SeedAgrees(id)  BY <3>2, <4>1 DEF ReloadInvariant
      <4> QED  BY <2>1, <4>1, <4>2 DEF SeedAgrees
    <3> QED  BY <3>1, <3>2
  <2> QED  BY <2>1, <2>3 DEF ReloadInvariant
<1>8. CASE RunAgain
  <2>1. step' = 0 /\ patterns' = <<>>  BY <1>8 DEF RunAgain
  <2>2. DOMAIN patterns' = {}  BY <2>1
  <2> QED  BY <2>1, <2>2 DEF ReloadInvariant
<1>9. CASE UNCHANGED vars
  BY <1>0, <1>9, ReloadStays DEF vars, files, loop
<1> QED
  BY <1>1, <1>2, <1>3, <1>4, <1>5, <1>6, <1>7, <1>8, <1>9 DEF Next

\* Whatever was recorded, and wherever earlier runs were killed or tore a file, a
\* cold loop reads the patterns that the running one works with.
THEOREM ReloadAgrees == Spec => []ReloadGivesTheSameSeeds
<1>1. ReloadInvariant => ReloadGivesTheSameSeeds
  BY DEF ReloadInvariant, ReloadGivesTheSameSeeds, SeedAgrees
<1> QED  BY <1>1, StartsAgreeing, StepKeepsReload, PTL DEF Spec
-----------------------------------------------------------------------------
(* The programs that write the memory.                                     *)

LEMMA FingerprintsAreFinite ==
  ASSUME NEW c \in Cases
  PROVE  IsFiniteSet(Fingerprint(TextsOf[c]))
<1>1. TextsOf[c] \in Seq(ToSet(TextsOf[c]))  BY FailureMemoryAssumption
<1>2. IsFiniteSet(ToSet(TextsOf[c]))  BY <1>1, FiniteContents
<1>3. Fingerprint(TextsOf[c]) \subseteq ToSet(TextsOf[c])
  BY DEF Fingerprint, MostFrequent
<1> QED  BY <1>2, <1>3, FS_Subset

Repairs == UNION {RepairsOf[c] : c \in Cases}

Priors == [case : Cases, key : {RecordKey(c) : c \in Cases}, repair : Repairs]

\* The experiment has a latest case only while it runs, and its step records are
\* those of recovered cases.
AbstractionInvariant ==
  /\ program \in Programs
  /\ priors \in Seq(Priors)
  /\ IsFiniteSet(DOMAIN patterns)
  /\ latest.case # <<>> => program = "experiment"
  /\ RecoveryIsWhatWasMeasured

LEMMA StoreSeedsAreRepairs ==
  ASSUME AbstractionInvariant, NEW c \in Cases
  PROVE  StoreSeeds(c) \in Seq(Repairs)
<1> DEFINE keys == [i \in DOMAIN priors |-> priors[i].key]
           near == Neighbours(c)
           found == [i \in DOMAIN near |-> priors[near[i]].repair]
<1>1. /\ Len(priors) \in Nat /\ DOMAIN priors = 1..Len(priors)
      /\ \A i \in 1..Len(priors) : priors[i] \in Priors
  BY LenProperties DEF AbstractionInvariant
<1>2. \A i \in 1..Len(priors) : IsFiniteSet(keys[i])
  BY <1>1, SkillAbstractionAssumption DEF Priors, RecordKey
<1>3. DOMAIN keys = 1..Len(priors)  BY <1>1
<1>4. neighbors \in Nat /\ topk \in Nat  BY SkillAbstractionAssumption
<1>5. near = MostSimilar(keys, Fingerprint(TextsOf[c]), neighbors)  BY DEF Neighbours
<1> HIDE DEF keys, near
<1>6. near \in Seq({i \in 1..Len(priors) : Related(keys[i], Fingerprint(TextsOf[c]))})
  BY <1>1, <1>2, <1>3, <1>4, <1>5, FingerprintsAreFinite, SimilarPlaces
<1>7. /\ Len(near) \in Nat /\ DOMAIN near = 1..Len(near)
      /\ \A i \in 1..Len(near) : near[i] \in 1..Len(priors)
  BY <1>6, LenProperties
<1>8. \A i \in 1..Len(near) : priors[near[i]].repair \in Repairs
  BY <1>1, <1>7 DEF Priors
<1>9. found \in Seq(Repairs)
  <2>1. found \in [1..Len(near) -> Repairs]  BY <1>7, <1>8
  <2> QED  BY <1>7, <2>1, SeqDef
<1>10. StoreSeeds(c) = FirstDistinct(found, topk)  BY DEF StoreSeeds, near
<1> HIDE DEF found
<1> QED  BY <1>4, <1>9, <1>10, FirstDistinctIsOf

LEMMA PatternSeedsAreLists ==
  ASSUME AbstractionInvariant, NEW c, NEW pairs \in PatternSeeds(c)
  PROVE  \E S : pairs \in Seq(S)
<1> DEFINE similar == {id \in DOMAIN patterns :
                         Similarity(patterns[id].signature, Fingerprint(TextsOf[c]))[1] > 0}
           Listed(s) == [i \in DOMAIN s |-> <<patterns[s[i]].label, patterns[s[i]].hop_index>>]
<1>1. PICK s \in SetToSeqs(similar) : pairs = FirstDistinct(Listed(s), topk)
  BY DEF PatternSeeds
<1>2. Cardinality(similar) \in Nat
  <2>1. IsFiniteSet(similar)  BY FS_Subset DEF AbstractionInvariant
  <2> QED  BY <2>1, FS_CardinalityType
<1>3. DOMAIN s = 1..Cardinality(similar)
  <2> HIDE DEF similar
  <2> QED  BY <1>1 DEF SetToSeqs
<1> DEFINE n == Cardinality(similar)
           S == {<<patterns[s[i]].label, patterns[s[i]].hop_index>> : i \in 1..n}
<1> HIDE DEF n
<1>4. Listed(s) \in [1..n -> S]  BY <1>3 DEF n
<1>5. Listed(s) \in Seq(S)
  <2>1. n \in Nat  BY <1>2 DEF n
  <2> HIDE DEF Listed, S
  <2> QED  BY <1>4, <2>1, SeqDef
<1> HIDE DEF Listed, S
<1>6. pairs \in Seq(S)  BY <1>1, <1>5, FirstDistinctIsOf, SkillAbstractionAssumption
<1> QED  BY <1>6

\* A seed is a legal repair of the case that it is tried on.
LEMMA SeedsAreLegal ==
  ASSUME AbstractionInvariant, NEW c \in Cases, NEW seeds \in Seeds(c)
  PROVE  seeds \in Seq(RepairsOf[c])
<1>1. PICK pairs \in PatternSeeds(c) :
        seeds = LegalChoices(c, FirstDistinct(pairs \o StoreSeeds(c), topk))
  BY DEF Seeds
<1>2. PICK S : pairs \in Seq(S)  BY PatternSeedsAreLists
<1> DEFINE T == S \cup Repairs
           merged == FirstDistinct(pairs \o StoreSeeds(c), topk)
<1>3. pairs \in Seq(T)  BY <1>2, SeqMonotonic
<1>4. StoreSeeds(c) \in Seq(T)  BY StoreSeedsAreRepairs, SeqMonotonic
<1> HIDE DEF T
<1>5. pairs \o StoreSeeds(c) \in Seq(T)  BY <1>3, <1>4, ConcatProperties
<1>6. merged \in Seq(T)  BY <1>5, FirstDistinctIsOf, SkillAbstractionAssumption
<1> HIDE DEF merged
<1>7. LegalChoices(c, merged) \in Seq(RepairsOf[c])
  BY <1>6, MembersPicked DEF LegalChoices
<1> QED  BY <1>1, <1>7 DEF merged

\* A seed stage measures a gain per seed it tried; only its last may recover.
LEMMA SeedStage ==
  ASSUME NEW S, NEW seeds \in Seq(S), NEW g \in SeedGains(seeds)
  PROVE  /\ g \in Seq(Gains) /\ Len(g) \in Nat /\ DOMAIN g = 1..Len(g) /\ Len(g) <= Len(seeds)
         /\ EndsRecovered(g) => /\ Len(g) \in 1..Len(seeds)
                                /\ Winners(seeds, g) = {seeds[Len(g)]}
<1>1. PICK m \in 0..Len(seeds) : g \in [1..m -> Gains]
  BY DEF SeedGains, BoundedSeq, SeqOf
<1>2. Len(seeds) \in Nat  BY LenProperties
<1>3. m \in Nat /\ m <= Len(seeds) /\ g \in Seq(Gains)  BY <1>1, <1>2, SeqDef
<1>4. Len(g) = m /\ DOMAIN g = 1..m
  <2>1. Len(g) \in Nat /\ DOMAIN g = 1..Len(g)  BY <1>3, LenProperties
  <2>2. DOMAIN g = 1..m  BY <1>1
  <2>3. 1..Len(g) = 1..m  BY <2>1, <2>2
  <2>4. Len(g) = m
    <3> DEFINE n == Len(g)
    <3>1. n \in Nat /\ 1..n = 1..m  BY <2>1, <2>3
    <3> HIDE DEF n
    <3>2. \A i \in Int : (1 <= i /\ i <= n) <=> (1 <= i /\ i <= m)  BY <1>3, <3>1
    <3>3. n = m  BY <1>3, <3>1, <3>2
    <3> QED  BY <3>3 DEF n
  <2> QED  BY <2>2, <2>4
<1>5. ASSUME EndsRecovered(g)
      PROVE  Len(g) \in 1..Len(seeds) /\ Winners(seeds, g) = {seeds[Len(g)]}
  <2>1. g # <<>> /\ Recovers(g[Len(g)])  BY <1>5 DEF EndsRecovered, Last
  <2>2. m # 0  BY <1>3, <1>4, <2>1, EmptySeq
  <2>3. \A i \in DOMAIN g : Recovers(g[i]) => i = Len(g)  BY DEF SeedGains
  <2>4. {k \in DOMAIN g : Recovers(g[k])} = {Len(g)}
    BY <1>3, <1>4, <2>1, <2>2, <2>3
  <2> QED  BY <1>3, <1>4, <2>2, <2>4 DEF Winners
<1> QED  BY <1>3, <1>4, <1>5

LEMMA BestGainIsMeasured ==
  ASSUME NEW g \in Seq(Gains)
  PROVE  BestGain(g) \in Int \cup {Late}
<1> DEFINE measured == ToSet(g) \ {Late}
<1>1. IsFiniteSet(ToSet(g)) /\ ToSet(g) \subseteq Gains  BY FiniteContents
<1>2. IsFiniteSet(measured) /\ measured \subseteq Int
  BY <1>1, FS_Subset, SkillAbstractionAssumption
<1>3. BestGain(g) = IF g = <<>> THEN 0 ELSE IF measured = {} THEN Late ELSE Max(measured)
  BY DEF BestGain
<1> HIDE DEF measured
<1>4. measured # {} => Max(measured) \in Int
  BY <1>2, MaxOfFinite
<1> QED  BY <1>3, <1>4

\* The larger of two gains recovers the case if one of them does.
LEMMA NetGainRecovers ==
  ASSUME NEW g \in Seq(Gains), NEW gain \in Gains, Recovers(gain)
  PROVE  Recovers(NetGain(BestGain(g), gain))
<1>1. BestGain(g) \in Int \cup {Late}  BY BestGainIsMeasured
<1>2. gain \in Int /\ gain # Late /\ gain > recovered_threshold
  BY SkillAbstractionAssumption DEF Recovers, Greater
<1>3. recovered_threshold \in Int /\ Late \notin Int  BY SkillAbstractionAssumption
<1> DEFINE best == BestGain(g)
<1> HIDE DEF best
<1>4. best \in Int \cup {Late}  BY <1>1 DEF best
<1>5. CASE best = Late \/ gain > best
  <2>1. NetGain(best, gain) = gain  BY <1>2, <1>5 DEF NetGain
  <2> QED  BY <2>1 DEF best
<1>6. CASE ~(best = Late \/ gain > best)
  <2>1. NetGain(best, gain) = best  BY <1>6 DEF NetGain
  <2>2. best \in Int /\ best > recovered_threshold  BY <1>2, <1>3, <1>4, <1>6
  <2> QED  BY <1>3, <2>1, <2>2 DEF best, Recovers, Greater
<1> QED  BY <1>5, <1>6

LEMMA StartsUnwritten == InitAll => AbstractionInvariant
<1> SUFFICES ASSUME InitAll PROVE AbstractionInvariant
  OBVIOUS
<1>1. /\ program \in Programs /\ priors = <<>> /\ patterns = <<>> /\ latest = Nothing
  BY DEF InitAll, Init
<1>2. DOMAIN patterns = {} /\ priors \in Seq(Priors)  BY <1>1, EmptySeq
<1>3. latest.case = <<>>  BY <1>1 DEF Nothing
<1> QED  BY <1>1, <1>2, <1>3, FS_EmptySet DEF AbstractionInvariant, RecoveryIsWhatWasMeasured

\* A case that is passed over is not recorded, and no rollout recovered it.
LEMMA PassOverKeeps ==
  ASSUME AbstractionInvariant, NEW c \in Cases, Visit(c), PassOver(c, {})
  PROVE  AbstractionInvariant' /\ UNCHANGED vars
<1>1. /\ program = "experiment" /\ c \notin recorded
      /\ latest' = [case |-> c, won |-> {}]
      /\ UNCHANGED <<vars, program, priors>>
  BY DEF Visit, PassOver
<1>2. recorded' = recorded /\ patterns' = patterns  BY <1>1 DEF vars, loop
<1>3. latest'.case = c /\ latest'.won = {}  BY <1>1
<1>4. RecoveryIsWhatWasMeasured'  BY <1>1, <1>2, <1>3 DEF RecoveryIsWhatWasMeasured
<1> QED  BY <1>1, <1>2, <1>4 DEF AbstractionInvariant

\* The case is recorded with a legal repair, the only one that recovered it.
LEMMA RecordKeeps ==
  ASSUME AbstractionInvariant, NEW c \in Cases, Visit(c), NEW repair \in RepairsOf[c],
         RecordRecovery(c, repair, {repair})
  PROVE  AbstractionInvariant' /\ Recover
<1> DEFINE prior == [case |-> c, key |-> RecordKey(c), repair |-> repair]
<1>1. /\ program = "experiment" /\ step = 0 /\ c \in Cases \ recorded
      /\ recorded' = recorded \cup {c} /\ latest' = [case |-> c, won |-> {repair}]
      /\ priors' = Append(priors, prior)
      /\ UNCHANGED <<files, loop, runs, program, passed>>
  BY DEF Visit, RecordRecovery
<1>2. Recover  BY <1>1 DEF Recover, RecordRecovery
<1>3. prior \in Priors  BY DEF Priors, Repairs
<1>4. priors \in Seq(Priors)  BY DEF AbstractionInvariant
<1> HIDE DEF prior
<1>5. /\ priors' \in Seq(Priors) /\ Len(priors') = Len(priors) + 1
      /\ priors'[Len(priors) + 1] = prior
  BY <1>1, <1>3, <1>4, AppendProperties
<1>6. Last(priors') = prior  BY <1>5 DEF Last
<1>7. Last(priors').repair = repair  BY <1>6 DEF prior
<1>8. latest'.case = c /\ latest'.won = {repair}  BY <1>1
<1>9. RecoveryIsWhatWasMeasured'
  BY <1>1, <1>7, <1>8 DEF RecoveryIsWhatWasMeasured
<1>10. patterns' = patterns  BY <1>1 DEF loop
<1> QED  BY <1>1, <1>2, <1>5, <1>9, <1>10 DEF AbstractionInvariant

LEMMA SeedStep ==
  ASSUME AbstractionInvariant, NEW c \in Cases, SeedRecovers(c)
  PROVE  AbstractionInvariant' /\ Recover
<1>1. PICK seeds \in Seeds(c) : \E g \in SeedGains(seeds) :
        EndsRecovered(g) /\ RecordRecovery(c, seeds[Len(g)], Winners(seeds, g))
  BY DEF SeedRecovers
<1>2. PICK g \in SeedGains(seeds) :
        EndsRecovered(g) /\ RecordRecovery(c, seeds[Len(g)], Winners(seeds, g))
  BY <1>1
<1>3. seeds \in Seq(RepairsOf[c])  BY SeedsAreLegal
<1>4. Len(g) \in 1..Len(seeds) /\ Winners(seeds, g) = {seeds[Len(g)]}
  BY <1>2, <1>3, SeedStage
<1>5. seeds[Len(g)] \in RepairsOf[c]  BY <1>3, <1>4, ElementOfSeq
<1> QED  BY <1>2, <1>4, <1>5, RecordKeeps DEF SeedRecovers

LEMMA FallbackStep ==
  ASSUME AbstractionInvariant, NEW c \in Cases, Fallback(c)
  PROVE  AbstractionInvariant' /\ (Recover \/ UNCHANGED vars)
<1>1. Visit(c)  BY DEF Fallback
<1> DEFINE Outcome(g, credits) ==
             IF Culprit(c, credits) = {} THEN PassOver(c, {})
             ELSE \E a \in Culprit(c, credits), gain \in Gains :
                    IF Recovers(gain) /\ Recovers(NetGain(BestGain(g), gain))
                    THEN RecordRecovery(c, <<a, 1>>, Winners(<<<<a, 1>>>>, <<gain>>))
                    ELSE PassOver(c, Winners(<<<<a, 1>>>>, <<gain>>))
<1>2. PICK seeds \in Seeds(c) : \E g \in SeedGains(seeds) :
        \E credits \in [{r[1] : r \in RepairsOf[c]} -> Gains] : Outcome(g, credits)
  BY DEF Fallback
<1>3. PICK g \in SeedGains(seeds) :
        \E credits \in [{r[1] : r \in RepairsOf[c]} -> Gains] : Outcome(g, credits)
  BY <1>2
<1>4. PICK credits \in [{r[1] : r \in RepairsOf[c]} -> Gains] : Outcome(g, credits)
  BY <1>3
<1>5. CASE Culprit(c, credits) = {}
  BY <1>1, <1>4, <1>5, PassOverKeeps
<1>6. CASE Culprit(c, credits) # {}
  <2>1. PICK a \in Culprit(c, credits), gain \in Gains :
          IF Recovers(gain) /\ Recovers(NetGain(BestGain(g), gain))
          THEN RecordRecovery(c, <<a, 1>>, Winners(<<<<a, 1>>>>, <<gain>>))
          ELSE PassOver(c, Winners(<<<<a, 1>>>>, <<gain>>))
    BY <1>4, <1>6
  <2>2. <<a, 1>> \in RepairsOf[c]
    <3>1. a \in {r[1] : r \in RepairsOf[c]}  BY DEF Culprit
    <3> QED  BY <3>1, SkillAbstractionAssumption
  <2>3. seeds \in Seq(RepairsOf[c])  BY SeedsAreLegal
  <2>4. g \in Seq(Gains)  BY <2>3, SeedStage
  <2>5. Winners(<<<<a, 1>>>>, <<gain>>) = IF Recovers(gain) THEN {<<a, 1>>} ELSE {}
    BY DEF Winners
  <2>6. CASE Recovers(gain)
    <3>1. Recovers(NetGain(BestGain(g), gain))  BY <2>4, <2>6, NetGainRecovers
    <3> QED  BY <1>1, <2>1, <2>2, <2>5, <2>6, <3>1, RecordKeeps
  <2>7. CASE ~Recovers(gain)
    BY <1>1, <2>1, <2>5, <2>7, PassOverKeeps
  <2> QED  BY <2>6, <2>7
<1> QED  BY <1>5, <1>6

\* Steps that leave the experiment alone, and its records of cases.
LEMMA RecordsStay ==
  ASSUME AbstractionInvariant, UNCHANGED <<program, priors, latest>>, IsFiniteSet(DOMAIN patterns'),
         program = "builder" \/ recorded' = recorded
  PROVE  AbstractionInvariant'
<1>1. RecoveryIsWhatWasMeasured'
  BY DEF AbstractionInvariant, RecoveryIsWhatWasMeasured
<1> QED  BY <1>1 DEF AbstractionInvariant

\* A step of either program is a step of a writer of the failure memory, or none.
LEMMA StepOfAWriter ==
  AbstractionInvariant /\ [NextAll]_allVars => AbstractionInvariant' /\ [Next]_vars
<1> SUFFICES ASSUME AbstractionInvariant, [NextAll]_allVars
             PROVE  AbstractionInvariant' /\ [Next]_vars
  OBVIOUS
<1>0. IsFiniteSet(DOMAIN patterns)  BY DEF AbstractionInvariant
<1>1. ASSUME NEW c \in Cases, ExcludeCase(c) PROVE AbstractionInvariant' /\ [Next]_vars
  BY <1>1, PassOverKeeps DEF ExcludeCase
<1>2. ASSUME NEW c \in Cases, SeedRecovers(c) PROVE AbstractionInvariant' /\ [Next]_vars
  BY <1>2, SeedStep DEF Next
<1>3. ASSUME NEW c \in Cases, Fallback(c) PROVE AbstractionInvariant' /\ [Next]_vars
  BY <1>3, FallbackStep DEF Next
<1>4. CASE Replay
  <2>1. /\ program = "builder" /\ Recover /\ UNCHANGED <<program, priors, latest>>
        /\ patterns' = patterns
    BY <1>4 DEF Replay, experiment, Recover, loop
  <2> QED  BY <1>0, <2>1, RecordsStay DEF Next
<1>5. CASE Recording
  <2>1. UNCHANGED <<program, priors, latest>>  BY <1>5 DEF Recording, experiment
  <2>2. Next  BY <1>5 DEF Recording, Next
  <2>3. recorded' = recorded
    BY <1>5 DEF Recording, WriteCase, ListCase, AssignCluster, WritePattern, ListPattern,
                KeepPattern
  <2>4. IsFiniteSet(DOMAIN patterns')
    <3>1. CASE KeepPattern
      <4>1. patterns' = Put(patterns, Cluster.pattern_id, Record(Cluster))
        BY <3>1 DEF KeepPattern
      <4>2. DOMAIN patterns' = DOMAIN patterns \cup {Cluster.pattern_id}
        BY <4>1, PutDomain
      <4>3. IsFiniteSet({Cluster.pattern_id})  BY FS_Singleton
      <4> QED  BY <1>0, <4>2, <4>3, FS_Union
    <3>2. CASE ~KeepPattern
      <4>1. patterns' = patterns
        BY <1>5, <3>2 DEF Recording, WriteCase, ListCase, AssignCluster, WritePattern,
                          ListPattern, loop
      <4> QED  BY <1>0, <4>1
    <3> QED  BY <3>1, <3>2
  <2> QED  BY <2>1, <2>2, <2>3, <2>4, RecordsStay
<1>6. CASE RunAgain /\ StartProgram
  <2>1. /\ program' \in Programs /\ priors' = <<>> /\ latest' = Nothing /\ patterns' = <<>>
    BY <1>6 DEF RunAgain, StartProgram
  <2>2. DOMAIN patterns' = {} /\ priors' \in Seq(Priors)  BY <2>1, EmptySeq
  <2>3. latest'.case = <<>>  BY <2>1 DEF Nothing
  <2>4. AbstractionInvariant'
    BY <2>1, <2>2, <2>3, FS_EmptySet DEF AbstractionInvariant, RecoveryIsWhatWasMeasured
  <2> QED  BY <1>6, <2>4 DEF Next
<1>7. CASE UNCHANGED allVars
  <2>1. UNCHANGED vars /\ UNCHANGED <<program, priors, latest>>
    BY <1>7 DEF allVars, experiment
  <2>2. recorded' = recorded /\ patterns' = patterns  BY <2>1 DEF vars, loop
  <2> QED  BY <1>0, <2>1, <2>2, RecordsStay
<1> QED  BY <1>1, <1>2, <1>3, <1>4, <1>5, <1>6, <1>7 DEF NextAll

\* Whatever rollouts time out, a case is recorded exactly if one was measured
\* above the threshold, and with the repair of that rollout.
THEOREM RecoveriesAreMeasured == SpecAll => []RecoveryIsWhatWasMeasured
<1>1. AbstractionInvariant => RecoveryIsWhatWasMeasured  BY DEF AbstractionInvariant
<1>2. AbstractionInvariant /\ [NextAll]_allVars => AbstractionInvariant'  BY StepOfAWriter
<1> QED  BY <1>1, <1>2, StartsUnwritten, PTL DEF SpecAll

\* Both programs are writers of the failure memory: they record a case once in a
\* run, between two recordings, and with a repair that is legal for it, even where
\* the seed came from a case on which an illegal action is legal.
THEOREM ProgramsAreWriters == SpecAll => ImplementsFailureMemory
<1>1. InitAll => Init  BY DEF InitAll
<1>2. AbstractionInvariant /\ [NextAll]_allVars => AbstractionInvariant' /\ [Next]_vars
  BY StepOfAWriter
<1> QED  BY <1>1, <1>2, StartsUnwritten, PTL DEF SpecAll, ImplementsFailureMemory, Spec

-----------------------------------------------------------------------------
(* The libraries of Experiment 24.                                         *)

ScanShapes == ToSet(ScanOrder)

Entries == [fp : CaseFingerprints, spec : ScanShapes, net : Nat]

IsCase(c) ==
  /\ c.fp \in CaseFingerprints /\ c.legal \in LegalSteps
  /\ c.net \in [Shapes(c.legal) -> NetGains \cup {Timeout}]

\* What the shapes of the scan score on the current case.
CaseScores ==
  {x \in [spec : ScanShapes, net : NetGains \cup {Timeout}] :
     x.spec \subseteq case.legal /\ x.net = case.net[x.spec]}

RecoversCase(x) == x.net # Timeout /\ x.net >= trajectory_threshold

Recoverable == \E x \in CaseScores : RecoversCase(x)

\* What a stage has found: nothing, or a shape with its gain on the case.
IsFound(f) ==
  f = NothingFound \/ (f \in CaseScores /\ f.net # Timeout /\ f.net > 0)

LEMMA ScanIsOfShapes ==
  /\ ScanOrder \in Seq(ScanShapes) /\ Len(ScanOrder) \in Nat
  /\ \A k \in 1..Len(ScanOrder) : ScanOrder[k] \in ScanShapes
  /\ \A spec \in ScanShapes : \E k \in 1..Len(ScanOrder) : ScanOrder[k] = spec
  /\ \A spec \in ScanShapes : spec # NoSpec
<1>1. ScanOrder \in Seq((SUBSET UNION LegalSteps) \ {{}})  BY TrajectoryConstants
<1>2. ScanOrder \in Seq(ScanShapes)  BY <1>1, SeqOfItself DEF ScanShapes
<1>3. Len(ScanOrder) \in Nat /\ DOMAIN ScanOrder = 1..Len(ScanOrder)
  BY <1>2, LenProperties
<1>4. \A k \in 1..Len(ScanOrder) : ScanOrder[k] \in (SUBSET UNION LegalSteps) \ {{}}
  BY <1>1, ElementOfSeq
<1>5. ScanShapes = {ScanOrder[k] : k \in 1..Len(ScanOrder)}
  BY <1>3 DEF ScanShapes, ToSet
<1>6. \A k \in 1..Len(ScanOrder) : ScanOrder[k] \in ScanShapes  BY <1>5
<1>7. \A spec \in ScanShapes : \E k \in 1..Len(ScanOrder) : ScanOrder[k] = spec
  BY <1>5
<1>8. \A spec \in ScanShapes : spec # NoSpec  BY <1>4, <1>7 DEF NoSpec
<1> QED  BY <1>2, <1>3, <1>6, <1>7, <1>8

\* What is left of a shape of the scan on a case is scored by that case.
LEMMA GroundedScores ==
  ASSUME IsCase(case), NEW spec \in ScanShapes, spec \cap case.legal # NoSpec
  PROVE  [spec |-> spec \cap case.legal, net |-> case.net[spec \cap case.legal]] \in CaseScores
<1>1. spec \cap case.legal \in ScanShapes
  BY TrajectoryConstants DEF IsCase, ScanShapes, NoSpec
<1>2. case.net[spec \cap case.legal] \in NetGains \cup {Timeout}
  <2>1. spec \cap case.legal \in Shapes(case.legal)  BY DEF Shapes
  <2>2. case.net \in [Shapes(case.legal) -> NetGains \cup {Timeout}]  BY DEF IsCase
  <2> QED  BY <2>1, <2>2
<1> QED  BY <1>1, <1>2 DEF CaseScores

\* GainsMore are numbers.
LEMMA ScoresAreNumbers ==
  ASSUME NEW x \in CaseScores
  PROVE  /\ x.spec \in ScanShapes /\ x.spec # NoSpec
         /\ x.net = case.net[x.spec] /\ x.spec \subseteq case.legal
         /\ x.net # Timeout => x.net \in Nat
         /\ x = [spec |-> x.spec, net |-> x.net]
         /\ RecoversCase(x) => x.net > 0
<1>1. x \in [spec : ScanShapes, net : NetGains \cup {Timeout}]
      /\ x.spec \subseteq case.legal /\ x.net = case.net[x.spec]
  BY DEF CaseScores
<1>2. x.net # Timeout => x.net \in Nat  BY <1>1, TrajectoryConstants
<1>3. RecoversCase(x) => x.net > 0
  BY <1>2, TrajectoryConstants DEF RecoversCase
<1>4. x.spec # NoSpec  BY <1>1, ScanIsOfShapes
<1> QED  BY <1>1, <1>2, <1>3, <1>4

\* What has been found is a hit if and only if it recovers the case.
LEMMA FoundHits ==
  ASSUME NEW f, IsFound(f)
  PROVE  /\ f.net \in Nat
         /\ Hit(f) <=> f \in CaseScores /\ RecoversCase(f)
<1>1. CASE f = NothingFound
  <2>1. f.net = 0 /\ f.spec = NoSpec  BY <1>1 DEF NothingFound
  <2>2. f \notin CaseScores  BY <2>1, ScoresAreNumbers
  <2> QED  BY <2>1, <2>2 DEF Hit
<1>2. CASE f \in CaseScores /\ f.net # Timeout
  BY <1>2, ScoresAreNumbers DEF Hit, RecoversCase
<1> QED  BY <1>1, <1>2 DEF IsFound

-----------------------------------------------------------------------------
(* The best of some scores.                                                *)

Improves(x) == x.net # Timeout /\ x.net > 0

\* f is the best of what the places T of the scores s improve, or nothing.
IsBest(s, T, f) ==
  \/ f = NothingFound /\ \A n \in T : ~Improves(s[n])
  \/ \E n \in T :
       /\ Improves(s[n]) /\ f = s[n]
       /\ \A m \in T : Improves(s[m]) =>
            s[n].net > s[m].net \/ (s[n].net = s[m].net /\ n <= m)

LEMMA OneBest ==
  ASSUME NEW s \in Seq(CaseScores), NEW T \in SUBSET (1..Len(s)), NEW f, NEW g,
         IsBest(s, T, f), IsBest(s, T, g)
  PROVE  f = g
<1>1. \A n \in T : s[n] \in CaseScores /\ n \in Int
  <2>1. Len(s) \in Nat  BY LenProperties
  <2> QED  BY <2>1, ElementOfSeq
<1>2. \A n \in T : Improves(s[n]) => s[n].net \in Int
  BY <1>1, ScoresAreNumbers DEF Improves
<1>3. CASE \A n \in T : ~Improves(s[n])
  BY <1>3 DEF IsBest
<1>4. ASSUME NEW n \in T, Improves(s[n]), f = s[n],
             \A m \in T : Improves(s[m]) =>
               s[n].net > s[m].net \/ (s[n].net = s[m].net /\ n <= m),
             NEW k \in T, Improves(s[k]), g = s[k],
             \A m \in T : Improves(s[m]) =>
               s[k].net > s[m].net \/ (s[k].net = s[m].net /\ k <= m)
      PROVE  f = g
  <2>1. /\ s[n].net > s[k].net \/ (s[n].net = s[k].net /\ n <= k)
        /\ s[k].net > s[n].net \/ (s[k].net = s[n].net /\ k <= n)
        /\ s[n].net \in Int /\ s[k].net \in Int /\ n \in Int /\ k \in Int
    BY <1>1, <1>2, <1>4
  <2>2. n = k  BY <2>1
  <2> QED  BY <1>4, <2>2
<1> QED  BY <1>3, <1>4 DEF IsBest

\* The best score exists and is found.
LEMMA BestScoreIsBest ==
  ASSUME NEW s \in Seq(CaseScores), NEW T \in SUBSET (1..Len(s))
  PROVE  IsBest(s, T, BestScore(s, T))
<1> DEFINE gains == {n \in T : s[n].net # Timeout /\ s[n].net > 0}
           best == {n \in gains : \A m \in gains :
                      \/ s[n].net > s[m].net
                      \/ s[n].net = s[m].net /\ n <= m}
<1>1. BestScore(s, T) = IF best = {} THEN NothingFound
                        ELSE [net |-> s[Min(best)].net, spec |-> s[Min(best)].spec]
  BY DEF BestScore
<1>2. \A n \in T : n \in gains <=> Improves(s[n])  BY DEF Improves
<1>3. \A n \in T : s[n] \in CaseScores /\ n \in Int
  <2>1. Len(s) \in Nat  BY LenProperties
  <2> QED  BY <2>1, ElementOfSeq
<1>4. gains \subseteq T /\ \A n \in gains : s[n].net \in Nat /\ n \in Int
  BY <1>3, ScoresAreNumbers
<1>5. IsFiniteSet(gains)
  <2>1. IsFiniteSet(1..Len(s))  BY LenProperties, FS_Interval
  <2>2. gains \subseteq 1..Len(s)  BY <1>4
  <2> HIDE DEF gains
  <2> QED  BY <2>1, <2>2, FS_Subset
<1>6. best \subseteq gains /\ \A n \in best : \A m \in gains :
        s[n].net > s[m].net \/ (s[n].net = s[m].net /\ n <= m)
  OBVIOUS
<1>7. gains # {} => best # {}
  <2> SUFFICES ASSUME gains # {} PROVE best # {}
    OBVIOUS
  <2> DEFINE nets == {s[n].net : n \in gains}
  <2>1. \E x \in nets : \A y \in nets : y <= x
    <3>1. nets \subseteq Int /\ nets # {}
      <4> HIDE DEF gains
      <4>1. \A n \in gains : s[n].net \in Int  BY <1>4
      <4>2. nets # {}  OBVIOUS
      <4> QED  BY <4>1, <4>2
    <3>2. IsFiniteSet(nets)
      <4> DEFINE h == [n \in gains |-> s[n].net]
      <4>1. h \in Surjection(gains, nets)
        <5> HIDE DEF gains
        <5> QED  BY DEF Surjection
      <4> HIDE DEF gains, nets, h
      <4> QED  BY <1>5, <4>1, FS_Surjection
    <3> HIDE DEF nets
    <3> QED  BY <3>1, <3>2, GreatestElement
  <2>2. PICK top \in gains : \A m \in gains : s[m].net <= s[top].net
    <3> HIDE DEF gains
    <3> QED  BY <2>1
  <2> DEFINE equal == {n \in gains : s[n].net = s[top].net}
  <2>3. equal # {} /\ equal \subseteq Int /\ IsFiniteSet(equal)
    <3>1. equal \subseteq gains /\ top \in equal  BY <2>2
    <3> HIDE DEF gains, equal
    <3>2. IsFiniteSet(equal)  BY <1>5, <3>1, FS_Subset
    <3>3. equal \subseteq Int  BY <1>4, <3>1
    <3> QED  BY <3>1, <3>2, <3>3
  <2>4. PICK n \in equal : \A m \in equal : n <= m
    <3> HIDE DEF equal
    <3> QED  BY <2>3, GreatestElement
  <2>5. ASSUME NEW m \in gains
        PROVE  s[n].net > s[m].net \/ (s[n].net = s[m].net /\ n <= m)
    <3> HIDE DEF gains
    <3>1. s[m].net <= s[top].net /\ s[n].net = s[top].net /\ n \in gains
      BY <2>2, <2>4
    <3>2. s[m].net \in Nat /\ s[top].net \in Nat  BY <1>4
    <3>3. s[m].net = s[top].net => n <= m  BY <2>4
    <3> QED  BY <3>1, <3>2, <3>3
  <2>6. n \in best
    <3>1. n \in gains  BY <2>4
    <3> HIDE DEF gains
    <3> QED  BY <2>5, <3>1
  <2> QED  BY <2>6
<1> HIDE DEF best, gains
<1>8. CASE best = {}
  <2>1. \A n \in T : ~Improves(s[n])  BY <1>2, <1>7, <1>8
  <2> QED  BY <1>1, <1>8, <2>1 DEF IsBest
<1>9. CASE best # {}
  <2> DEFINE n == Min(best)
  <2>1. n \in best
    <3>1. IsFiniteSet(best) /\ best \subseteq Int
      <4>1. IsFiniteSet(best)  BY <1>5, <1>6, FS_Subset
      <4>2. best \subseteq Int  BY <1>4, <1>6
      <4> QED  BY <4>1, <4>2
    <3> QED  BY <1>9, <3>1, MinOfFinite
  <2>2. BestScore(s, T) = [net |-> s[n].net, spec |-> s[n].spec]  BY <1>1, <1>9
  <2> HIDE DEF n
  <2>3. n \in gains /\ n \in T  BY <1>4, <1>6, <2>1
  <2>4. s[n] = [spec |-> s[n].spec, net |-> s[n].net]
    BY <1>3, <2>3, ScoresAreNumbers
  <2>5. BestScore(s, T) = s[n]  BY <2>2, <2>4
  <2>6. \A m \in T : Improves(s[m]) =>
          s[n].net > s[m].net \/ (s[n].net = s[m].net /\ n <= m)
    BY <1>2, <1>6, <2>1
  <2>7. Improves(s[n])  BY <1>2, <2>3
  <2> QED  BY <2>3, <2>5, <2>6, <2>7 DEF IsBest
<1> QED  BY <1>8, <1>9

-----------------------------------------------------------------------------
(* Recursion over a sequence of steps.                                     *)

LEMMA StepByStep ==
  ASSUME NEW V, NEW first \in V, NEW N \in Nat, NEW move \in [1..N -> [V -> V]]
  PROVE  \E f \in [0..N -> V] :
           f[0] = first /\ \A n \in 1..N : f[n] = move[n][f[n - 1]]
<1> DEFINE Good(m, f) == /\ f \in [0..m -> V] /\ f[0] = first
                         /\ \A n \in 1..m : f[n] = move[n][f[n - 1]]
           T == {m \in Nat : m <= N => \E f : Good(m, f)}
<1>1. 0 \in T
  <2>1. [n \in 0..0 |-> first] \in [0..0 -> V] /\ [n \in 0..0 |-> first][0] = first
    OBVIOUS
  <2>2. \A n \in 1..0 : FALSE  OBVIOUS
  <2>3. Good(0, [n \in 0..0 |-> first])  BY <2>1, <2>2
  <2> QED  BY <2>3
<1>2. ASSUME NEW m \in Nat, m \in T PROVE m + 1 \in T
  <2> SUFFICES ASSUME m + 1 <= N PROVE \E f : Good(m + 1, f)
    OBVIOUS
  <2>1. PICK f : Good(m, f)  BY <1>2
  <2> DEFINE g == [n \in 0..(m + 1) |-> IF n = m + 1 THEN move[m + 1][f[m]] ELSE f[n]]
  <2>2. f[m] \in V /\ m + 1 \in 1..N  BY <2>1
  <2>3. move[m + 1][f[m]] \in V  BY <2>2
  <2>4. \A n \in 0..(m + 1) : n # m + 1 => n \in 0..m  OBVIOUS
  <2>5. \A n \in 0..m : f[n] \in V  BY <2>1
  <2>6. g \in [0..(m + 1) -> V]  BY <2>3, <2>4, <2>5
  <2>7. /\ \A n \in 0..m : n \in 0..(m + 1) /\ n # m + 1
        /\ m + 1 \in 0..(m + 1) /\ 0 \in 0..m
    OBVIOUS
  <2>8. \A n \in 0..m : g[n] = f[n]  BY <2>7
  <2>9. g[m + 1] = move[m + 1][f[m]]  BY <2>7
  <2> HIDE DEF g
  <2>10. g[0] = first  BY <2>1, <2>7, <2>8
  <2>11. ASSUME NEW n \in 1..(m + 1) PROVE g[n] = move[n][g[n - 1]]
    <3>1. CASE n = m + 1
      <4>1. n - 1 = m /\ m \in 0..m  BY <3>1
      <4>2. g[n - 1] = f[m]  BY <2>8, <4>1
      <4> QED  BY <2>9, <3>1, <4>2
    <3>2. CASE n # m + 1
      <4>1. n \in 1..m /\ n \in 0..m /\ n - 1 \in 0..m  BY <3>2
      <4>2. g[n] = f[n] /\ g[n - 1] = f[n - 1]  BY <2>8, <4>1
      <4> QED  BY <2>1, <4>1, <4>2
    <3> QED  BY <3>1, <3>2
  <2>12. Good(m + 1, g)  BY <2>6, <2>10, <2>11
  <2> QED  BY <2>12
<1>3. N \in T
  <2> HIDE DEF T
  <2> QED  BY <1>1, <1>2, NaturalInduction
<1>4. PICK f : Good(N, f)  BY <1>3
<1> QED  BY <1>4

-----------------------------------------------------------------------------
(* Stopping at the first score that recovers the case.                     *)

\* The places that a stage which stops there has looked at.
Looked(s) == {n \in 1..Len(s) : \A m \in 1..(n - 1) : ~RecoversCase(s[m])}

LEMMA EarlyStopIsBest ==
  ASSUME NEW s \in Seq(CaseScores)
  PROVE  IsBest(s, Looked(s), ReplayEarlyStop(s))
<1>1. DOMAIN s = 1..Len(s)  BY LenProperties
<1>2. ReplayEarlyStop(s) = BestScore(s, Looked(s))
  BY <1>1 DEF ReplayEarlyStop, Looked, RecoversCase
<1>3. Looked(s) \in SUBSET (1..Len(s))  BY DEF Looked
<1> QED  BY <1>2, <1>3, BestScoreIsBest

\* The stage finds a shape that recovers the case whenever there is one.
LEMMA EarlyStopHits ==
  ASSUME NEW s \in Seq(CaseScores)
  PROVE  /\ IsFound(ReplayEarlyStop(s))
         /\ Hit(ReplayEarlyStop(s)) <=> \E n \in 1..Len(s) : RecoversCase(s[n])
<1> DEFINE T == Looked(s)
           f == ReplayEarlyStop(s)
<1>1. IsBest(s, T, f)  BY EarlyStopIsBest
<1>2. Len(s) \in Nat /\ \A n \in 1..Len(s) : s[n] \in CaseScores
  BY LenProperties, ElementOfSeq
<1>3. T \subseteq 1..Len(s)  BY DEF Looked
<1> HIDE DEF T, f
<1>4. IsFound(f)
  BY <1>1, <1>2, <1>3 DEF IsBest, IsFound, Improves
<1>5. ASSUME Hit(f) PROVE \E n \in 1..Len(s) : RecoversCase(s[n])
  <2>1. f \in CaseScores /\ RecoversCase(f)  BY <1>4, <1>5, FoundHits
  <2>2. f # NothingFound
    <3>1. f.spec # NoSpec  BY <2>1, ScoresAreNumbers
    <3> QED  BY <3>1 DEF NothingFound
  <2> QED  BY <1>1, <1>3, <2>1, <2>2 DEF IsBest
<1>6. ASSUME \E n \in 1..Len(s) : RecoversCase(s[n]) PROVE Hit(f)
  <2> DEFINE U == {n \in 1..Len(s) : RecoversCase(s[n])}
  <2>1. U \subseteq Nat /\ U # {}  BY <1>2, <1>6
  <2>2. PICK n \in U : \A m \in U : n <= m
    <3> HIDE DEF U
    <3> QED  BY <2>1, LeastElement
  <2>3. n \in 1..Len(s) /\ RecoversCase(s[n])  BY <2>2
  <2>4. \A m \in 1..(n - 1) : m \in 1..Len(s) /\ ~(n <= m)  BY <1>2, <2>3
  <2>5. \A m \in 1..(n - 1) : ~RecoversCase(s[m])  BY <2>2, <2>4
  <2>6. n \in T  BY <2>3, <2>5 DEF T, Looked
  <2> HIDE DEF U
  <2>7. s[n] \in CaseScores /\ s[n].net > 0 /\ s[n].net # Timeout /\ s[n].net \in Nat
    <3>1. s[n] \in CaseScores  BY <1>2, <2>3
    <3> QED  BY <2>3, <3>1, ScoresAreNumbers DEF RecoversCase
  <2>8. Improves(s[n])  BY <2>7 DEF Improves
  <2>9. PICK k \in T : /\ Improves(s[k]) /\ f = s[k]
                       /\ s[k].net > s[n].net \/ (s[k].net = s[n].net /\ k <= n)
    BY <1>1, <2>6, <2>8 DEF IsBest
  <2>10. s[k] \in CaseScores /\ s[k].net # Timeout /\ s[k].net \in Nat
    <3>1. s[k] \in CaseScores  BY <1>2, <1>3, <2>9
    <3> QED  BY <2>9, <3>1, ScoresAreNumbers DEF Improves
  <2>11. s[k].net >= s[n].net  BY <2>7, <2>9, <2>10
  <2>12. s[n].net >= trajectory_threshold /\ trajectory_threshold \in Nat
    BY <2>3, TrajectoryConstants DEF RecoversCase
  <2>13. s[k].net >= trajectory_threshold  BY <2>7, <2>10, <2>11, <2>12
  <2>14. RecoversCase(s[k])  BY <2>10, <2>13 DEF RecoversCase
  <2> QED  BY <1>4, <2>9, <2>10, <2>14, FoundHits
<1>7. Hit(f) <=> \E n \in 1..Len(s) : RecoversCase(s[n])
  BY <1>5, <1>6
<1> QED  BY <1>4, <1>7 DEF f

\* One more score is considered exactly as one more execution is.
LEMMA OneMoreScore ==
  ASSUME NEW s \in Seq(CaseScores), NEW x \in CaseScores
  PROVE  ReplayEarlyStop(Append(s, x)) = Consider(ReplayEarlyStop(s), x.spec)
<1> DEFINE t == Append(s, x)
           f == ReplayEarlyStop(s)
           g == ReplayEarlyStop(t)
           h == Consider(f, x.spec)
           N == Len(s)
<1>1. N \in Nat /\ \A n \in 1..N : s[n] \in CaseScores
  BY LenProperties, ElementOfSeq
<1>2. t \in Seq(CaseScores) /\ Len(t) = N + 1 /\ t[N + 1] = x
      /\ \A n \in 1..N : t[n] = s[n]
  BY AppendProperties
<1>3. IsBest(s, Looked(s), f)  BY EarlyStopIsBest
<1>4. IsBest(t, Looked(t), g)  BY <1>2, EarlyStopIsBest
<1>5. /\ IsFound(f)
      /\ Hit(f) <=> \E n \in 1..N : RecoversCase(s[n])
  BY EarlyStopHits
<1>6. f.net \in Nat  BY <1>5, FoundHits
<1>7. /\ x.spec \in ScanShapes /\ x.net = case.net[x.spec]
      /\ x.net # Timeout => x.net \in Nat
      /\ x = [spec |-> x.spec, net |-> x.net]
  BY ScoresAreNumbers
<1>8. h = IF Hit(f) \/ x.net = Timeout THEN f
          ELSE IF x.net > f.net THEN [net |-> x.net, spec |-> x.spec] ELSE f
  BY <1>7 DEF Consider
<1> HIDE DEF t, f, g, h
<1>9. IsBest(t, Looked(t), h)
  <2>1. CASE Hit(f)
    <3>1. h = f  BY <1>8, <2>1
    <3>2. PICK k \in 1..N : RecoversCase(s[k])  BY <1>5, <2>1
    <3>3. k \in 1..((N + 1) - 1) /\ RecoversCase(t[k])  BY <1>1, <1>2, <3>2
    <3>4. N + 1 \notin Looked(t)  BY <3>3 DEF Looked
    <3>5. ASSUME NEW n \in 1..N PROVE n \in Looked(t) <=> n \in Looked(s)
      <4>1. \A m \in 1..(n - 1) : m \in 1..N  BY <1>1
      <4>2. \A m \in 1..(n - 1) : t[m] = s[m]  BY <1>2, <4>1
      <4>3. n \in 1..Len(t)  BY <1>1, <1>2
      <4> QED  BY <4>2, <4>3 DEF Looked
    <3>6. \A n \in Looked(t) : n \in 1..N
      <4>1. \A n \in 1..Len(t) : n # N + 1 => n \in 1..N  BY <1>1, <1>2
      <4> QED  BY <3>4, <4>1 DEF Looked
    <3>7. Looked(t) = Looked(s) /\ Looked(s) \subseteq 1..N
      BY <3>5, <3>6 DEF Looked
    <3>8. \A n \in Looked(s) : t[n] = s[n]  BY <1>2, <3>7
    <3>9. IsBest(t, Looked(s), f)  BY <1>3, <3>8 DEF IsBest
    <3> QED  BY <3>1, <3>7, <3>9
  <2>2. CASE ~Hit(f)
    <3>1. \A n \in 1..N : ~RecoversCase(s[n]) /\ ~RecoversCase(t[n])
      BY <1>2, <1>5, <2>2
    <3>2. Looked(s) = 1..N
      <4>1. \A n \in 1..N : \A m \in 1..(n - 1) : m \in 1..N  BY <1>1
      <4> QED  BY <3>1, <4>1 DEF Looked
    <3>3. Looked(t) = 1..(N + 1)
      <4>1. \A n \in 1..(N + 1) : \A m \in 1..(n - 1) : m \in 1..N  BY <1>1
      <4> QED  BY <1>2, <3>1, <4>1 DEF Looked
    <3>4. /\ \A n \in 1..N : n \in 1..(N + 1) /\ n <= N + 1
          /\ N + 1 \in 1..(N + 1)
          /\ \A n \in 1..(N + 1) : n \in 1..N \/ n = N + 1
      BY <1>1
    <3>5. CASE x.net # Timeout /\ x.net > f.net
      <4>1. h = t[N + 1] /\ t[N + 1] = x  BY <1>2, <1>7, <1>8, <2>2, <3>5
      <4>2. Improves(x)  BY <1>6, <1>7, <3>5 DEF Improves
      <4>3. ASSUME NEW m \in 1..N, Improves(s[m]) PROVE x.net > s[m].net
        <5>1. s[m].net \in Nat
          BY <1>1, <4>3, ScoresAreNumbers DEF Improves
        <5>2. PICK n \in 1..N : f = s[n]
                /\ (s[n].net > s[m].net \/ (s[n].net = s[m].net /\ n <= m))
          BY <1>3, <3>2, <4>3 DEF IsBest
        <5>3. f.net >= s[m].net  BY <1>6, <5>1, <5>2
        <5> QED  BY <1>6, <1>7, <3>5, <5>1, <5>3
      <4>4. \A m \in 1..(N + 1) : Improves(t[m]) =>
              t[N + 1].net > t[m].net \/ (t[N + 1].net = t[m].net /\ N + 1 <= m)
        <5>1. \A m \in 1..N : Improves(t[m]) => t[N + 1].net > t[m].net
          BY <1>2, <4>3
        <5>2. N + 1 <= N + 1  BY <1>1
        <5> QED  BY <3>4, <5>1, <5>2
      <4> QED  BY <3>3, <3>4, <4>1, <4>2, <4>4 DEF IsBest
    <3>6. CASE x.net = Timeout \/ ~(x.net > f.net)
      <4>1. h = f  BY <1>8, <3>6
      <4>2. ASSUME Improves(x) PROVE x.net <= f.net /\ f.net > 0
        <5>1. x.net \in Nat /\ x.net > 0  BY <1>7, <4>2 DEF Improves
        <5>2. ~(x.net > f.net)  BY <3>6, <4>2 DEF Improves
        <5> QED  BY <1>6, <5>1, <5>2
      <4>3. CASE f = NothingFound /\ \A n \in 1..N : ~Improves(s[n])
        <5>1. ~Improves(x)
          <6>1. f.net = 0  BY <4>3 DEF NothingFound
          <6> QED  BY <4>2, <6>1
        <5>2. \A n \in 1..(N + 1) : ~Improves(t[n])  BY <1>2, <3>4, <4>3, <5>1
        <5> QED  BY <3>3, <4>1, <4>3, <5>2 DEF IsBest
      <4>4. ASSUME NEW n \in 1..N, Improves(s[n]), f = s[n],
                   \A m \in 1..N : Improves(s[m]) =>
                     s[n].net > s[m].net \/ (s[n].net = s[m].net /\ n <= m)
            PROVE  IsBest(t, Looked(t), h)
        <5>1. t[n] = s[n] /\ n \in 1..(N + 1) /\ n <= N + 1  BY <1>2, <3>4
        <5>2. Improves(t[N + 1]) =>
                t[n].net > t[N + 1].net \/ (t[n].net = t[N + 1].net /\ n <= N + 1)
          <6> SUFFICES ASSUME Improves(x)
                       PROVE  f.net > x.net \/ f.net = x.net
            BY <1>2, <4>4, <5>1
          <6>1. x.net \in Nat  BY <1>7 DEF Improves
          <6> QED  BY <1>6, <4>2, <6>1
        <5>3. \A m \in 1..(N + 1) : Improves(t[m]) =>
                t[n].net > t[m].net \/ (t[n].net = t[m].net /\ n <= m)
          <6>1. \A m \in 1..N : Improves(t[m]) =>
                  t[n].net > t[m].net \/ (t[n].net = t[m].net /\ n <= m)
            BY <1>2, <4>4, <5>1
          <6> QED  BY <3>4, <5>2, <6>1
        <5>4. Improves(t[n]) /\ h = t[n]  BY <4>1, <4>4, <5>1
        <5> QED  BY <3>3, <5>1, <5>3, <5>4 DEF IsBest
      <4> QED  BY <1>3, <3>2, <4>3, <4>4 DEF IsBest
    <3> QED  BY <3>5, <3>6
  <2> QED  BY <2>1, <2>2
<1>10. Looked(t) \in SUBSET (1..Len(t))  BY DEF Looked
<1>11. g = h  BY <1>2, <1>4, <1>9, <1>10, OneBest
<1> QED  BY <1>11 DEF t, f, g, h

-----------------------------------------------------------------------------
(* The two implementations of the library stage, and the scan.             *)

\* Executing the candidates one by one finds what executing all of them and going
\* through the scores finds.
LEMMA StagesAgree ==
  ASSUME IsCase(case), NEW C \in Seq(ScanShapes)
  PROVE  /\ ScoreCandidates(C) \in Seq(CaseScores)
         /\ RunLibraryStage(C) = ReplayEarlyStop(ScoreCandidates(C))
<1> DEFINE N == Len(C)
           left == [n \in 1..N |-> C[n] \cap case.legal]
           score == [n \in 1..N |-> [spec |-> left[n], net |-> case.net[left[n]]]]
           more == [n \in 1..N |-> [u \in Seq(CaseScores) |->
                     IF left[n] = NoSpec THEN u ELSE Append(u, score[n])]]
<1>1. N \in Nat /\ \A n \in 1..N : C[n] \in ScanShapes
  BY LenProperties, ElementOfSeq
<1>2. \A n \in 1..N : left[n] # NoSpec =>
        score[n] \in CaseScores /\ score[n].spec = left[n] /\ score[n].net = case.net[left[n]]
  BY <1>1, GroundedScores
<1>3. PICK sc \in [0..N -> Seq(CaseScores)] :
        sc[0] = <<>> /\ \A n \in 1..N : sc[n] = more[n][sc[n - 1]]
  <2>1. <<>> \in Seq(CaseScores)  BY EmptySeq
  <2>2. more \in [1..N -> [Seq(CaseScores) -> Seq(CaseScores)]]
    <3> HIDE DEF left, score
    <3>1. ASSUME NEW u \in Seq(CaseScores), NEW n \in 1..N
          PROVE  (IF left[n] = NoSpec THEN u ELSE Append(u, score[n])) \in Seq(CaseScores)
      BY <1>2, AppendProperties
    <3> QED  BY <3>1
  <2> DEFINE V == Seq(CaseScores)
             none == <<>>
  <2>3. none \in V /\ more \in [1..N -> [V -> V]]  BY <2>1, <2>2
  <2> HIDE DEF more, N, V, none
  <2>4. N \in Nat  BY <1>1
  <2>5. \E f \in [0..N -> V] : f[0] = none /\ \A n \in 1..N : f[n] = more[n][f[n - 1]]
    BY ONLY <2>3, <2>4, StepByStep
  <2> QED  BY <2>5 DEF V, none
<1>4. /\ \A n \in 0..N : sc[n] \in Seq(CaseScores)
      /\ \A n \in 1..N : /\ n - 1 \in 0..N /\ n \in 0..N /\ n # 0
                         /\ C[n] \cap case.legal = left[n]
      /\ \A n \in 0..N : n # 0 => n \in 1..N
      /\ N \in 0..N /\ 0 \in 0..N
  BY <1>1
<1>5. \A n \in 1..N : sc[n] = IF left[n] = NoSpec THEN sc[n - 1]
                                ELSE Append(sc[n - 1], score[n])
  <2> HIDE DEF left, score
  <2> QED  BY <1>3, <1>4
<1>6. \A n \in 1..N : score[n] = [spec |-> left[n], net |-> case.net[left[n]]]
  OBVIOUS
<1> HIDE DEF more, score, left
<1>7. ScoreCandidates(C) = sc[N]
  <2> DEFINE Body(f, n) == LET spec == C[n] \cap case.legal
                           IN  IF spec = NoSpec THEN f[n - 1]
                               ELSE Append(f[n - 1], [spec |-> spec, net |-> case.net[spec]])
             Is(f) == f = [n \in 0..N |-> IF n = 0 THEN <<>> ELSE Body(f, n)]
             f == CHOOSE f : Is(f)
  <2>1. ScoreCandidates(C) = f[N]  BY DEF ScoreCandidates
  <2>2. \A n \in 0..N : sc[n] = IF n = 0 THEN <<>> ELSE Body(sc, n)
    <3>1. ASSUME NEW n \in 1..N PROVE sc[n] = Body(sc, n)
      <4>1. C[n] \cap case.legal = left[n]  BY <1>4
      <4>2. Body(sc, n) = IF left[n] = NoSpec THEN sc[n - 1] ELSE Append(sc[n - 1], score[n])
        BY <1>6, <4>1
      <4> HIDE DEF Body
      <4> QED  BY <1>5, <4>2
    <3> HIDE DEF Body
    <3> QED  BY <1>3, <1>4, <3>1
  <2>3. Is(sc)  BY <2>2
  <2>4. Is(f)  BY <2>3
  <2> HIDE DEF f
  <2>5. \A n \in 0..N : f[n] = IF n = 0 THEN <<>> ELSE Body(f, n)  BY <2>4
  <2> DEFINE T == {n \in Nat : n <= N => f[n] = sc[n]}
  <2>6. 0 \in T  BY <1>3, <1>4, <2>5
  <2>7. ASSUME NEW m \in Nat, m \in T PROVE m + 1 \in T
    <3> SUFFICES ASSUME m + 1 <= N PROVE f[m + 1] = sc[m + 1]
      OBVIOUS
    <3>1. m + 1 \in 0..N /\ m + 1 # 0 /\ (m + 1) - 1 = m /\ m <= N  BY <1>1
    <3>2. f[m] = sc[m]  BY <2>7, <3>1
    <3>3. f[m + 1] = Body(f, m + 1) /\ sc[m + 1] = Body(sc, m + 1)
      BY <2>2, <2>5, <3>1
    <3> QED  BY <3>1, <3>2, <3>3
  <2>8. N \in T
    <3> HIDE DEF T
    <3> QED  BY <1>1, <2>6, <2>7, NaturalInduction
  <2> QED  BY <2>1, <2>8
<1>8. RunLibraryStage(C) = ReplayEarlyStop(sc[N])
  <2> DEFINE Body(f, n) == LET spec == C[n] \cap case.legal
                           IN  IF spec = NoSpec THEN f[n - 1] ELSE Consider(f[n - 1], spec)
             Is(f) == f = [n \in 0..N |-> IF n = 0 THEN NothingFound ELSE Body(f, n)]
             f == CHOOSE f : Is(f)
             fo == [n \in 0..N |-> ReplayEarlyStop(sc[n])]
  <2>1. RunLibraryStage(C) = f[N]  BY DEF RunLibraryStage
  <2>2. fo[0] = NothingFound
    <3>1. ReplayEarlyStop(<<>>) = NothingFound
      <4>1. <<>> \in Seq(CaseScores) /\ Len(<<>>) = 0  BY EmptySeq
      <4>2. Looked(<<>>) = {}  BY <4>1 DEF Looked
      <4>3. IsBest(<<>>, Looked(<<>>), ReplayEarlyStop(<<>>))  BY <4>1, EarlyStopIsBest
      <4> QED  BY <4>2, <4>3 DEF IsBest
    <3> QED  BY <1>3, <1>4, <3>1
  <2>3. ASSUME NEW n \in 1..N PROVE fo[n] = Body(fo, n)
    <3>1. fo[n] = ReplayEarlyStop(sc[n]) /\ fo[n - 1] = ReplayEarlyStop(sc[n - 1])
      BY <1>4
    <3>2. CASE left[n] = NoSpec
      BY <1>4, <1>5, <3>1, <3>2
    <3>3. CASE left[n] # NoSpec
      <4>1. sc[n] = Append(sc[n - 1], score[n])  BY <1>5, <3>3
      <4>2. sc[n - 1] \in Seq(CaseScores) /\ score[n] \in CaseScores /\ score[n].spec = left[n]
        BY <1>2, <1>4, <3>3
      <4>3. fo[n] = Consider(fo[n - 1], left[n])  BY <3>1, <4>1, <4>2, OneMoreScore
      <4> HIDE DEF fo
      <4> QED  BY <1>4, <3>3, <4>3
    <3> QED  BY <3>2, <3>3
  <2>4. \A n \in 0..N : fo[n] = IF n = 0 THEN NothingFound ELSE Body(fo, n)
    <3> HIDE DEF fo, Body
    <3> QED  BY <1>4, <2>2, <2>3
  <2>5. Is(fo)
    <3>1. fo = [n \in 0..N |-> fo[n]]  OBVIOUS
    <3> HIDE DEF fo, Body
    <3> QED  BY <2>4, <3>1
  <2>6. Is(f)
    <3> HIDE DEF fo, Body
    <3> QED  BY <2>5
  <2> HIDE DEF f
  <2>7. \A n \in 0..N : f[n] = IF n = 0 THEN NothingFound ELSE Body(f, n)
    <3> HIDE DEF Body
    <3> QED  BY <2>6
  <2>8. fo[N] = ReplayEarlyStop(sc[N])  BY <1>4
  <2> HIDE DEF fo
  <2> DEFINE T == {n \in Nat : n <= N => f[n] = fo[n]}
  <2>9. 0 \in T
    <3> HIDE DEF Body
    <3> QED  BY <1>4, <2>2, <2>7
  <2>10. ASSUME NEW m \in Nat, m \in T PROVE m + 1 \in T
    <3> SUFFICES ASSUME m + 1 <= N PROVE f[m + 1] = fo[m + 1]
      OBVIOUS
    <3>1. m + 1 \in 0..N /\ m + 1 # 0 /\ (m + 1) - 1 = m /\ m <= N  BY <1>1
    <3>2. f[m] = fo[m]  BY <2>10, <3>1
    <3>3. f[m + 1] = Body(f, m + 1) /\ fo[m + 1] = Body(fo, m + 1)
      <4> HIDE DEF Body
      <4> QED  BY <2>4, <2>7, <3>1
    <3> QED  BY <3>1, <3>2, <3>3
  <2>11. N \in T
    <3> HIDE DEF T
    <3> QED  BY <1>1, <2>9, <2>10, NaturalInduction
  <2> QED  BY <2>1, <2>8, <2>11
<1> QED  BY <1>4, <1>7, <1>8

\* The scan finds a shape that recovers the case whenever the scan holds one.
LEMMA ScanHits ==
  ASSUME IsCase(case)
  PROVE  /\ Hit(DiscoveryScan) <=> Recoverable
         /\ Hit(DiscoveryScan) => DiscoveryScan \in CaseScores /\ IsFound(DiscoveryScan)
<1> DEFINE N == Len(ScanOrder)
           none == [net |-> -1, spec |-> NoSpec]
           V == {none} \cup {x \in CaseScores : x.net # Timeout}
           Better(found, spec) ==
             IF spec \subseteq case.legal /\ case.net[spec] # Timeout
                /\ case.net[spec] > found.net
             THEN [net |-> case.net[spec], spec |-> spec]
             ELSE found
           move == [n \in 1..N |-> [v \in V |-> Better(v, ScanOrder[n])]]
<1>1. N \in Nat /\ \A n \in 1..N : ScanOrder[n] \in ScanShapes /\ ScanOrder[n] # NoSpec
  BY ScanIsOfShapes
<1>2. ASSUME NEW n \in 1..N, ScanOrder[n] \subseteq case.legal
      PROVE  [net |-> case.net[ScanOrder[n]], spec |-> ScanOrder[n]] \in CaseScores
  <2>1. ScanOrder[n] \cap case.legal = ScanOrder[n]  BY <1>2
  <2>2. [spec |-> ScanOrder[n] \cap case.legal, net |-> case.net[ScanOrder[n] \cap case.legal]]
          \in CaseScores
    BY <1>1, <2>1, GroundedScores
  <2> QED  BY <2>1, <2>2
<1>3. \A v \in V : v.net \in Int
  BY ScoresAreNumbers
<1> HIDE DEF none
<1>4. ASSUME NEW v \in V, NEW n \in 1..N PROVE Better(v, ScanOrder[n]) \in V
  BY <1>2
<1>5. PICK b \in [0..N -> V] : b[0] = none /\ \A n \in 1..N : b[n] = move[n][b[n - 1]]
  <2>1. none \in V  OBVIOUS
  <2>2. move \in [1..N -> [V -> V]]
    <3> HIDE DEF Better, V
    <3> QED  BY <1>4
  <2> HIDE DEF move, V, N
  <2>3. N \in Nat  BY <1>1
  <2> QED  BY ONLY <2>1, <2>2, <2>3, StepByStep
<1>6. /\ \A n \in 0..N : b[n] \in V
      /\ \A n \in 1..N : n - 1 \in 0..N /\ n \in 0..N /\ n # 0
      /\ \A n \in 0..N : n # 0 => n \in 1..N
      /\ N \in 0..N /\ 0 \in 0..N
  BY <1>1
<1>7. \A n \in 1..N : b[n] = Better(b[n - 1], ScanOrder[n])
  <2> HIDE DEF Better, V
  <2> QED  BY <1>5, <1>6
<1> HIDE DEF move
<1>8. DiscoveryScan = b[N]
  <2> DEFINE Is(f) == f = [n \in 0..N |-> IF n = 0 THEN none ELSE Better(f[n - 1], ScanOrder[n])]
             f == CHOOSE f : Is(f)
  <2>1. DiscoveryScan = f[N]  BY DEF DiscoveryScan, none
  <2> HIDE DEF Better, V
  <2>2. \A n \in 0..N : b[n] = IF n = 0 THEN none ELSE Better(b[n - 1], ScanOrder[n])
    BY <1>5, <1>6, <1>7
  <2>3. Is(b)
    <3>1. b = [n \in 0..N |-> b[n]]  BY <1>5
    <3> QED  BY <2>2, <3>1
  <2>4. Is(f)  BY <2>3
  <2> HIDE DEF f
  <2>5. \A n \in 0..N : f[n] = IF n = 0 THEN none ELSE Better(f[n - 1], ScanOrder[n])
    BY <2>4
  <2> DEFINE T == {n \in Nat : n <= N => f[n] = b[n]}
  <2>6. 0 \in T  BY <1>6, <2>2, <2>5
  <2>7. ASSUME NEW m \in Nat, m \in T PROVE m + 1 \in T
    <3> SUFFICES ASSUME m + 1 <= N PROVE f[m + 1] = b[m + 1]
      OBVIOUS
    <3>1. m + 1 \in 0..N /\ m + 1 # 0 /\ (m + 1) - 1 = m /\ m <= N  BY <1>1
    <3>2. f[m] = b[m]  BY <2>7, <3>1
    <3> QED  BY <2>2, <2>5, <3>1, <3>2
  <2>8. N \in T
    <3> HIDE DEF T
    <3> QED  BY <1>1, <2>6, <2>7, NaturalInduction
  <2> QED  BY <2>1, <2>8
\* What the scan has kept is at least what each shape so far has scored.
<1> DEFINE Reaches(m, k) == ScanOrder[k] \subseteq case.legal /\ case.net[ScanOrder[k]] # Timeout
                             => b[m].net >= case.net[ScanOrder[k]]
           T == {m \in Nat : m <= N => \A k \in 1..m : Reaches(m, k)}
<1>9. \A n \in 1..N : ScanOrder[n] \subseteq case.legal /\ case.net[ScanOrder[n]] # Timeout
                       => case.net[ScanOrder[n]] \in Nat
  <2> SUFFICES ASSUME NEW n \in 1..N, ScanOrder[n] \subseteq case.legal,
                      case.net[ScanOrder[n]] # Timeout
               PROVE  case.net[ScanOrder[n]] \in Nat
    OBVIOUS
  <2> DEFINE x == [net |-> case.net[ScanOrder[n]], spec |-> ScanOrder[n]]
  <2>1. x \in CaseScores /\ x.net = case.net[ScanOrder[n]]  BY <1>2
  <2> HIDE DEF x
  <2>2. x.net # Timeout => x.net \in Nat  BY <2>1, ScoresAreNumbers
  <2> QED  BY <2>1, <2>2
<1>10. 0 \in T
  <2>1. \A k \in 1..0 : FALSE  OBVIOUS
  <2> QED  BY <2>1
<1>11. ASSUME NEW m \in Nat, m \in T PROVE m + 1 \in T
  <2> SUFFICES ASSUME m + 1 <= N, NEW k \in 1..(m + 1) PROVE Reaches(m + 1, k)
    <3> HIDE DEF Reaches
    <3> QED  OBVIOUS
  <2>1. /\ m + 1 \in 1..N /\ (m + 1) - 1 = m /\ m <= N /\ m \in 0..N /\ k \in 1..N
        /\ k \in 1..m \/ k = m + 1
    BY <1>1
  <2>2. b[m + 1] = Better(b[m], ScanOrder[m + 1])  BY <1>7, <2>1
  <2>3. b[m].net \in Int /\ b[m + 1].net \in Int
    <3>1. b[m] \in V /\ b[m + 1] \in V  BY <1>6, <2>1
    <3> HIDE DEF V
    <3> QED  BY <1>3, <3>1
  <2>4. b[m + 1].net >= b[m].net  BY <1>9, <2>1, <2>2, <2>3
  <2>5. CASE k \in 1..m
    <3>1. Reaches(m, k)  BY <1>11, <2>1, <2>5
    <3> QED  BY <1>9, <2>1, <2>3, <2>4, <3>1
  <2>6. CASE k = m + 1
    BY <1>9, <2>1, <2>2, <2>3, <2>6
  <2> QED  BY <2>1, <2>5, <2>6
<1>12. \A k \in 1..N : Reaches(N, k)
  <2>1. N \in T
    <3> HIDE DEF T
    <3> QED  BY <1>1, <1>10, <1>11, NaturalInduction
  <2>2. N <= N  BY <1>1
  <2> HIDE DEF Reaches
  <2> QED  BY <2>1, <2>2
<1> DEFINE d == DiscoveryScan
<1>13. d = none \/ (d \in CaseScores /\ d.net # Timeout)
  <2>1. d \in V  BY <1>6, <1>8
  <2> QED  BY <2>1
<1>14. \A k \in 1..N : ScanOrder[k] \subseteq case.legal /\ case.net[ScanOrder[k]] # Timeout
                        => d.net >= case.net[ScanOrder[k]]
  BY <1>8, <1>12
<1> HIDE DEF d, V, Better, Reaches, T
<1>15. ASSUME Hit(d) PROVE d \in CaseScores /\ RecoversCase(d) /\ IsFound(d)
  <2>1. d \in CaseScores /\ d.net # Timeout  BY <1>13, <1>15 DEF none, Hit
  <2>2. RecoversCase(d)  BY <1>15, <2>1 DEF Hit, RecoversCase
  <2>3. d.net > 0  BY <2>1, <2>2, ScoresAreNumbers
  <2> QED  BY <2>1, <2>2, <2>3 DEF IsFound
<1>16. ASSUME Recoverable PROVE Hit(d)
  <2>1. PICK x \in CaseScores : RecoversCase(x)  BY <1>16 DEF Recoverable
  <2>2. /\ x.spec \in ScanShapes /\ x.spec \subseteq case.legal /\ x.net = case.net[x.spec]
        /\ x.net # Timeout /\ x.net \in Nat /\ x.net >= trajectory_threshold
    BY <2>1, ScoresAreNumbers DEF RecoversCase
  <2>3. PICK k \in 1..N : ScanOrder[k] = x.spec  BY <2>2, ScanIsOfShapes
  <2>4. d.net >= x.net  BY <1>14, <2>2, <2>3
  <2>5. trajectory_threshold \in Nat \ {0}  BY TrajectoryConstants
  <2>6. d # none
    <3>1. CASE d = none
      <4>1. d.net = -1  BY <3>1 DEF none
      <4>2. ~(-1 >= x.net)  BY <2>2
      <4> QED  BY <2>4, <4>1, <4>2
    <3> QED  BY <3>1
  <2>7. d \in CaseScores /\ d.net # Timeout  BY <1>13, <2>6
  <2>8. d.spec # NoSpec /\ d.net \in Nat  BY <2>7, ScoresAreNumbers
  <2>9. d.net >= trajectory_threshold  BY <2>2, <2>4, <2>5, <2>8
  <2> QED  BY <2>8, <2>9 DEF Hit
<1>17. Hit(d) => Recoverable  BY <1>15 DEF Recoverable
<1> QED  BY <1>15, <1>16, <1>17 DEF d

-----------------------------------------------------------------------------
(* The candidates.                                                         *)

\* A retrieval returns shapes of the scan, whatever the library holds.
LEMMA RetrievedShapes ==
  ASSUME NEW lib \in Seq(Entries), NEW fp \in CaseFingerprints
  PROVE  RetrieveLibrary(lib, fp) \in Seq(ScanShapes)
<1> DEFINE Sim(i) == Similarity(lib[i].fp, fp)
           GainsMore(i, j) == \/ lib[i].net > lib[j].net
                              \/ lib[i].net = lib[j].net /\ i < j
           Precedes(i, j) == \/ Exceeds(Sim(i), Sim(j))
                             \/ /\ ~Exceeds(Sim(j), Sim(i))
                                /\ GainsMore(i, j)
           related == {i \in DOMAIN lib : Related(lib[i].fp, fp)}
           firsts == {i \in related : \A j \in related :
                        lib[j].spec = lib[i].spec => ~Precedes(j, i)}
           order == {p \in firsts \X firsts : Precedes(p[1], p[2])}
           m == Min({topn, Cardinality(firsts)})
           r == Ranked(firsts, order)
           places == SubSeq(r, 1, m)
           v == [i \in firsts |-> Sim(i)]
           Q == {p \in firsts \X firsts : GainsMore(p[1], p[2])}
<1>1. RetrieveLibrary(lib, fp) = [n \in DOMAIN places |-> lib[places[n]].spec]
  BY DEF RetrieveLibrary
<1>2. /\ Len(lib) \in Nat /\ DOMAIN lib = 1..Len(lib)
      /\ \A i \in 1..Len(lib) : lib[i] \in Entries
  BY LenProperties, ElementOfSeq
<1>3. firsts \subseteq 1..Len(lib) /\ \A i \in firsts : Related(lib[i].fp, fp)
  BY <1>2
<1>4. \A i, j \in firsts : <<i, j>> \in order <=> Precedes(i, j)
  <2> HIDE DEF firsts, Precedes
  <2> QED  OBVIOUS
<1>5. \A i, j \in firsts : <<i, j>> \in Q <=> GainsMore(i, j)
  <2> HIDE DEF firsts, GainsMore
  <2> QED  OBVIOUS
<1> HIDE DEF order, firsts, Q
<1>6. \A i \in firsts : /\ i \in Int /\ lib[i].net \in Int /\ lib[i].spec \in ScanShapes
                       /\ IsFiniteSet(lib[i].fp)
  BY <1>2, <1>3, TrajectoryConstants DEF Entries
<1>7. IsTotalOrder(firsts, Q)
  <2>1. ASSUME NEW i \in firsts PROVE ~GainsMore(i, i)  BY <1>6
  <2>2. ASSUME NEW i \in firsts, NEW j \in firsts, i # j
        PROVE  GainsMore(i, j) \/ GainsMore(j, i)
    BY <1>6, <2>2
  <2>3. ASSUME NEW i \in firsts, NEW j \in firsts, NEW k \in firsts, GainsMore(i, j), GainsMore(j, k)
        PROVE  GainsMore(i, k)
    <3>1. /\ lib[i].net \in Int /\ lib[j].net \in Int /\ lib[k].net \in Int
          /\ i \in Int /\ j \in Int /\ k \in Int
      BY <1>6
    <3> QED  BY <2>3, <3>1
  <2> HIDE DEF GainsMore
  <2> QED  BY <1>5, <2>1, <2>2, <2>3 DEF IsTotalOrder, IsStrictOrder
<1>8. \A i \in firsts : IsFraction(Sim(i))
  <2>1. IsFiniteSet(fp)  BY TrajectoryConstants
  <2> QED  BY <1>3, <1>6, <2>1, SimilarityIsAFraction
<1> HIDE DEF Sim
<1>9. \A i \in firsts : v[i] = Sim(i)
  OBVIOUS
<1> HIDE DEF v
<1>10. \A i, j \in firsts : <<i, j>> \in order <=>
         Exceeds(v[i], v[j]) \/ (~Exceeds(v[j], v[i]) /\ <<i, j>> \in Q)
  <2> HIDE DEF GainsMore
  <2> QED  BY <1>4, <1>5, <1>9
<1>11. IsTotalOrder(firsts, order)
  <2>1. \A i \in firsts : IsFraction(v[i])  BY <1>8, <1>9
  <2> QED  BY ONLY <1>7, <1>10, <2>1, LargerFirst
<1>12. IsFiniteSet(firsts)
  <2>1. IsFiniteSet(1..Len(lib))  BY <1>2, FS_Interval
  <2> QED  BY <1>3, <2>1, FS_Subset
<1>13. r \in Seq(firsts) /\ Len(r) = Cardinality(firsts)
  BY <1>11, <1>12, RankedList
<1>14. Cardinality(firsts) \in Nat  BY <1>12, FS_CardinalityType
<1>15. m \in 0..Cardinality(firsts)
  <2>1. topn \in Nat  BY TrajectoryConstants
  <2> QED  BY <1>14, <2>1, OfTwo
<1> HIDE DEF m, r
<1>16. \A i \in 1..m : r[i] \in firsts
  <2>1. \A i \in 1..Len(r) : r[i] \in firsts  BY <1>13, ElementOfSeq
  <2>2. \A i \in 1..m : i \in 1..Len(r)  BY <1>13, <1>14, <1>15
  <2> QED  BY <2>1, <2>2
<1>17. places \in Seq(firsts)
  <2>1. m \in Int  BY <1>14, <1>15
  <2> QED  BY <1>16, <2>1, SubSeqProperties
<1> HIDE DEF places
<1>18. /\ Len(places) \in Nat /\ DOMAIN places = 1..Len(places)
       /\ \A n \in 1..Len(places) : places[n] \in firsts
  BY <1>17, LenProperties, ElementOfSeq
<1>19. \A n \in 1..Len(places) : lib[places[n]].spec \in ScanShapes
  BY <1>6, <1>18
<1>20. [n \in 1..Len(places) |-> lib[places[n]].spec] \in Seq(ScanShapes)
  BY <1>18, <1>19, IsASeq
<1> QED  BY <1>1, <1>18, <1>20

\* So do the pool of the random arm, and what is drawn from it.
LEMMA PooledShapes ==
  ASSUME library \in Seq(Entries)
  PROVE  RandomPool \in Seq(ScanShapes)
<1>1. /\ Len(library) \in Nat /\ DOMAIN library = 1..Len(library)
      /\ \A i \in 1..Len(library) : library[i].spec \in ScanShapes
  <2>1. Len(library) \in Nat /\ DOMAIN library = 1..Len(library)  BY LenProperties
  <2>2. \A i \in 1..Len(library) : library[i] \in Entries  BY ElementOfSeq
  <2> QED  BY <2>1, <2>2 DEF Entries
<1> DEFINE specs == [n \in DOMAIN library |-> library[n].spec]
<1>2. specs \in Seq(ScanShapes)  BY <1>1, IsASeq
<1> HIDE DEF specs
<1>3. FirstDistinct(specs, Len(library)) \in Seq(ScanShapes)
  BY <1>1, <1>2, FirstDistinctIsOf
<1> QED  BY <1>3 DEF RandomPool, specs

LEMMA DrawnIsOf ==
  ASSUME NEW S, NEW s \in Seq(S), NEW k \in Nat, NEW d \in Draws(s, k)
  PROVE  LET t == [n \in DOMAIN d |-> s[d[n]]]
         IN  /\ t \in Seq(S) /\ Len(t) = k
             /\ \A n \in 1..k : d[n] \in 1..Len(s) /\ t[n] = s[d[n]]
<1>1. d \in [1..k -> 1..Len(s)] /\ Len(s) \in Nat
  BY LenProperties DEF Draws
<1>2. \A n \in 1..k : d[n] \in 1..Len(s) /\ s[d[n]] \in S
  BY <1>1, ElementOfSeq
<1> DEFINE t == [n \in 1..k |-> s[d[n]]]
<1>3. t \in Seq(S) /\ Len(t) = k  BY <1>2, IsASeq, LenProperties
<1>4. [n \in DOMAIN d |-> s[d[n]]] = t  BY <1>1
<1> QED  BY <1>2, <1>3, <1>4

\* A draw of all the places is a permutation of them.
LEMMA FullDrawsPermute ==
  ASSUME NEW S, NEW s \in Seq(S), NEW d \in Draws(s, Len(s)), NEW n \in 1..Len(s)
  PROVE  \E m \in 1..Len(s) : d[m] = n
<1> DEFINE K == 1..Len(s)
<1>1. Len(s) \in Nat /\ DOMAIN s = K  BY LenProperties
<1>2. d \in Injection(K, K)  BY <1>1 DEF Draws, Injection
<1>3. IsFiniteSet(K)  BY <1>1, FS_Interval
<1>4. d \in Surjection(K, K)
  <2> HIDE DEF K
  <2> QED  BY <1>2, <1>3, FS_Injection
<1> QED  BY <1>4 DEF Surjection

-----------------------------------------------------------------------------
(* The inductive invariant of the experiment.                              *)

LEMMA PrefixOfItself ==
  ASSUME NEW s
  PROVE  Len(s) \in Nat => IsPrefix(s, s)
BY DEF IsPrefix

LEMMA PrefixOfMore ==
  ASSUME NEW S, NEW s \in Seq(S), NEW t \in Seq(S), NEW x \in S, IsPrefix(s, t)
  PROVE  IsPrefix(s, Append(t, x))
<1>1. /\ Len(s) \in Nat /\ Len(t) \in Nat /\ Len(s) <= Len(t)
      /\ SubSeq(s, 1, Len(s)) = SubSeq(t, 1, Len(s))
  BY LenProperties DEF IsPrefix
<1>2. Len(Append(t, x)) = Len(t) + 1 /\ \A i \in 1..Len(t) : Append(t, x)[i] = t[i]
  BY AppendProperties
<1>3. SubSeq(Append(t, x), 1, Len(s)) = SubSeq(t, 1, Len(s))
  BY <1>1, <1>2
<1> QED  BY <1>1, <1>2, <1>3 DEF IsPrefix

TrajectoryInvariant ==
  /\ stage \in {"library", "discovery", "learn"}
  /\ case_index \in Nat
  /\ case = NoCase \/ IsCase(case)
  /\ random \in BOOLEAN
  /\ library \in Seq(Entries) /\ fixed_library \in Seq(Entries)
  /\ IsPrefix(fixed_library, library)
  /\ case_index < fixed_library_warmup =>
       fixed_library = library /\ (stage # "library" => fixed = live)
  /\ stage # "library" => IsCase(case) /\ IsFound(live) /\ IsFound(fixed)
  /\ stage = "discovery" =>
       /\ Hit(ordered) <=> Hit(live)
       /\ random => Recoverable
  /\ stage = "learn" =>
       /\ Hit(live) <=> Recoverable
       /\ Hit(fixed) <=> Recoverable
       /\ random <=> Recoverable

\* A candidate of a stage that recovers is a shape of the scan that does.
LEMMA StagesAreRecoverable ==
  ASSUME NEW f, IsFound(f), Hit(f)
  PROVE  Recoverable
BY FoundHits DEF Recoverable

LEMMA AcceptedEntries ==
  ASSUME IsCase(case), NEW lib \in Seq(Entries), NEW f, IsFound(f), Hit(f)
  PROVE  /\ Accept(lib, f) \in Seq(Entries)
         /\ Accept(lib, f) = lib \/ \E x \in Entries : Accept(lib, f) = Append(lib, x)
<1>1. f \in CaseScores /\ f.net \in Nat  BY FoundHits
<1>2. f.spec \in ScanShapes  BY <1>1, ScoresAreNumbers
<1> DEFINE x == [fp |-> case.fp, spec |-> f.spec, net |-> f.net]
<1>3. x \in Entries  BY <1>1, <1>2 DEF Entries, IsCase
<1>4. Accept(lib, f) = lib \/ Accept(lib, f) = Append(lib, x)
  BY DEF Accept
<1> HIDE DEF x
<1>5. Append(lib, x) \in Seq(Entries)  BY <1>3, AppendProperties
<1> QED  BY <1>3, <1>4, <1>5

LEMMA TrajectoryStarts == TrajectoryInit => TrajectoryInvariant
<1> SUFFICES ASSUME TrajectoryInit PROVE TrajectoryInvariant
  OBVIOUS
<1>1. <<>> \in Seq(Entries) /\ Len(<<>>) = 0  BY EmptySeq
<1>2. IsPrefix(<<>>, <<>>)  BY <1>1, PrefixOfItself
<1> QED  BY <1>1, <1>2 DEF TrajectoryInit, TrajectoryInvariant

LEMMA ExcludeKeeps ==
  ASSUME TrajectoryInvariant, Exclude
  PROVE  TrajectoryInvariant'
<1>1. /\ stage = "library" /\ case_index' = case_index + 1
      /\ case' = case /\ stage' = stage /\ library' = library
      /\ fixed_library' = fixed_library /\ live' = live /\ fixed' = fixed
      /\ ordered' = ordered /\ random' = random
  BY DEF Exclude
<1>2. fixed_library_warmup \in Nat  BY TrajectoryConstants
<1>3. /\ case_index' \in Nat
      /\ case_index' < fixed_library_warmup => case_index < fixed_library_warmup
  BY <1>1, <1>2 DEF TrajectoryInvariant
<1>4. case' = NoCase \/ IsCase(case)'
  BY <1>1 DEF TrajectoryInvariant, IsCase
<1> QED  BY <1>1, <1>3, <1>4 DEF TrajectoryInvariant

LEMMA StartCaseKeeps ==
  ASSUME TrajectoryInvariant, StartCase
  PROVE  TrajectoryInvariant'
<1>1. /\ stage = "library" /\ case_index' = case_index
      /\ stage' = stage /\ library' = library
      /\ fixed_library' = fixed_library /\ live' = live /\ fixed' = fixed
      /\ ordered' = ordered /\ random' = random
  BY DEF StartCase
<1>2. PICK fp \in CaseFingerprints, legal \in LegalSteps :
        \E net \in [Shapes(legal) -> NetGains \cup {Timeout}] :
          case' = [fp |-> fp, legal |-> legal, net |-> net]
  BY DEF StartCase
<1>3. IsCase(case)'  BY <1>2 DEF IsCase
<1> QED  BY <1>1, <1>3 DEF TrajectoryInvariant

LEMMA LibraryStagesKeep ==
  ASSUME TrajectoryInvariant, LibraryStages
  PROVE  TrajectoryInvariant'
<1> DEFINE C == RetrieveLibrary(library, case.fp)
           F == RetrieveLibrary(fixed_library, case.fp)
           scored == ScoreCandidates(C)
           pool == RandomPool
           k == Min({topn, Len(pool)})
<1>1. /\ stage = "library" /\ IsCase(case) /\ case' = case /\ stage' = "discovery"
      /\ library' = library /\ fixed_library' = fixed_library
      /\ case_index' = case_index
      /\ live' = ReplayEarlyStop(scored) /\ fixed' = RunLibraryStage(F)
  BY DEF LibraryStages, TrajectoryInvariant
<1>2. /\ library \in Seq(Entries) /\ fixed_library \in Seq(Entries)
      /\ IsPrefix(fixed_library, library) /\ case_index \in Nat
      /\ case_index < fixed_library_warmup => fixed_library = library
  BY DEF TrajectoryInvariant
<1>3. PICK d \in Draws(scored, Len(scored)) :
        ordered' = ReplayEarlyStop([n \in DOMAIN d |-> scored[d[n]]])
  BY DEF LibraryStages
<1>4. PICK e \in Draws(pool, k) :
        random' = Hit(RunLibraryStage([n \in DOMAIN e |-> pool[e[n]]]))
  BY DEF LibraryStages
<1>5. case.fp \in CaseFingerprints  BY <1>1 DEF IsCase
<1>6. C \in Seq(ScanShapes) /\ F \in Seq(ScanShapes) /\ pool \in Seq(ScanShapes)
  BY <1>2, <1>5, RetrievedShapes, PooledShapes
<1> HIDE DEF C, F, pool
<1>7. scored \in Seq(CaseScores) /\ RunLibraryStage(C) = ReplayEarlyStop(scored)
  BY <1>1, <1>6, StagesAgree
<1> HIDE DEF scored
<1>8. IsFound(live') /\ (Hit(live') <=> \E n \in 1..Len(scored) : RecoversCase(scored[n]))
  BY <1>1, <1>7, EarlyStopHits
<1>9. IsFound(fixed')
  <2>1. /\ ScoreCandidates(F) \in Seq(CaseScores)
        /\ RunLibraryStage(F) = ReplayEarlyStop(ScoreCandidates(F))
    BY <1>1, <1>6, StagesAgree
  <2> QED  BY <1>1, <2>1, EarlyStopHits
<1>10. Hit(ordered') <=> Hit(live')
  <2> DEFINE t == [n \in DOMAIN d |-> scored[d[n]]]
             N == Len(scored)
  <2>1. N \in Nat  BY <1>7, LenProperties
  <2> HIDE DEF N
  <2>2. /\ t \in Seq(CaseScores) /\ Len(t) = N
        /\ \A n \in 1..N : d[n] \in 1..Len(scored) /\ t[n] = scored[d[n]]
    <3>1. d \in Draws(scored, N)  BY <1>3 DEF N
    <3>2. scored \in Seq(CaseScores)  BY <1>7
    <3>3. t \in Seq(CaseScores)  BY <2>1, <3>1, <3>2, DrawnIsOf
    <3>4. Len(t) = N
      <4>1. DOMAIN t = 1..N  BY <3>1 DEF Draws
      <4> HIDE DEF t
      <4>2. DOMAIN t = 1..Len(t) /\ Len(t) \in Nat  BY <3>3, LenProperties
      <4> QED  BY <2>1, <4>1, <4>2
    <3>5. \A n \in 1..N : d[n] \in 1..Len(scored)  BY <2>1, <3>1, <3>2, DrawnIsOf
    <3>6. \A n \in 1..N : t[n] = scored[d[n]]  BY <2>1, <3>1, <3>2, DrawnIsOf
    <3> HIDE DEF t
    <3> QED  BY <3>3, <3>4, <3>5, <3>6
  <2> HIDE DEF t
  <2>3. Hit(ReplayEarlyStop(t)) <=> \E n \in 1..N : RecoversCase(t[n])
    BY <2>2, EarlyStopHits
  <2>4. \A n \in 1..N : \E m \in 1..N : d[m] = n
    BY <1>3, <1>7, FullDrawsPermute DEF N
  <2>5. ASSUME NEW n \in 1..N, RecoversCase(t[n])
        PROVE  \E m \in 1..N : RecoversCase(scored[m])
    BY <2>2, <2>5 DEF N
  <2>6. ASSUME NEW n \in 1..N, RecoversCase(scored[n])
        PROVE  \E m \in 1..N : RecoversCase(t[m])
    <3>1. PICK m \in 1..N : d[m] = n  BY <2>4
    <3>2. t[m] = scored[n]  BY <2>2, <3>1
    <3> QED  BY <2>6, <3>2
  <2>7. Hit(ReplayEarlyStop(t)) <=> \E n \in 1..N : RecoversCase(scored[n])
    BY <2>3, <2>5, <2>6
  <2> QED  BY <1>3, <1>8, <2>7 DEF t, N
<1>11. random' \in BOOLEAN /\ (random' => Recoverable)
  <2> DEFINE t == [n \in DOMAIN e |-> pool[e[n]]]
             f == RunLibraryStage(t)
  <2>1. k \in Nat
    <3>1. topn \in Nat /\ Len(pool) \in Nat  BY <1>6, LenProperties, TrajectoryConstants
    <3> QED  BY <3>1, OfTwo
  <2> HIDE DEF k
  <2>2. t \in Seq(ScanShapes)  BY <1>4, <1>6, <2>1, DrawnIsOf
  <2> HIDE DEF t
  <2>3. ScoreCandidates(t) \in Seq(CaseScores) /\ f = ReplayEarlyStop(ScoreCandidates(t))
    BY <1>1, <2>2, StagesAgree
  <2>4. IsFound(f)  BY <2>3, EarlyStopHits
  <2> HIDE DEF f
  <2>5. Hit(f) => Recoverable  BY <2>4, StagesAreRecoverable
  <2>6. random' = Hit(f)  BY <1>4 DEF f, t
  <2>7. Hit(f) \in BOOLEAN  BY DEF Hit
  <2> QED  BY <2>5, <2>6, <2>7
<1>12. case_index < fixed_library_warmup => fixed' = live'
  BY <1>1, <1>2, <1>7 DEF C, F
<1>13. IsCase(case)' /\ IsFound(live)' /\ IsFound(fixed)' /\ (Recoverable' <=> Recoverable)
  BY <1>1, <1>8, <1>9 DEF IsCase, IsFound, CaseScores, Recoverable
<1>14. Hit(ordered)' <=> Hit(live)'
  BY <1>10 DEF Hit
<1> QED  BY <1>1, <1>2, <1>11, <1>12, <1>13, <1>14 DEF TrajectoryInvariant

LEMMA DiscoverKeeps ==
  ASSUME TrajectoryInvariant, Discover
  PROVE  TrajectoryInvariant'
<1> DEFINE scan == IF NeedsDiscovery THEN DiscoveryScan ELSE NothingFound
           Rescued(found) == IF ~Hit(found) /\ Hit(scan) THEN scan ELSE found
<1>1. /\ stage = "discovery" /\ stage' = "learn" /\ case' = case
      /\ library' = library /\ fixed_library' = fixed_library
      /\ case_index' = case_index
      /\ live' = Rescued(live) /\ fixed' = Rescued(fixed)
      /\ random' = (random \/ Hit(scan))
  BY DEF Discover
<1>2. /\ IsCase(case) /\ IsFound(live) /\ IsFound(fixed)
      /\ random => Recoverable
      /\ random \in BOOLEAN
  BY <1>1 DEF TrajectoryInvariant
<1>3. /\ Hit(DiscoveryScan) <=> Recoverable
      /\ Hit(DiscoveryScan) => IsFound(DiscoveryScan)
  BY <1>2, ScanHits
<1>4. (Hit(live) => Recoverable) /\ (Hit(fixed) => Recoverable)
  BY <1>2, StagesAreRecoverable
<1>5. ~Hit(NothingFound)  BY DEF Hit, NothingFound
<1>6. /\ Hit(scan) => Recoverable /\ IsFound(scan)
      /\ NeedsDiscovery => (Hit(scan) <=> Recoverable)
  BY <1>3, <1>5
<1> HIDE DEF scan
<1>7. IsFound(live') /\ IsFound(fixed')
  BY <1>1, <1>2, <1>6
<1>8. /\ Hit(live') <=> Recoverable
      /\ Hit(fixed') <=> Recoverable
  BY <1>1, <1>4, <1>6 DEF NeedsDiscovery
<1>9. random' \in BOOLEAN /\ (random' <=> Recoverable)
  <2>1. Hit(scan) \in BOOLEAN  BY DEF Hit
  <2> QED  BY <1>1, <1>2, <1>6, <2>1 DEF NeedsDiscovery
<1>10. case_index < fixed_library_warmup => fixed' = live'
  BY <1>1 DEF TrajectoryInvariant
<1>11. IsCase(case)' /\ IsFound(live)' /\ IsFound(fixed)' /\ (Recoverable' <=> Recoverable)
  BY <1>1, <1>2, <1>7 DEF IsCase, IsFound, CaseScores, Recoverable
<1>12. (Hit(live)' <=> Hit(live')) /\ (Hit(fixed)' <=> Hit(fixed'))
  BY DEF Hit
<1> QED  BY <1>1, <1>8, <1>9, <1>10, <1>11, <1>12 DEF TrajectoryInvariant

LEMMA LearnKeeps ==
  ASSUME TrajectoryInvariant, Learn
  PROVE  TrajectoryInvariant'
<1>1. /\ stage = "learn" /\ stage' = "library" /\ case' = NoCase
      /\ case_index' = case_index + 1 /\ random' = FALSE
      /\ library' = IF Hit(live) THEN Accept(library, live) ELSE library
      /\ fixed_library' = IF Hit(fixed) /\ case_index + 1 <= fixed_library_warmup
                          THEN Accept(fixed_library, fixed) ELSE fixed_library
  BY DEF Learn
<1>2. /\ IsCase(case) /\ IsFound(live) /\ IsFound(fixed)
      /\ library \in Seq(Entries) /\ fixed_library \in Seq(Entries)
      /\ IsPrefix(fixed_library, library) /\ case_index \in Nat
      /\ case_index < fixed_library_warmup => fixed_library = library /\ fixed = live
  BY <1>1 DEF TrajectoryInvariant
<1>3. /\ case_index + 1 <= fixed_library_warmup <=> case_index < fixed_library_warmup
      /\ case_index + 1 \in Nat
      /\ case_index + 1 < fixed_library_warmup => case_index < fixed_library_warmup
  BY <1>2, TrajectoryConstants
<1>4. library' \in Seq(Entries) /\ fixed_library' \in Seq(Entries)
  BY <1>1, <1>2, AcceptedEntries
<1>5. library' = library \/ \E x \in Entries : library' = Append(library, x)
  BY <1>1, <1>2, AcceptedEntries
<1>6. case_index < fixed_library_warmup => fixed_library' = library'
  BY <1>1, <1>2, <1>3
<1>7. IsPrefix(fixed_library', library')
  <2>1. CASE case_index < fixed_library_warmup
    <3>1. Len(library') \in Nat  BY <1>4, LenProperties
    <3> QED  BY <1>6, <2>1, <3>1, PrefixOfItself
  <2>2. CASE ~(case_index < fixed_library_warmup)
    <3>1. fixed_library' = fixed_library  BY <1>1, <1>3, <2>2
    <3> QED  BY <1>2, <1>5, <3>1, PrefixOfMore
  <2> QED  BY <2>1, <2>2
<1>8. IsPrefix(fixed_library, library)'
  BY <1>7 DEF IsPrefix
<1> QED  BY <1>1, <1>3, <1>4, <1>6, <1>8 DEF TrajectoryInvariant

LEMMA TrajectoryKeeps ==
  ASSUME TrajectoryInvariant, [TrajectoryNext]_trajectoryVars
  PROVE  TrajectoryInvariant'
<1>1. CASE TrajectoryNext
  BY <1>1, ExcludeKeeps, StartCaseKeeps, LibraryStagesKeep, DiscoverKeeps, LearnKeeps
     DEF TrajectoryNext
<1>2. CASE UNCHANGED trajectoryVars
  BY <1>2 DEF trajectoryVars, TrajectoryInvariant, IsCase, IsFound, CaseScores, Recoverable,
              Hit, IsPrefix
<1> QED  BY <1>1, <1>2

\* The invariant holds throughout the stream.
THEOREM TrajectoryHolds == TrajectorySpec => []TrajectoryInvariant
<1>1. TrajectoryInit => TrajectoryInvariant  BY TrajectoryStarts
<1>2. TrajectoryInvariant /\ [TrajectoryNext]_trajectoryVars => TrajectoryInvariant'
  BY TrajectoryKeeps
<1> QED  BY <1>1, <1>2, PTL DEF TrajectorySpec

\* For every stream, library size and warm-up the frozen library is what the growing
\* one was: the control differs by growth alone.
THEOREM FrozenStaysThePast == TrajectorySpec => []FrozenLibraryIsThePast
<1>1. TrajectoryInvariant => FrozenLibraryIsThePast
  BY DEF TrajectoryInvariant, FrozenLibraryIsThePast
<1> QED  BY <1>1, TrajectoryHolds, PTL

\* For every scan that is closed under what a case makes illegal, and whatever the
\* gains, the three arms recover the same cases, and the order of the candidates
\* never decides whether the growing library recovers one.
THEOREM ArmsNeverDiffer == TrajectorySpec => []ArmsRecoverTheSameCases
<1>1. TrajectoryInvariant => ArmsRecoverTheSameCases
  BY DEF TrajectoryInvariant, ArmsRecoverTheSameCases
<1> QED  BY <1>1, TrajectoryHolds, PTL
=============================================================================
