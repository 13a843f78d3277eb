--------------------------- MODULE FailureMemory ---------------------------
(***************************************************************************)
(* The two-tier failure memory of cmd_audit/repair/failure_memory.py:      *)
(* FailureMemorySkillLoop clusters recovered cases by the content of their *)
(* memory and distils a pattern from each cluster that is large enough;    *)
(* MarkdownFailureMemoryStore keeps the cases, the patterns and an index   *)
(* of both as files.  The writing programs (Experiment 19 and              *)
(* build_skill_library_from_ledger) may be killed between any two file     *)
(* operations, or while a file is written, and are run again on the same   *)
(* directory with an empty loop.  A cold loop only reads the files.        *)
(***************************************************************************)
EXTENDS Fingerprints

CONSTANTS
  Cases,
  TextsOf,     \* per case, the words of its memory in order
  RepairsOf,   \* per case, the pairs of label and hop that may recover it
  threshold,   \* cases of a cluster that make a pattern
  top_k,       \* words of a fingerprint
  Half,        \* the cluster threshold is Half[1] / Half[2]
  MaxRuns      \* bound on the runs of the writing program

ASSUME FailureMemoryAssumption ==
  /\ threshold \in Nat \ {0} /\ top_k \in Nat \ {0} /\ MaxRuns \in Nat
  /\ Half \in Nat \X (Nat \ {0}) /\ Half[1] <= Half[2]
  /\ \A c \in Cases : TextsOf[c] # <<>> /\ TextsOf[c] \in Seq(ToSet(TextsOf[c]))

VARIABLES
  case_files, pattern_files, index,   \* the directory
  clusters, patterns,                 \* the loop's memory
  recorded,                           \* cases of this run
  step,                               \* position in Order, 0 between cases
  current,                            \* what is being recorded
  runs

files == <<case_files, pattern_files, index>>
loop == <<clusters, patterns>>
vars == <<files, loop, recorded, step, current, runs>>

-----------------------------------------------------------------------------
(* Clusters.                                                               *)

Fingerprint(words) == MostFrequent(words, top_k)

\* Mistake: one pattern per label.
IdByLabel(label, n) == <<label, 0>>

PatternId(label, n) == <<label, n>>

\* The best cluster of the label that reaches the threshold, the first of equals.
Matching(label, f) ==
  LET Sim(n) == Similarity(clusters[n].fingerprint, f)
      same == {n \in DOMAIN clusters : clusters[n].label = label}
  IN  {n \in same :
         /\ Sim(n)[1] > 0 /\ ~Exceeds(Half, Sim(n))
         /\ \A m \in same : ~Exceeds(Sim(m), Sim(n)) /\ (m < n => Exceeds(Sim(n), Sim(m)))}

Opened(label, f) ==
  [label |-> label, pattern_id |-> PatternId(label, Len(clusters)),
   cases |-> <<>>, hops |-> <<>>, texts |-> <<>>, fingerprint |-> f]

Grown(cluster, c, hop) ==
  LET words == cluster.texts \o TextsOf[c]
  IN  [cluster EXCEPT !.cases = Append(@, c), !.hops = Append(@, hop),
                      !.texts = words, !.fingerprint = Fingerprint(words)]

\* Mistake: the seed takes the hop of the latest case.
LatestHop(cluster) == Last(cluster.hops)

HopIndex(cluster) == MostCommon(cluster.hops)

\* The operator is a vote of its own, over the cases' operators.  Neither writing
\* program gives an operator, so each case's is its label at its hop; all cases
\* of a cluster have one label, and the two votes count the same hops.
OperatorHop(cluster) == MostCommon(cluster.hops)

CaseFile(c) == [label |-> c.label]

PatternFile(cluster) ==
  [label |-> cluster.label, sources |-> cluster.cases,
   operator_hop |-> OperatorHop(cluster), signature |-> cluster.fingerprint]

Record(cluster) ==
  [label |-> cluster.label, sources |-> cluster.cases,
   hop_index |-> HopIndex(cluster), signature |-> cluster.fingerprint]

\* The file that a program leaves if it is killed between emptying and writing it.
Torn == <<>>

\* A reloaded record takes its hop from the operator's first step.
Reloaded(file) ==
  [label |-> file.label, sources |-> file.sources,
   hop_index |-> file.operator_hop, signature |-> file.signature]

-----------------------------------------------------------------------------
(* record_recovered_case, one file operation at a time.                    *)

\* Mistake: the index before the files.
IndexFirst ==
  <<"case_line", "case_file", "cluster", "pattern_line", "pattern_file", "memory">>

\* Mistake: the pattern before its cases.
PatternFirst ==
  <<"cluster", "pattern_file", "pattern_line", "memory", "case_file", "case_line">>

Order ==
  <<"case_file", "case_line", "cluster", "pattern_file", "pattern_line", "memory">>

At(s) == step # 0 /\ Order[step] = s
Advance == step' = IF step = Len(Order) THEN 0 ELSE step + 1

Cluster == clusters[current.cluster]
Put(f, x, v) == [y \in DOMAIN f \cup {x} |-> IF y = x THEN v ELSE f[y]]

\* An index line: of its summary nothing is kept but the file it links.
CaseLine == <<"case", current.case>>
PatternLine == <<"pattern", Cluster.pattern_id>>

\* A case recovers with a label at a hop, once in a run.
Recover ==
  /\ step = 0
  /\ \E c \in Cases \ recorded : \E choice \in RepairsOf[c] :
       /\ recorded' = recorded \cup {c}
       /\ current' = [case |-> c, label |-> choice[1], hop |-> choice[2], cluster |-> 0]
  /\ step' = 1
  /\ UNCHANGED <<files, loop, runs>>

WriteCase ==
  /\ At("case_file")
  /\ case_files' = Put(case_files, current.case, CaseFile(current))
  /\ Advance
  /\ UNCHANGED <<pattern_files, index, loop, recorded, current, runs>>

ListCase ==
  /\ At("case_line")
  /\ index' = index \cup {CaseLine}
  /\ Advance
  /\ UNCHANGED <<case_files, pattern_files, loop, recorded, current, runs>>

\* The case joins its cluster, or opens one; below the threshold that is all.
AssignCluster ==
  /\ At("cluster")
  /\ LET f == Fingerprint(TextsOf[current.case])
         found == Matching(current.label, f)
         n == IF found = {} THEN Len(clusters) + 1 ELSE Min(found)
         extended == IF found = {} THEN Append(clusters, Opened(current.label, f))
                     ELSE clusters
         cluster == Grown(extended[n], current.case, current.hop)
     IN  /\ clusters' = [extended EXCEPT ![n] = cluster]
         /\ IF Len(cluster.cases) < threshold
            THEN step' = 0 /\ current' = <<>>
            ELSE Advance /\ current' = [current EXCEPT !.cluster = n]
  /\ UNCHANGED <<files, patterns, recorded, runs>>

WritePattern ==
  /\ At("pattern_file")
  /\ pattern_files' = Put(pattern_files, Cluster.pattern_id, PatternFile(Cluster))
  /\ Advance
  /\ UNCHANGED <<case_files, index, loop, recorded, current, runs>>

ListPattern ==
  /\ At("pattern_line")
  /\ index' = index \cup {PatternLine}
  /\ Advance
  /\ UNCHANGED <<case_files, pattern_files, loop, recorded, current, runs>>

KeepPattern ==
  /\ At("memory")
  /\ patterns' = Put(patterns, Cluster.pattern_id, Record(Cluster))
  /\ Advance
  /\ current' = IF step = Len(Order) THEN <<>> ELSE current
  /\ UNCHANGED <<files, clusters, recorded, runs>>

\* write_text empties the file before it writes it.
Tear ==
  CASE At("case_file") ->
         /\ case_files' = Put(case_files, current.case, Torn)
         /\ UNCHANGED <<pattern_files, index>>
    [] At("pattern_file") ->
         /\ pattern_files' = Put(pattern_files, Cluster.pattern_id, Torn)
         /\ UNCHANGED <<case_files, index>>
    [] At("case_line") \/ At("pattern_line") ->
         /\ index' = {}
         /\ UNCHANGED <<case_files, pattern_files>>
    [] OTHER -> UNCHANGED files

\* The program ends or is killed, perhaps while it writes, and is run again.
RunAgain ==
  /\ runs < MaxRuns
  /\ runs' = runs + 1
  /\ clusters' = <<>> /\ patterns' = <<>> /\ recorded' = {}
  /\ step' = 0 /\ current' = <<>>
  /\ (Tear \/ UNCHANGED files)

Init ==
  /\ case_files = <<>> /\ pattern_files = <<>> /\ index = {}
  /\ clusters = <<>> /\ patterns = <<>> /\ recorded = {}
  /\ step = 0 /\ current = <<>> /\ runs = 1

Next ==
  \/ Recover \/ WriteCase \/ ListCase \/ AssignCluster \/ WritePattern
  \/ ListPattern \/ KeepPattern \/ RunAgain

Spec == Init /\ [][Next]_vars
-----------------------------------------------------------------------------
\* The index, which sends an agent to the files, names only files that exist,
\* wherever a run was killed.
IndexNamesFiles ==
  \A line \in index :
    line[2] \in IF line[1] = "case" THEN DOMAIN case_files ELSE DOMAIN pattern_files

\* A pattern that can be read, from whichever run, rests on at least threshold
\* cases, each of which has a file.
PatternsAreEvidenced ==
  \A id \in DOMAIN pattern_files :
    pattern_files[id] # Torn =>
      /\ Cardinality(ToSet(pattern_files[id].sources)) >= threshold
      /\ ToSet(pattern_files[id].sources) \subseteq DOMAIN case_files

\* Between cases, each cluster that is large enough owns a pattern made of its
\* own cases in memory, and no other cluster of the run, of the same label or not,
\* has taken its place.  It does not speak of the files: a later run reuses the
\* ids and overwrites the patterns of an earlier one.
ClustersOwnTheirPatterns ==
  step = 0 =>
    \A n \in DOMAIN clusters :
      Len(clusters[n].cases) >= threshold =>
        /\ clusters[n].pattern_id \in DOMAIN patterns
        /\ patterns[clusters[n].pattern_id].sources = clusters[n].cases
        /\ patterns[clusters[n].pattern_id].label = clusters[n].label

\* Between cases, a cold loop reads from the directory each pattern that the
\* running one has in memory, with the same seed: no later case changed the one
\* without the other, no other cluster took the file, and the hop the memory keeps
\* is that of the operator in the file.
ReloadGivesTheSameSeeds ==
  step = 0 =>
    \A id \in DOMAIN patterns :
      /\ id \in DOMAIN pattern_files /\ pattern_files[id] # Torn
      /\ Reloaded(pattern_files[id]) = patterns[id]
=============================================================================
