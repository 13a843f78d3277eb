--------------------------- MODULE AuditedNiches ---------------------------
(***************************************************************************)
(* The niche runner with the audited skill graph it is given: the graph is *)
(* audited before the run, and the arm map_elites_edges then executes the  *)
(* sources of its edges.  Nothing audits during the run, and of the graph  *)
(* the runner reads only these sources, so what else it holds is forgotten *)
(* when the run starts.  Revision ids are content hashes, so an audit may  *)
(* name a revision that the run has yet to propose, or never will.         *)
(***************************************************************************)
EXTENDS NicheEvolution, SkillGraph

auditedVars == <<vars, graphVars>>

\* Ids of edges begin with their kind, then their source.  A source that is no
\* revision of this stream is never found in the archive.
SourcesOf(kind, n) ==
  SetToSortSeq({id[2] : id \in {x \in DOMAIN edges : x[1] = kind /\ edges[x][2] = n}}
                 \cap Revisions,
               LAMBDA r, s : IdRank[r.op, r.case] < IdRank[s.op, s.case])

SourcesInto(n) == SourcesOf("composition", n) \o SourcesOf("transfer", n)

\* The arms without edges, and the arm with them.
ArmSources ==
  {[n \in Range(Niche) |-> <<>>], [n \in Range(Niche) |-> SourcesInto(n)]}

Init == GraphInit /\ RunInit /\ phase = "audit" /\ edge_sources = <<>>

Auditing == phase = "audit" /\ GraphNext /\ UNCHANGED vars

StartRun ==
  /\ phase = "audit" /\ phase' = "test"
  /\ edge_sources' \in ArmSources
  /\ edges' = <<>> /\ attempts' = <<>>
  /\ UNCHANGED <<case_index, executions, queue, candidates, elite>>

Running == Step /\ UNCHANGED graphVars

Ended == phase \in {"done", "aborted"} /\ UNCHANGED auditedVars

Next == Auditing \/ StartRun \/ Running \/ Ended

Spec == Init /\ [][Next]_auditedVars
=============================================================================
