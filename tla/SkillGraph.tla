----------------------------- MODULE SkillGraph -----------------------------
(***************************************************************************)
(* AuditedSkillGraph of cmd_audit/repair/skill_graph.py: an audit of a     *)
(* transfer or of a composition leaves an attempt and, when its evidence   *)
(* passes and no cycle arises, an edge between two niches.  The id of an   *)
(* edge names its kind and its two revisions but not its niches, so an     *)
(* audit may move an edge.  Of the evidence rows only what the gates read  *)
(* is kept.                                                                *)
(***************************************************************************)
EXTENDS Integers, Sequences, Functions

CONSTANTS
  GraphNiches,
  Audits,      \* what may be audited: [kind, from, to, source, target]
  Evidence,    \* what its rows may say
  MaxAttempts  \* bound on the attempts

Kinds == {"transfer", "composition"}

ASSUME GraphAssumption ==
  /\ MaxAttempts \in Nat
  /\ \A a \in Audits : a.kind \in Kinds /\ a.from \in GraphNiches /\ a.to \in GraphNiches
  /\ Evidence \subseteq
       [rows : Nat, families : Nat, regression : BOOLEAN, strong : BOOLEAN,
        executed : BOOLEAN, affordable : BOOLEAN, positive : BOOLEAN]

VARIABLES edges, attempts

graphVars == <<edges, attempts>>

\* strong: the source's mean gain reaches the success threshold; positive: so are
\* the mean increment over the target's incumbent, or over both singles, and its
\* lower bound.
Passes(kind, e) ==
  /\ e.rows >= 3 /\ e.families >= 2
  /\ ~e.regression /\ e.positive
  /\ kind = "transfer" => e.strong
  /\ kind = "composition" => e.executed /\ e.affordable

EdgeId(a) == <<a.kind, a.source, a.target>>

Arcs == Range(edges)

ClosedUnderArcs(C) == \A x, y \in GraphNiches : x \in C /\ <<x, y>> \in Arcs => y \in C

\* The niches that the search from n visits.
Reachable(n) ==
  {m \in GraphNiches :
     \A C \in SUBSET GraphNiches : n \in C /\ ClosedUnderArcs(C) => m \in C}

\* Mistake: only the opposite edge is looked for.
HasOpposite(source, target) == <<target, source>> \in Arcs

WouldCreateCycle(source, target) == source \in Reachable(target)

\* A new edge, or an old one under the same id, which moves.
WithEdge(a) ==
  [id \in DOMAIN edges \cup {EdgeId(a)} |->
     IF id = EdgeId(a) THEN <<a.from, a.to>> ELSE edges[id]]

\* A refused audit removes no edge that an earlier one activated.
Audit(a, e) ==
  /\ a.from # a.to                       \* or the call raises
  /\ Len(attempts) < MaxAttempts
  /\ LET cyclic == Passes(a.kind, e) /\ WouldCreateCycle(a.from, a.to)
         active == Passes(a.kind, e) /\ ~cyclic
     IN  /\ edges' = IF active THEN WithEdge(a) ELSE edges
         /\ attempts' = Append(attempts,
              [audit |-> a, decision |-> IF active THEN "activate"
                                         ELSE IF cyclic THEN "cycle_rejected"
                                         ELSE "refused"])

GraphInit == edges = <<>> /\ attempts = <<>>

GraphNext == \E a \in Audits, e \in Evidence : Audit(a, e)

GraphSpec == GraphInit /\ [][GraphNext]_graphVars
-----------------------------------------------------------------------------
\* However edges are activated, refused and moved by a later audit of the same
\* revisions, the niches form no cycle: every set of niches has one that leads
\* to none of them.
GraphIsAcyclic ==
  \A S \in (SUBSET GraphNiches) \ {{}} :
    \E n \in S : \A m \in S : <<n, m>> \notin Arcs
=============================================================================
