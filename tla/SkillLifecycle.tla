--------------------------- MODULE SkillLifecycle ---------------------------
(***************************************************************************)
(* What the skill-evolution loop promises about one skill, stated without  *)
(* versions, tapes, ledgers or audits: a skill is a candidate until a case *)
(* deposits it, is on trial while provisional, becomes stable on three     *)
(* successes of two families, which stay its anchors, is given up after    *)
(* three failures without a success, and never returns from retirement.    *)
(* Only its own successes and failures decide.                             *)
(***************************************************************************)
EXTENDS EvolutionRules

CONSTANTS
  Skills,
  Cases,
  Family   \* the recurrence family of each case

VARIABLES
  state,   \* lifecycle state of each skill
  wins,    \* cases on which it ran and succeeded
  losses,  \* cases on which it ran and failed
  anchor,  \* its anchor cases, {} before promotion
  halted   \* an exception ended the experiment

vars == <<state, wins, losses, anchor, halted>>

InState(x) == {s \in Skills : state[s] = x}

Active == InState("provisional_active") \cup InState("stable")

Add(record, members, c) ==
  [s \in Skills |-> IF s \in members THEN record[s] \cup {c} ELSE record[s]]

\* Active skills run on a case none of them has run on.
Try(c, won, lost) ==
  /\ won \cap lost = {}
  /\ \A s \in won \cup lost : c \notin wins[s] \cup losses[s]
  /\ wins' = Add(wins, won, c)
  /\ losses' = Add(losses, lost, c)

Commit(deposited) ==
  /\ ~halted
  /\ \E c \in Cases, won \in SUBSET Active, lost \in SUBSET Active : Try(c, won, lost)
  /\ state' = [s \in Skills |->
       IF s \in deposited THEN "provisional_active"
       ELSE IF /\ state[s] = "provisional_active"
               /\ ShouldRetireProvisional(wins'[s], losses'[s])
            THEN "retired"
            ELSE state[s]]
  /\ UNCHANGED <<anchor, halted>>

Promote(s) ==
  /\ ~halted
  /\ state[s] = "provisional_active"
  /\ \E T \in SUBSET wins[s] :
       /\ Cardinality(T) = 3 /\ CrossFamily(T, Family)
       /\ anchor' = [anchor EXCEPT ![s] = T]
  /\ state' = [state EXCEPT ![s] = "stable"]
  /\ UNCHANGED <<wins, losses, halted>>

Retire(s) ==
  /\ ~halted
  /\ state[s] = "stable"
  /\ state' = [state EXCEPT ![s] = "retired"]
  /\ UNCHANGED <<wins, losses, anchor, halted>>

\* A failed transaction may have recorded runs, but decides nothing.
Halt ==
  /\ ~halted /\ halted' = TRUE
  /\ \/ UNCHANGED <<wins, losses>>
     \/ \E c \in Cases, won \in SUBSET Active, lost \in SUBSET Active : Try(c, won, lost)
  /\ UNCHANGED <<state, anchor>>

Init ==
  /\ state = [s \in Skills |-> "candidate"]
  /\ wins = [s \in Skills |-> {}]
  /\ losses = [s \in Skills |-> {}]
  /\ anchor = [s \in Skills |-> {}]
  /\ halted = FALSE

Next ==
  \/ \E deposited \in SUBSET InState("candidate") : Commit(deposited)
  \/ \E s \in Skills : Promote(s) \/ Retire(s)
  \/ Halt

Spec == Init /\ [][Next]_vars
=============================================================================
