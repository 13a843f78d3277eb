---------------------------- MODULE ScopedArena ----------------------------
(***************************************************************************)
(* The two processes of the structural experiment: one audits signals and  *)
(* writes the scope ledger, the other (experiments/arena_cli.py) reads the *)
(* file, derives the policy and runs the arena under it.  The arena reads  *)
(* the file once, so what the auditor holds in memory then ends with it.   *)
(***************************************************************************)
EXTENDS ArenaRun, ScopeLedger

scopedVars == <<vars, scopeVars>>

\* is_active: the signals that some active key allows in this arena's domain.
ActiveSignals(keys) == {k[1] : k \in {x \in keys : x[2] \in {ArenaId, "*"}}}

Init == ScopeInit /\ RunInit /\ policy = {} /\ phase = "audit"

Auditing == phase = "audit" /\ ScopeNext /\ UNCHANGED vars

\* --scope-ledger is optional: without it the policy is empty.
StartRun ==
  /\ phase = "audit" /\ Readable(scope_file)
  /\ phase' = "case" /\ plan' \in Plans
  /\ policy' \in {{}, ActiveSignals(ScopePolicy(scope_file))}
  /\ entries' = NoEntries /\ history' = <<>> /\ scope_file' = NoEntries
  /\ UNCHANGED <<position, depositionVars, tried, chosen, probeVars>>

Running == phase # "audit" /\ RunNext /\ UNCHANGED scopeVars

Ended == phase \in {"done", "crashed"} /\ UNCHANGED scopedVars

Next == Auditing \/ StartRun \/ Running \/ Ended

Spec == Init /\ [][Next]_scopedVars /\ WF_scopedVars(StartRun \/ Running)
=============================================================================
