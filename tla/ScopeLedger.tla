---------------------------- MODULE ScopeLedger ----------------------------
(***************************************************************************)
(* ScopeLedger of cmd_audit/repair/scope_ledger.py: the audited licence of *)
(* a structural signal to route in a domain.  A key is a pair of signal    *)
(* and domain; an entry holds the counts of its audit data.  An auditing   *)
(* process keeps the ledger, its undo history and the file it writes; a    *)
(* new process reads the file and starts with no history.  Of the family-  *)
(* blocked interval only the side of the threshold on which its ends fall  *)
(* is read.                                                                *)
(***************************************************************************)
EXTENDS Integers, FiniteSets, Sequences

CONSTANTS
  Keys,      \* pairs of signal type and domain
  Batches,   \* audits: [fires, valid : Nat, gain : Int, sound : BOOLEAN]
  n_min,
  MaxUndo,   \* bound on the undo history
  MaxFires   \* bound on the audit data of an entry

ASSUME ScopeAssumption ==
  /\ n_min \in Nat \ {0} /\ MaxUndo \in Nat /\ MaxFires \in Nat
  /\ Batches \subseteq [fires : Nat, valid : Nat, gain : Int, sound : BOOLEAN]
  /\ \A b \in Batches : b.fires > 0 /\ b.valid <= b.fires

VARIABLES entries, history, scope_file

scopeVars == <<entries, history, scope_file>>

NoEntries == <<>>

Shadow == [fires |-> 0, valid |-> 0, gain |-> 0, status |-> "shadow", sound |-> FALSE]

Entry(k) == IF k \in DOMAIN entries THEN entries[k] ELSE Shadow

\* The sides of the threshold on which the interval's ends may fall.
Intervals(e) ==
  IF e.valid = e.fires THEN {[lower |-> TRUE, upper |-> TRUE]}
  ELSE IF e.valid = 0 THEN {[lower |-> FALSE, upper |-> FALSE]}
  ELSE {i \in [lower : BOOLEAN, upper : BOOLEAN] : i.lower => i.upper}

Extended(e, b) ==
  [fires |-> e.fires + b.fires, valid |-> e.valid + b.valid, gain |-> e.gain + b.gain,
   status |-> e.status, sound |-> b.sound]

\* Mistake: a retired signal with good evidence is promoted again.
PromotesAgain(e, i) ==
  e.status # "active" /\ e.fires >= n_min /\ i.lower /\ e.gain > 0 /\ e.sound

Promotes(e, i) ==
  e.status = "shadow" /\ e.fires >= n_min /\ i.lower /\ e.gain > 0 /\ e.sound

\* Mistake: only the precision of a signal retires it.
RetiresOnPrecision(e, i) == e.status = "active" /\ e.fires >= n_min /\ ~i.upper

Retires(e, i) ==
  e.status = "active" /\ e.fires >= n_min /\ (~i.upper \/ ~e.sound)

StatusAfter(e, i) ==
  IF Promotes(e, i) THEN "active"
  ELSE IF Retires(e, i) THEN "retired" ELSE e.status

\* The undo copy is taken before the entry changes.
Audit(k, b) ==
  LET e == Extended(Entry(k), b) IN
  /\ Len(history) < MaxUndo
  /\ e.fires <= MaxFires
  /\ history' = Append(history, entries)
  /\ \E i \in Intervals(e) :
       entries' = [x \in DOMAIN entries \cup {k} |->
                     IF x = k THEN [e EXCEPT !.status = StatusAfter(e, i)]
                     ELSE entries[x]]
  /\ UNCHANGED scope_file

\* Without history the rollback raises and changes nothing.
Rollback ==
  /\ history # <<>>
  /\ entries' = history[Len(history)]
  /\ history' = SubSeq(history, 1, Len(history) - 1)
  /\ UNCHANGED scope_file

Write == scope_file' = entries /\ UNCHANGED <<entries, history>>

\* read() refuses an active entry whose last audit broke the provenance contract.
Readable(file) ==
  \A k \in DOMAIN file : file[k].status = "active" => file[k].sound

\* A new process: what was not written is lost, and so is the history.
Read ==
  /\ Readable(scope_file)
  /\ entries' = scope_file /\ history' = <<>>
  /\ UNCHANGED scope_file

\* to_scope_policy: the signals that may route, each in its domains.
ScopePolicy(file) ==
  {k \in DOMAIN file : file[k].status = "active" /\ file[k].sound}

ScopeInit == entries = NoEntries /\ history = <<>> /\ scope_file = NoEntries

ScopeNext ==
  \/ \E k \in Keys, b \in Batches : Audit(k, b)
  \/ Rollback
  \/ Write
  \/ Read
-----------------------------------------------------------------------------
\* Whatever sequence of audits, rollbacks, writes and restarts led to it, the
\* ledger can be written and read back: an active entry always carries the
\* provenance contract that read() demands, because an audit that breaks it
\* retires the entry and a rollback cannot separate the two.
LedgerIsReadable ==
  /\ Readable(entries)
  /\ Readable(scope_file)
  /\ \A n \in DOMAIN history : Readable(history[n])

\* A retired signal comes back only by going back, to an undo copy or to a file
\* written before its retirement: no audit, which adds an undo copy, revives it.
RetirementIsFinal ==
  [][\A k \in DOMAIN entries :
       /\ entries[k].status = "retired"
       /\ ~(k \in DOMAIN entries' /\ entries'[k].status = "retired")
       => Len(history') <= Len(history)]_entries
=============================================================================
