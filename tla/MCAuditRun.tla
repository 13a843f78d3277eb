----------------------------- MODULE MCAuditRun -----------------------------
(***************************************************************************)
(* A small instance of AuditRun for TLC: three cases.  The second recalls  *)
(* nothing, so that its record is keyed by its query, and the hook opens   *)
(* it only with the bonus of a similar record; the third recalls what is   *)
(* similar to the first.                                                   *)
(***************************************************************************)
EXTENDS AuditRun

CONSTANTS w1, w2, w3, w4

Call(agent, adapter_name, llm) == [agent |-> agent, adapter |-> adapter_name, llm |-> llm]

Calls ==
  {Call(FALSE, "mem0", "none"), Call(TRUE, "none", "none"), Call(TRUE, "mem0", "none"),
   Call(TRUE, "letta", "none"), Call(TRUE, "mem0", "required"), Call(TRUE, "letta", "optional")}

Queries == <<{w1, w2}, {w1}, {w4}>>
Memories == <<<<w1, w3, w1>>, <<>>, <<w1, w4>>>>
Confidences == <<600, 378, 700>>
Gaps == <<None, "retrieval_error", "injection_error">>
Assessments == <<"partial", "failed", "recovered">>
=============================================================================
