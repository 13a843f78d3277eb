-------------------------- MODULE MCRules --------------------------
(***************************************************************************)
(* The parts that share no state with another one, in one run: a behaviour *)
(* takes one of them and stays with it.                                    *)
(*   promotion    promotion_decision over every short history              *)
(*   quota        the 3 + 2 retrieval quota over every size of its two     *)
(*                queues                                                   *)
(*   gate         the item gate over one recall set                        *)
(*   trajectory   Experiment 24 over a short stream                        *)
(***************************************************************************)
EXTENDS DecisionRules, ItemGate, OperatorTrajectory

CONSTANTS
  w1, w2,        \* content words
  stepA, stepB   \* steps: an action at the first, at the second point

VARIABLE part

MCFingerprints == {{w1}, {w1, w2}}
MCLegalSteps == {{stepA}, {stepA, stepB}}
MCScanOrder == <<{stepA}, {stepB}, {stepA, stepB}>>

Init ==
  /\ part \in {"promotion", "quota", "gate", "trajectory"}
  /\ RulesInit /\ GateInit /\ TrajectoryInit

Choosing ==
  /\ \/ part = "promotion" /\ Succeed
     \/ part = "quota" /\ (Deposit \/ Stabilise)
  /\ UNCHANGED <<part, gateVars, trajectoryVars>>

Gating == part = "gate" /\ GateNext /\ UNCHANGED <<part, rulesVars, trajectoryVars>>

Evolving ==
  part = "trajectory" /\ TrajectoryNext /\ UNCHANGED <<part, rulesVars, gateVars>>

Next == Choosing \/ Gating \/ Evolving

Spec == Init /\ [][Next]_<<part, rulesVars, gateVars, trajectoryVars>>
=============================================================================
