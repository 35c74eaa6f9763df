------------------------------ MODULE Blueprint ------------------------------
(* A blueprint as its validation (blueprint/schema.py) leaves it: the steps in *)
(* an order in which each follows what it requires.  A step is its position in *)
(* payload["order"].  BlueprintDestroy and BlueprintDeploy walk the same one.  *)
EXTENDS Naturals

CONSTANTS
    N,         \* the number of steps
    Requires,  \* the direct requirements of each step
    Optional,  \* the steps with optional
    FailFast   \* policy.fail_fast

Steps == 1..N

ASSUME NAssumption == N \in Nat \ {0}
\* topological_order.
ASSUME OrderAssumption ==
    /\ Requires \in [Steps -> SUBSET Steps]
    /\ \A s \in Steps : \A r \in Requires[s] : r < s
ASSUME StepAssumption ==
    /\ Optional \in SUBSET Steps
    /\ FailFast \in BOOLEAN
=============================================================================
