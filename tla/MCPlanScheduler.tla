--------------------------- MODULE MCPlanScheduler ---------------------------
(***************************************************************************)
(* Instances of PlanScheduler for TLC: dependency graphs of three          *)
(* operations, and a worker slot for each of the two queues.                *)
(***************************************************************************)
EXTENDS PlanScheduler, TLC

CONSTANTS a, b, c

\* One operation behind another behind a clone: a cascade of two levels.
Chain == (a :> {}) @@ (b :> {a}) @@ (c :> {b})

\* The last operation waits for two that run side by side.
Join == (a :> {}) @@ (b :> {}) @@ (c :> {a, b})

\* A constraint: two faults, and beside a start task that is delivered again no stop and no
\* fault but a raising publish.  It takes no step from a slot: where SendFails is cut off,
\* SendOp is not.
Troubles == faults["enqueue"] + faults["crash"] + faults["redeliver"]
TwoFaults ==
    /\ Troubles + faults["restart"] + faults["outage"] <= 2
    /\ faults["restart"] = 0 \/ (Troubles = 0 /\ cancel = "none")
=============================================================================
