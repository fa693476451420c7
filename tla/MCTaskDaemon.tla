----------------------------- MODULE MCTaskDaemon -----------------------------
(***************************************************************************)
(* An instance of TaskDaemon for TLC: a deterministic verification, and    *)
(* two implementations that wait for it, own a file in common and may be   *)
(* attempted twice and once.                                               *)
(***************************************************************************)
EXTENDS TaskDaemon

CONSTANTS plan, build, other

AllAfterPlan == [t \in Tasks |-> IF t = plan THEN {} ELSE {plan}]

OnlyBuildRetries == [t \in Tasks |-> IF t = build THEN 2 ELSE 1]

===============================================================================
