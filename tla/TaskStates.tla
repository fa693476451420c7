------------------------------ MODULE TaskStates ------------------------------
(***************************************************************************)
(* The states of an orchestration task and the transitions between them    *)
(* (scripts/orchestration-v4/state-machine.mjs).                           *)
(***************************************************************************)

\* No row in the table of tasks yet.
Absent == "ABSENT"

Terminal == {"COMPLETE", "BLOCKED", "FAILED", "TIMED_OUT"}

\* The terminal states that block the tasks downstream.
Failing == Terminal \ {"COMPLETE"}

\* A task in one of these occupies its slot.
Active == {"CLAIMED", "RUNNING", "VALIDATING", "PR_OPENED"}

States == {"READY"} \cup Active \cup Terminal

Allowed ==
    ({"READY"} \X {"CLAIMED", "BLOCKED"})
    \cup ({"CLAIMED"} \X {"RUNNING", "BLOCKED", "FAILED"})
    \cup ({"RUNNING"} \X {"VALIDATING", "BLOCKED", "FAILED", "TIMED_OUT"})
    \cup ({"VALIDATING"} \X {"PR_OPENED", "COMPLETE", "BLOCKED", "FAILED", "TIMED_OUT"})
    \cup ({"PR_OPENED"} \X {"COMPLETE", "BLOCKED", "FAILED"})

===============================================================================
