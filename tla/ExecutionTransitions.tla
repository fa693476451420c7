------------------------- MODULE ExecutionTransitions -------------------------
(***************************************************************************)
(* The states of an execution request and the transition table the         *)
(* handlers consult (src/lib/actions/execution/execution-transitions.ts).  *)
(***************************************************************************)

\* What adapter.execute may report; the handler copies it into the attempt
\* row and into the request row.
ExecutionResults == {"succeeded", "partial_succeeded", "failed", "timeout", "cancelled"}

RollbackResults == {"rolled_back", "rollback_failed"}

ExecutionStates ==
    {"requested", "dry_run_succeeded", "confirmation_required", "confirmed",
     "queued", "started", "cancel_requested", "rollback_requested", "blocked"}
    \cup ExecutionResults \cup RollbackResults

ValidExecutionTransitions ==
    {<<"requested", "dry_run_succeeded">>,
     <<"dry_run_succeeded", "confirmation_required">>,
     <<"confirmation_required", "confirmed">>,
     <<"confirmed", "queued">>,
     <<"queued", "started">>}
    \cup ({"started"} \X {"succeeded", "partial_succeeded", "failed", "timeout"})
    \cup ({"confirmed", "queued", "started"} \X {"cancel_requested"})
    \cup {<<"cancel_requested", "cancelled">>}
    \cup ({"failed", "partial_succeeded"} \X {"rollback_requested"})
    \cup ({"rollback_requested"} \X RollbackResults)

\* Any state may become "blocked"; everything else must be in the table.
IsValidExecutionTransition(from, to) ==
    \/ to = "blocked"
    \/ <<from, to>> \in ValidExecutionTransitions

===============================================================================
