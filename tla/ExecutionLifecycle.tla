-------------------------- MODULE ExecutionLifecycle --------------------------
(***************************************************************************)
(* The life cycle the documentation promises for the execution requests of *)
(* one action: a request appears as "requested" and from then on moves     *)
(* only along the transition table.  It says nothing of who moves it, so   *)
(* it is what a reader of the request's state column may rely on.          *)
(***************************************************************************)
EXTENDS ExecutionTransitions

CONSTANTS Requests

VARIABLE state    \* Requests -> ExecutionStates \cup {"absent"}

\* Rows that exist at the start may be anywhere in the life cycle.
Init == state \in [Requests -> ExecutionStates \cup {"absent"}]

Create(r) ==
    /\ state[r] = "absent"
    /\ state' = [state EXCEPT ![r] = "requested"]

Move(r) ==
    /\ state[r] # "absent"
    /\ \E s \in ExecutionStates :
        /\ IsValidExecutionTransition(state[r], s)
        /\ state' = [state EXCEPT ![r] = s]

Next == \E r \in Requests : Create(r) \/ Move(r)

Spec == Init /\ [][Next]_state

===============================================================================
