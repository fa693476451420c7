----------------------------- MODULE TaskLifecycle -----------------------------
(***************************************************************************)
(* What a reader of the tasks' states may rely on: a task is imported as   *)
(* READY, moves along the table only, and one step of the daemon never     *)
(* takes it over two transitions at once.                                  *)
(***************************************************************************)
EXTENDS TaskStates

CONSTANT Tasks

VARIABLE state

Init == state = [t \in Tasks |-> Absent]

Move(t) ==
    \/ state'[t] = state[t]
    \/ state[t] = Absent /\ state'[t] = "READY"
    \/ <<state[t], state'[t]>> \in Allowed

Next ==
    /\ state' \in [Tasks -> States \cup {Absent}]
    /\ \A t \in Tasks : Move(t)

Spec == Init /\ [][Next]_state

===============================================================================
