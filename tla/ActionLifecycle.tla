---------------------------- MODULE ActionLifecycle ----------------------------
(***************************************************************************)
(* What a reader of the state column of the actions of one recommendation  *)
(* may rely on: at most one action is active, and states move along the    *)
(* table but for actions that are known to have been overwritten.          *)
(***************************************************************************)
EXTENDS ActionTransitions

CONSTANT Ids

VARIABLES state, late

OneActive == \A i, k \in Ids : IsActive(state[i]) /\ IsActive(state[k]) => i = k

\* Rows that exist at the start may be anywhere in the life cycle.
Init ==
    /\ state \in [Ids -> States \cup {Absent}]
    /\ OneActive
    /\ late = {}

Create(i) ==
    /\ state[i] = Absent
    /\ state' = [state EXCEPT ![i] = Recommended]
    /\ UNCHANGED late

Move(i) ==
    /\ \E to \in States :
          /\ isValidTransition(state[i], to)
          /\ state' = [state EXCEPT ![i] = to]
    /\ UNCHANGED late

\* A write that was decided on a state the action is no longer in.
Overwrite(i) ==
    /\ state[i] # Absent
    /\ \E to \in States : state' = [state EXCEPT ![i] = to]
    /\ late' = late \cup {i}

Next == (\E i \in Ids : Create(i) \/ Move(i) \/ Overwrite(i)) /\ OneActive'

Spec == Init /\ [][Next]_<<state, late>>

===============================================================================
