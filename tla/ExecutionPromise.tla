--------------------------- MODULE ExecutionPromise ---------------------------
(***************************************************************************)
(* What the execution boundary promises about the outside world, whatever  *)
(* the interleaving of its handlers, their crashes and the expiry of their *)
(* locks: the adapter runs at most once for a request, only after the      *)
(* attempt that owns the run was recorded; its result is recorded once and *)
(* never changes; and nobody is told a result before it is recorded, or    *)
(* another one than the recorded one.                                      *)
(***************************************************************************)
EXTENDS Naturals

CONSTANTS Requests, Results

VARIABLES
    attempt,    \* Requests -> {"none", "started"} \cup Results
    effects,    \* Requests -> how often the adapter ran
    answers     \* the results reported to operators, as <<request, result>>

vars == <<attempt, effects, answers>>

Init ==
    /\ attempt = [r \in Requests |-> "none"]
    /\ effects = [r \in Requests |-> 0]
    /\ answers = {}

Claim(r) ==
    /\ attempt[r] = "none"
    /\ attempt' = [attempt EXCEPT ![r] = "started"]
    /\ UNCHANGED <<effects, answers>>

RunAdapter(r) ==
    /\ attempt[r] = "started"
    /\ effects[r] = 0
    /\ effects' = [effects EXCEPT ![r] = 1]
    /\ UNCHANGED <<attempt, answers>>

Record(r, result) ==
    /\ attempt[r] = "started"
    /\ effects[r] = 1
    /\ attempt' = [attempt EXCEPT ![r] = result]
    /\ UNCHANGED <<effects, answers>>

Answer(r) ==
    /\ attempt[r] \in Results
    /\ answers' = answers \cup {<<r, attempt[r]>>}
    /\ UNCHANGED <<attempt, effects>>

Next == \E r \in Requests :
    \/ Claim(r)
    \/ RunAdapter(r)
    \/ \E result \in Results : Record(r, result)
    \/ Answer(r)

Spec == Init /\ [][Next]_vars

===============================================================================
