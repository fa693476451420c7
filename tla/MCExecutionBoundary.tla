-------------------------- MODULE MCExecutionBoundary --------------------------
(***************************************************************************)
(* Instances of ExecutionBoundary for TLC: which operations may arrive and *)
(* with which keys, and what the requests may ask for.  Handlers are model *)
(* values, so that they can be permuted; keys are strings that name the    *)
(* operation they belong to ("any" is sent with more than one).            *)
(***************************************************************************)
EXTENDS ExecutionBoundary, TLC

\* Nothing distinguishes one handler from another, nor one request from
\* another as long as all or none of them are confirmed at the start.
CallSymmetry == Permutations(Calls)

Symmetry == CallSymmetry \cup Permutations(Requests)

Reversible(mode) == [mode |-> mode, irreversible |-> FALSE, rollbackPlan |-> TRUE]

PartialBody == {Reversible("partial_success")}

OneFailingBody == {Reversible("failure")}

\* Every outcome the transition table has a row for.
TableBodies == {Reversible(mode) : mode \in Modes \ {"cancel"}}

\* Everything an operator can ask for on the way to a confirmation.
PreparationBodies ==
    {Reversible("success"),
     [mode |-> "success", irreversible |-> FALSE, rollbackPlan |-> FALSE],
     [mode |-> "success", irreversible |-> TRUE, rollbackPlan |-> FALSE]}

AttemptKeys == [execute |-> {"e1", "e2"}, cancel |-> {"c1"}]

RollbackKeys == [execute |-> {"e1", "e2"}, rollback |-> {"b1", "b2"}]

PreparationKeys ==
    [request |-> {"r1"}, dry_run |-> {"d1", "d2"}, confirm |-> {"f1", "f2"}, execute |-> {"e1"}]

SharedKeys == [execute |-> {"any", "e1"}, cancel |-> {"any"}]

CancelKeys == [execute |-> {"e1"}, cancel |-> {"c1"}]

OneRollbackKeys == [execute |-> {"e1", "e2"}, rollback |-> {"b1"}]

AllKeys ==
    [request |-> {"r1"}, dry_run |-> {"d1"}, confirm |-> {"f1"},
     execute |-> {"e1"}, cancel |-> {"c1"}, rollback |-> {"b1"}]

===============================================================================
