---------------------------- MODULE MCActionCenter ----------------------------
(***************************************************************************)
(* Instances of ActionCenter for TLC: where behaviours start.              *)
(***************************************************************************)
EXTENDS ActionCenter, TLC

CONSTANTS a1, a2, e1, e2, d1

DraftedRow(state, e) == [NoRow EXCEPT !.state = state, !.evidence = e, !.assets = d1, !.plan = d1]

TwoRows(r1, r2) == [i \in Ids |-> IF i = a1 THEN r1 ELSE r2]

Start(r1, r2, written, rejection) ==
    [rows |-> TwoRows(r1, r2), newer |-> written, lastRejected |-> rejection]

\* Nothing; an action that awaits approval, and one that was created after
\* another one was rejected; and two rejected actions.
FourStarts ==
    {Start(NoRow, NoRow, {}, None),
     Start(DraftedRow(Awaiting, e1), NoRow, {}, None),
     Start(DraftedRow(Rejected, e1), DraftedRow(Draft, e2), {<<a2, a1>>}, e1),
     Start(DraftedRow(Rejected, e1), DraftedRow(Rejected, e2), {<<a2, a1>>}, e2)}

Symmetry == Permutations(Calls)

===============================================================================
