--------------------------- MODULE MCCollectionLanes ---------------------------
(***************************************************************************)
(* Instances of CollectionLanes for TLC: which lanes there are, what their *)
(* collections may come to, and which invocations share a process.         *)
(***************************************************************************)
EXTENDS CollectionLanes

CONSTANTS probe, hoophall, w1, w2, p1, p2

ProbeFirst == <<probe, hoophall>>

HoophallOnly == <<hoophall>>

OneProcess == [w \in Workers |-> p1]

TwoProcesses == [w \in Workers |-> IF w = w1 THEN p1 ELSE p2]

AllOutcomes == [l \in Lanes |-> IF l = probe THEN {"items", "permanent"} ELSE Outcome]

ItemsOnly == [l \in Lanes |-> {"items"}]

===============================================================================
