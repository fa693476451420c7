--------------------------- MODULE ActionTransitions ---------------------------
(***************************************************************************)
(* The states of an action, a status with an approval level, and the       *)
(* transitions between them (src/lib/actions/action-transitions.ts and     *)
(* suppression-logic.ts).  Levels L1 to L5 are numbers.                    *)
(***************************************************************************)
EXTENDS Naturals

Recommended == <<"recommended", 1>>
Draft == <<"draft_prepared", 2>>
Awaiting == <<"awaiting_approval", 3>>
Approved == <<"approved", 4>>
Rejected == <<"rejected", 3>>
Snoozed == <<"snoozed", 3>>
Blocked == <<"execution_blocked", 4>>
Measuring == <<"measuring", 5>>

Results == {"successful", "unsuccessful", "inconclusive"}

At(status, state) == <<status, state[2]>>

ValidTransitions ==
    {<<Recommended, Draft>>, <<Draft, Awaiting>>, <<Awaiting, Approved>>, <<Awaiting, Rejected>>,
     <<Awaiting, Snoozed>>, <<Snoozed, Awaiting>>, <<Approved, Blocked>>, <<Approved, Measuring>>}
    \cup {<<Measuring, At(result, Measuring)>> : result \in Results}
    \cup {<<state, At("expired", state)>> : state \in {Recommended, Draft, Awaiting, Approved}}
    \cup {<<state, At("needs_revalidation", state)>> : state \in {Recommended, Draft, Awaiting, Snoozed}}
    \cup {<<At("needs_revalidation", Awaiting), Awaiting>>}

isValidTransition(from, to) == <<from, to>> \in ValidTransitions

\* The statuses under which the database keeps a recommendation's action unique.
ACTIVE_DEDUPE_STATUSES ==
    {"detected", "analyzed", "recommended", "draft_prepared", "awaiting_approval", "approved",
     "snoozed", "needs_revalidation", "execution_blocked", "executing", "measuring"}

IsActive(state) == state[1] \in ACTIVE_DEDUPE_STATUSES

\* No action yet.
Absent == <<"absent", 0>>

\* What the program can bring an action to.
States == {Recommended} \cup {t[2] : t \in ValidTransitions}

===============================================================================
