----------------------------- MODULE ActionCenter -----------------------------
(***************************************************************************)
(* The action centre: the life of the actions made from one recommendation *)
(* (src/lib/actions/action-store.ts and the routes under                   *)
(* src/app/api/actions/).  Actions of different recommendations never      *)
(* meet, so one fingerprint is all of them.                                *)
(*                                                                         *)
(* A route is a handler that reads the action, decides, and updates it by  *)
(* id; a step is one statement with the computation that follows it.  The  *)
(* tables that are only ever appended to (audit events, comments,          *)
(* outcomes, superseded snapshots) are left out.  So is the last           *)
(* idempotency key: no transition leads from a state to itself, so that a  *)
(* retry that is recognised and one that is refused both write nothing.    *)
(***************************************************************************)
EXTENDS ActionTransitions, FiniteSets

CONSTANTS
    Calls,          \* handlers that may run at the same time
    Ids,            \* rows of action_actions_v1
    Evidence,       \* evidence snapshots, told apart by their hash
    Drafts,         \* prepared assets with their execution plan
    Complete,       \* drafts whose plan has everything an approval asks for
    None,           \* no evidence, no draft, no action
    Starts,         \* where a behaviour starts, see below
    MaxCalls        \* bound: calls that are made

\* The column execution_plan is two fields: plan, which the operator sends with
\* the draft, and revalidation, the key that the revalidate route puts into it.
Row == [state : States \cup {Absent}, evidence : Evidence \cup {None}, assets : Drafts \cup {None},
        plan : Drafts \cup {None}, revalidation : Evidence \cup {None}, expired : BOOLEAN]

\* A start is the table, the order of its rows and the last rejection, which is
\* that of the rejected row written last, at a time when nothing is approved.
ASSUME ConstantsAssumption ==
    /\ Complete \subseteq Drafts
    /\ None \notin Ids \cup Evidence \cup Drafts
    /\ MaxCalls \in Nat
    /\ Starts \subseteq [rows : [Ids -> Row], newer : SUBSET (Ids \X Ids), lastRejected : Evidence \cup {None}]
    /\ \A start \in Starts, i, k \in Ids :
          /\ start.rows[i].state[2] <= 3
          /\ IsActive(start.rows[i].state) /\ IsActive(start.rows[k].state) => i = k
    /\ \A start \in Starts : start.lastRejected # None =>
          \E i \in Ids :
             /\ start.rows[i].state = Rejected
             /\ start.rows[i].evidence = start.lastRejected
             /\ \A k \in Ids \ {i} : start.rows[k].state = Rejected => <<i, k>> \in start.newer

VARIABLES
    rows,           \* action_actions_v1
    newer,          \* pairs of rows: the first was written after the second (updated_at)
    preference,     \* action_preferences_v1, of this fingerprint: "none" when it has no row
    pc,             \* the next statement of each handler
    call,           \* what each handler was asked and what it read
    begun,          \* how many calls were made
    late,           \* history: rows written by a handler that read another state of them
    overtaken,      \* history: rows revalidated while an approval of them was under way
    reviewed,       \* history: the assets and the plan the approver's call looked at
    lastRejected,   \* history: the evidence of the last rejection
    forgotten,      \* history: a creation was let through with that evidence
    racing          \* history: creations under way when the fingerprint was suppressed

handlers == <<pc, call, begun>>
history == <<late, overtaken, reviewed, lastRejected, forgotten, racing>>
vars == <<rows, newer, preference, handlers, history>>

NoRow == [state |-> Absent, evidence |-> None, assets |-> None, plan |-> None, revalidation |-> None,
          expired |-> FALSE]

Idle == [op |-> "none", id |-> None, from |-> Absent, to |-> Absent, evidence |-> None,
         assets |-> None, plan |-> None, revalidation |-> None]

NotReviewed == <<None, None, None>>

Init ==
    /\ \E start \in Starts :
          /\ rows = start.rows
          /\ newer = start.newer
          /\ lastRejected = start.lastRejected
    /\ preference = "none"
    /\ pc = [c \in Calls |-> "idle"]
    /\ call = [c \in Calls |-> Idle]
    /\ late = {}
    /\ overtaken = {}
    /\ reviewed = [i \in Ids |-> NotReviewed]
    /\ begun = 0
    /\ forgotten = FALSE
    /\ racing = {}

-------------------------------------------------------------------------------
Exists(i) == rows[i].state # Absent

Goto(c, step, request) ==
    /\ pc' = [pc EXCEPT ![c] = step]
    /\ call' = [call EXCEPT ![c] = request]
    /\ IF pc[c] = "idle"
       THEN begun < MaxCalls /\ begun' = begun + 1
       ELSE UNCHANGED begun

\* The handler answers, or throws: nothing that follows is read back.
End(c) == Goto(c, "idle", Idle)

\* The trigger that sets updated_at.
Touch(i) == newer' = {p \in newer : p[2] # i} \cup {<<i, k>> : k \in Ids \ {i}}

\* A write to a row that is no longer in the state the writer read.
NoteLate(i, from) == late' = IF rows[i].state = from THEN late ELSE late \cup {i}

\* Some approver's call has looked at the action and has not answered yet.
UnderApproval(i) ==
    \E d \in Calls : pc[d] \in {"transition", "update"} /\ call[d].op = "approve" /\ call[d].id = i

NoteOvertaken(i, op) ==
    overtaken' = IF op = "revalidate" /\ UnderApproval(i) THEN overtaken \cup {i} ELSE overtaken

-------------------------------------------------------------------------------
\* transitionAction

\* Variant the runs must reject: the table is consulted by the routes only.
DecideUnchecked(c, request) ==
    Goto(c, "update", [request EXCEPT !.from = rows[request.id].state])

\* The read and the check; what the check refuses ends here.
Decide(c, request) ==
    /\ isValidTransition(rows[request.id].state, request.to)
    /\ Goto(c, "update", [request EXCEPT !.from = rows[request.id].state])

\* Variant the runs must reject: the level is not written with the status.
WrittenWithoutLevel(row, request) ==
    [row EXCEPT !.state = <<request.to[1], row.state[2]>>]

\* The columns of an UPDATE: the state, and the patch of the route.
Written(row, request) ==
    [row EXCEPT !.state = request.to,
                !.assets = IF request.op = "prepare" THEN request.assets ELSE @,
                !.plan = IF request.op \in {"prepare", "revalidate"} THEN request.plan ELSE @,
                !.revalidation = IF request.op \in {"prepare", "revalidate"} THEN request.revalidation ELSE @,
                !.expired = @ \/ request.op = "expire"]

\* Variant the runs must reject: uniqueness is left to the creating handler.
DuplicatesNothing(i, state) == FALSE

\* idx_action_actions_fingerprint_active_unique
Duplicates(i, state) == IsActive(state) /\ \E k \in Ids \ {i} : IsActive(rows[k].state)

\* UPDATE ... WHERE id = ..., whatever the row says by now.
Update(c) ==
    LET request == call[c]
        i == request.id
    IN
    /\ pc[c] = "update"
    /\ ~Duplicates(i, request.to)
    /\ rows' = [rows EXCEPT ![i] = Written(@, request)]
    /\ Touch(i)
    /\ NoteLate(i, request.from)
    /\ NoteOvertaken(i, request.op)
    /\ reviewed' = IF request.op = "approve"
                   THEN [reviewed EXCEPT ![i] = <<request.assets, request.plan, request.revalidation>>]
                   ELSE reviewed
    /\ lastRejected' = IF request.op = "reject" THEN rows[i].evidence ELSE lastRejected
    /\ End(c)
    /\ UNCHANGED <<preference, forgotten, racing>>

-------------------------------------------------------------------------------
\* The routes.

\* Routes that are one call of transitionAction, and the state they ask for.
Targets ==
    [prepare |-> {Draft}, ready |-> {Awaiting}, reject |-> {Rejected}, snooze |-> {Snoozed},
     unsnooze |-> {Awaiting}, block |-> {Blocked}, measure |-> {Measuring},
     complete |-> {At(result, Measuring) : result \in Results}]

BeginTransition(c) ==
    /\ pc[c] = "idle"
    /\ \E i \in {k \in Ids : Exists(k)}, op \in DOMAIN Targets :
       \E to \in Targets[op],
          draft \in IF op = "prepare" THEN Drafts ELSE {None} :
             Decide(c, [Idle EXCEPT !.op = op, !.id = i, !.to = to, !.assets = draft, !.plan = draft])
    /\ UNCHANGED <<rows, newer, preference, history>>

\* What the approve route asks of the action it reads.  It asks for a
\* measurement plan, too; a refusal writes nothing, and the model is more lenient.
Approvable(row) ==
    /\ row.state = Awaiting
    /\ ~row.expired
    /\ row.assets # None
    /\ row.plan \in Complete

\* The approve, expire and revalidate routes read the action before
\* transitionAction reads it again.
Ask(c, request) == Goto(c, "transition", request)

BeginApprove(c) ==
    /\ pc[c] = "idle"
    /\ \E i \in Ids :
          /\ Approvable(rows[i])
          /\ Ask(c, [Idle EXCEPT !.op = "approve", !.id = i, !.to = Approved,
                                 !.assets = rows[i].assets, !.plan = rows[i].plan,
                                 !.revalidation = rows[i].revalidation])
    /\ UNCHANGED <<rows, newer, preference, history>>

BeginExpire(c) ==
    /\ pc[c] = "idle"
    /\ \E i \in {k \in Ids : Exists(k)} :
          Ask(c, [Idle EXCEPT !.op = "expire", !.id = i, !.to = At("expired", rows[i].state)])
    /\ UNCHANGED <<rows, newer, preference, history>>

\* Other evidence marks the action and keeps the evidence it was made with: the
\* execution plan that was read is written back with a key for the new evidence.
BeginRevalidate(c) ==
    /\ pc[c] = "idle"
    /\ \E i \in Ids :
          /\ rows[i].state \in {Recommended, Draft, Awaiting, Snoozed}
          /\ \E e \in Evidence \ {rows[i].evidence} :
                Ask(c, [Idle EXCEPT !.op = "revalidate", !.id = i, !.plan = rows[i].plan,
                                    !.revalidation = e, !.to = At("needs_revalidation", rows[i].state)])
    /\ UNCHANGED <<rows, newer, preference, history>>

Transition(c) ==
    /\ pc[c] = "transition"
    /\ \/ Decide(c, call[c])
       \/ ~isValidTransition(rows[call[c].id].state, call[c].to) /\ End(c)
    /\ UNCHANGED <<rows, newer, preference, history>>

BeginEdit(c) ==
    /\ pc[c] = "idle"
    /\ \E i \in Ids, draft \in Drafts :
          /\ rows[i].state[1] = "draft_prepared"
          /\ Goto(c, "check_draft", [Idle EXCEPT !.op = "edit", !.id = i, !.assets = draft, !.plan = draft])
    /\ UNCHANGED <<rows, newer, preference, history>>

\* Variant the runs must reject: the store trusts the check of the route.
CheckDraftAgain(c) ==
    /\ pc[c] = "check_draft"
    /\ Goto(c, "write_draft", [call[c] EXCEPT !.from = rows[call[c].id].state])
    /\ UNCHANGED <<rows, newer, preference, history>>

\* updateDraftAssets
CheckDraft(c) ==
    LET state == rows[call[c].id].state IN
    /\ pc[c] = "check_draft"
    /\ IF state[1] = "draft_prepared"
       THEN Goto(c, "write_draft", [call[c] EXCEPT !.from = state])
       ELSE End(c)
    /\ UNCHANGED <<rows, newer, preference, history>>

WriteDraft(c) ==
    LET i == call[c].id IN
    /\ pc[c] = "write_draft"
    /\ rows' = [rows EXCEPT ![i].assets = call[c].assets, ![i].plan = call[c].plan,
                            ![i].revalidation = None]
    /\ Touch(i)
    /\ NoteLate(i, call[c].from)
    /\ End(c)
    /\ UNCHANGED <<preference, overtaken, reviewed, lastRejected, forgotten, racing>>

TransitionRoutes(c) ==
    BeginTransition(c) \/ BeginApprove(c) \/ BeginExpire(c) \/ BeginRevalidate(c) \/ Transition(c)
    \/ Update(c)

EditRoute(c) == BeginEdit(c) \/ CheckDraft(c) \/ WriteDraft(c)

-------------------------------------------------------------------------------
\* createActionFromRecommendation

CreateSteps == {"find_active", "find_rejected", "relink", "insert_action"}

\* Variant the runs must reject: the preference is not consulted.
BeginCreateUnchecked(c) ==
    /\ pc[c] = "idle"
    /\ \E e \in Evidence : Goto(c, "find_active", [Idle EXCEPT !.op = "create", !.evidence = e])
    /\ UNCHANGED <<rows, newer, preference, history>>

BeginCreate(c) ==
    /\ pc[c] = "idle"
    /\ preference # "suppressed"
    /\ \E e \in Evidence : Goto(c, "find_active", [Idle EXCEPT !.op = "create", !.evidence = e])
    /\ UNCHANGED <<rows, newer, preference, history>>

FindActive(c) ==
    LET found == {i \in Ids : IsActive(rows[i].state)} IN
    /\ pc[c] = "find_active"
    /\ \/ \E i \in found : Goto(c, "find_rejected", [call[c] EXCEPT !.id = i, !.from = rows[i].state])
       \/ found = {} /\ Goto(c, "find_rejected", call[c])
    /\ UNCHANGED <<rows, newer, preference, history>>

\* Variant the runs must reject: the first rejection instead of the last.
EarliestRejected ==
    LET rejected == {i \in Ids : rows[i].state[1] = "rejected"} IN
    {i \in rejected : \A k \in rejected \ {i} : <<k, i>> \in newer}

LatestRejected ==
    LET rejected == {i \in Ids : rows[i].state[1] = "rejected"} IN
    {i \in rejected : \A k \in rejected \ {i} : <<i, k>> \in newer}

FindRejected(c) ==
    /\ pc[c] = "find_rejected"
    /\ IF \E i \in LatestRejected : rows[i].evidence = call[c].evidence
       THEN End(c) /\ UNCHANGED forgotten
       ELSE /\ Goto(c, IF call[c].id = None THEN "insert_action" ELSE "relink", call[c])
            /\ forgotten' = (forgotten \/ call[c].evidence = lastRejected)
    /\ UNCHANGED <<rows, newer, preference, late, overtaken, reviewed, lastRejected, racing>>

\* An action that was there gets the new evidence, in any status it has by now.
Relink(c) ==
    LET i == call[c].id IN
    /\ pc[c] = "relink"
    /\ rows' = [rows EXCEPT ![i].evidence = call[c].evidence]
    /\ Touch(i)
    /\ NoteLate(i, call[c].from)
    /\ End(c)
    /\ UNCHANGED <<preference, overtaken, reviewed, lastRejected, forgotten, racing>>

InsertAction(c) ==
    /\ pc[c] = "insert_action"
    /\ \E i \in Ids :
          /\ ~Exists(i)
          /\ ~Duplicates(i, Recommended)
          /\ rows' = [rows EXCEPT ![i] = [NoRow EXCEPT !.state = Recommended, !.evidence = call[c].evidence]]
          /\ Touch(i)
    /\ End(c)
    /\ UNCHANGED <<preference, history>>

CreateRoute(c) ==
    BeginCreate(c) \/ FindActive(c) \/ FindRejected(c) \/ Relink(c) \/ InsertAction(c)

\* The preferences route.  Its upsert resolves conflicts on the primary key,
\* which it does not send: a second one for a fingerprint inserts a second row,
\* and the unique fingerprint refuses it.
SetPreference ==
    /\ preference = "none"
    /\ preference' \in {"suppressed", "allowed"}
    /\ racing' = {c \in Calls : preference' = "suppressed" /\ pc[c] \in CreateSteps}
    /\ UNCHANGED <<rows, newer, handlers, late, overtaken, reviewed, lastRejected, forgotten>>

\* A statement fails, a unique index refuses it, or the process dies.
Fail(c) ==
    /\ pc[c] # "idle"
    /\ End(c)
    /\ UNCHANGED <<rows, newer, preference, history>>

Next ==
    \/ \E c \in Calls : TransitionRoutes(c) \/ EditRoute(c) \/ CreateRoute(c) \/ Fail(c)
    \/ SetPreference

Spec == Init /\ [][Next]_vars

-------------------------------------------------------------------------------
Steps == {"idle", "transition", "update", "check_draft", "write_draft"} \cup CreateSteps

Ops == DOMAIN Targets \cup {"none", "approve", "expire", "revalidate", "edit", "create"}

\* What a handler asks for may be no state of an action: the expired of one
\* that is over, which the table then refuses.
Request == [op : Ops, id : Ids \cup {None}, from : States \cup {Absent},
            to : States \cup {Absent} \cup {At("expired", state) : state \in States},
            evidence : Evidence \cup {None}, assets : Drafts \cup {None}, plan : Drafts \cup {None},
            revalidation : Evidence \cup {None}]

\* Status and level fit together in every action, and every column holds what
\* the schema allows.
TypeOK ==
    /\ rows \in [Ids -> Row]
    /\ newer \subseteq Ids \X Ids
    /\ preference \in {"none", "suppressed", "allowed"}
    /\ pc \in [Calls -> Steps]
    /\ call \in [Calls -> Request]
    /\ begun \in Nat
    /\ late \subseteq Ids
    /\ overtaken \subseteq Ids
    /\ reviewed \in [Ids -> (Drafts \cup {None}) \X (Drafts \cup {None}) \X (Evidence \cup {None})]
    /\ lastRejected \in Evidence \cup {None}
    /\ forgotten \in BOOLEAN
    /\ racing \subseteq Calls

\* An action at level L4 or L5 was approved by a call that looked at its
\* assets and at a complete plan: no interleaving of other routes, no late
\* write and no failing statement gets an action there otherwise.
ApprovedWasReviewed ==
    \A i \in Ids : rows[i].state[2] >= 4 =>
        reviewed[i][1] \in Drafts /\ reviewed[i][2] \in Complete

\* What was approved is what is there: the draft and the plan of an approved
\* action are those the approving call looked at, though it reads the action
\* once to review it and once more to move it.  An action that was written by
\* a handler that had read another state of it is excepted.  The call need not
\* have seen the last revalidation, but only if that was written while the
\* call was under way: the state is awaiting_approval again when it looks.
ApprovalCoversDraft ==
    \A i \in Ids \ late : rows[i].state[2] >= 4 =>
        /\ reviewed[i][1] = rows[i].assets
        /\ reviewed[i][2] = rows[i].plan
        /\ i \notin overtaken => reviewed[i][3] = rows[i].revalidation

\* A creation gets past the check for rejected actions with the evidence of
\* the last rejection only if some action was written late: the check reads
\* the evidence column and updated_at, which other handlers write.
RejectionSticks == late = {} => ~forgotten

\* While the fingerprint is suppressed, no creation but one that was under way
\* when it was suppressed makes an action or changes an action's evidence.
SuppressionSticks ==
    [][preference = "suppressed" /\ (\E i \in Ids : rows'[i].evidence # rows[i].evidence)
          => \E c \in racing : pc[c] \in CreateSteps /\ pc'[c] = "idle"]_vars

Lifecycle == INSTANCE ActionLifecycle WITH state <- [i \in Ids |-> rows[i].state]

\* The states of actions move along the table, one action at a time is active,
\* and nothing else happens to them but to those that were written late.
FollowsLifecycle == Lifecycle!Spec

===============================================================================
