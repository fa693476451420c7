-------------------------- MODULE ActionCenterProofs --------------------------
(***************************************************************************)
(* Proofs about the action centre.  First the table of transitions, then   *)
(* the types, which carry what a handler was asked and what it read        *)
(* (Asked), then what each statement does to rows and handlers (Reads,     *)
(* Writes), and from these summaries the invariants: reviewed approvals,   *)
(* approvals that cover the draft, the last rejection, the suppression,    *)
(* and the refinement of the life cycle.                                   *)
(***************************************************************************)
EXTENDS ActionCenter, TLAPS

\* The table, case by case.
LEMMA TransitionCases ==
    ASSUME NEW from, NEW to, isValidTransition(from, to)
    PROVE  \/ from = Recommended /\ to = Draft
           \/ from = Draft /\ to = Awaiting
           \/ from = Awaiting /\ to \in {Approved, Rejected, Snoozed}
           \/ from = Snoozed /\ to = Awaiting
           \/ from = Approved /\ to \in {Blocked, Measuring}
           \/ from = Measuring /\ \E result \in Results : to = <<result, 5>>
           \/ from \in {Recommended, Draft, Awaiting, Approved} /\ to = At("expired", from)
           \/ from \in {Recommended, Draft, Awaiting, Snoozed} /\ to = At("needs_revalidation", from)
           \/ from = At("needs_revalidation", Awaiting) /\ to = Awaiting
<1>1. CASE \E state \in {Recommended, Draft, Awaiting, Approved} :
              <<from, to>> = <<state, At("expired", state)>>
    <2>1. PICK state \in {Recommended, Draft, Awaiting, Approved} :
                   <<from, to>> = <<state, At("expired", state)>>
        BY <1>1
    <2>2. from = state /\ to = At("expired", state)
        BY <2>1, Zenon
    <2> QED
        BY <2>2
<1>2. CASE \E state \in {Recommended, Draft, Awaiting, Snoozed} :
              <<from, to>> = <<state, At("needs_revalidation", state)>>
    <2>1. PICK state \in {Recommended, Draft, Awaiting, Snoozed} :
                   <<from, to>> = <<state, At("needs_revalidation", state)>>
        BY <1>2
    <2>2. from = state /\ to = At("needs_revalidation", state)
        BY <2>1, Zenon
    <2> QED
        BY <2>2
<1>3. CASE \E result \in Results : <<from, to>> = <<Measuring, At(result, Measuring)>>
    BY <1>3 DEF At, Measuring
<1>4. CASE <<from, to>> \in
              {<<Recommended, Draft>>, <<Draft, Awaiting>>, <<Awaiting, Approved>>, <<Awaiting, Rejected>>,
               <<Awaiting, Snoozed>>, <<Snoozed, Awaiting>>, <<Approved, Blocked>>, <<Approved, Measuring>>,
               <<At("needs_revalidation", Awaiting), Awaiting>>}
    BY <1>4
<1> QED
    BY <1>1, <1>2, <1>3, <1>4 DEF isValidTransition, ValidTransitions

\* A transition never lowers the level; nothing leaves a rejection, and only an
\* approval reaches level L4.
LEMMA LevelsRise ==
    ASSUME NEW from, NEW to, isValidTransition(from, to)
    PROVE  /\ from[2] \in 1..5 /\ to[2] \in 1..5
           /\ from[2] <= to[2]
           /\ to[2] >= 4 => from[2] >= 4 \/ to = Approved
           /\ from # Absent /\ to # Absent
           /\ from[1] # "rejected"
           /\ to[1] = "rejected" => to = Rejected
           /\ to = Draft => from = Recommended
BY TransitionCases
   DEF At, Recommended, Draft, Awaiting, Approved, Rejected, Snoozed, Blocked, Measuring, Results, Absent

\* What the table leads to is a state of the program.
LEMMA TargetIsState ==
    ASSUME NEW from, NEW to, isValidTransition(from, to)
    PROVE  to \in States
<1>1. <<from, to>>[2] = to
    OBVIOUS
<1> QED
    BY <1>1 DEF isValidTransition, States

\* Status and level of a state fit together.
LEMMA StateFacts ==
    ASSUME NEW state \in States
    PROVE  /\ state[2] \in 1..5
           /\ state # Absent
           /\ state[1] = "rejected" => state = Rejected
           /\ state[1] = "draft_prepared" => state = Draft
<1>1. CASE state = Recommended
    BY <1>1 DEF Recommended, Absent
<1>2. CASE \E t \in ValidTransitions : state = t[2]
    <2>1. PICK t \in ValidTransitions : state = t[2]
        BY <1>2
    <2>2. t = <<t[1], t[2]>>
        BY <2>1, SMT DEF ValidTransitions
    <2>3. PICK from : isValidTransition(from, state)
        BY <2>1, <2>2 DEF isValidTransition
    <2>4. state[1] = "draft_prepared" => state = Draft
        BY <2>3, TransitionCases
           DEF At, Recommended, Draft, Awaiting, Approved, Rejected, Snoozed, Blocked, Measuring, Results
    <2> QED
        BY <2>3, <2>4, LevelsRise
<1> QED
    BY <1>1, <1>2 DEF States

\* No route but approve asks for Approved, and only reject for Rejected.
LEMMA TargetsAre ==
    /\ \A op \in DOMAIN Targets : \A to \in Targets[op] :
          /\ to \in States
          /\ to # Approved
          /\ to = Rejected <=> op = "reject"
          /\ op = "prepare" => to = Draft
    /\ DOMAIN Targets \subseteq Ops
<1>1. /\ isValidTransition(Recommended, Draft)
      /\ isValidTransition(Draft, Awaiting)
      /\ isValidTransition(Awaiting, Rejected)
      /\ isValidTransition(Awaiting, Snoozed)
      /\ isValidTransition(Approved, Blocked)
      /\ isValidTransition(Approved, Measuring)
    BY DEF isValidTransition, ValidTransitions
<1>2. \A result \in Results : isValidTransition(Measuring, At(result, Measuring))
    BY DEF isValidTransition, ValidTransitions
<1>3. /\ {Draft, Awaiting, Rejected, Snoozed, Blocked, Measuring} \subseteq States
      /\ \A result \in Results : At(result, Measuring) \in States
    BY <1>1, <1>2, TargetIsState
<1>4. ASSUME NEW op \in DOMAIN Targets, NEW to \in Targets[op]
      PROVE  /\ to \in {Draft, Awaiting, Rejected, Snoozed, Blocked, Measuring}
                     \cup {At(result, Measuring) : result \in Results}
             /\ to = Rejected <=> op = "reject"
             /\ op = "prepare" => to = Draft
    BY <1>4 DEF Targets, At, Draft, Awaiting, Rejected, Snoozed, Blocked, Measuring, Results
<1>5. ASSUME NEW to \in {Draft, Awaiting, Rejected, Snoozed, Blocked, Measuring}
                     \cup {At(result, Measuring) : result \in Results}
      PROVE  to # Approved
    BY <1>5 DEF At, Draft, Awaiting, Approved, Rejected, Snoozed, Blocked, Measuring, Results
<1> QED
    BY <1>3, <1>4, <1>5 DEF Ops

-------------------------------------------------------------------------------
Moving == {"transition", "update"}

\* What a handler was asked and what it read, by the statement it is at.
Asked(c) ==
    LET request == call[c] IN
    /\ pc[c] \in {"transition", "update", "check_draft", "write_draft", "relink"} => request.id \in Ids
    /\ pc[c] \in {"update", "write_draft", "relink"} => rows[request.id].state # Absent
    /\ pc[c] \in Moving =>
          /\ request.to = Approved => request.op = "approve"
          /\ request.to = Rejected <=> request.op = "reject"
          /\ request.op = "prepare" => request.to = Draft
          /\ request.op = "approve" => request.assets \in Drafts /\ request.plan \in Complete
    /\ pc[c] = "transition" => request.to # Absent
    /\ pc[c] = "update" => isValidTransition(request.from, request.to)
    /\ pc[c] = "write_draft" => request.from = Draft
    /\ pc[c] = "find_active" => request.id = None
    /\ pc[c] = "find_rejected" /\ request.id # None =>
          request.id \in Ids /\ rows[request.id].state # Absent /\ IsActive(request.from)
    /\ pc[c] = "relink" => IsActive(request.from)
    /\ pc[c] \in CreateSteps => request.evidence \in Evidence

TypeInv == TypeOK /\ \A c \in Calls : Asked(c)

\* A statement moves its own handler only.
LEMMA GotoStep ==
    ASSUME TypeOK, NEW c \in Calls, NEW step \in Steps, NEW request \in Request, Goto(c, step, request)
    PROVE  /\ pc' \in [Calls -> Steps] /\ call' \in [Calls -> Request] /\ begun' \in Nat
           /\ pc'[c] = step /\ call'[c] = request
           /\ \A d \in Calls \ {c} : pc'[d] = pc[d] /\ call'[d] = call[d]
BY DEF TypeOK, Goto

\* A handler that was asked nothing has a well-typed request.
LEMMA IdleIsRequest == Idle \in Request
BY DEF Idle, Request, Ops

\* A handler that answers is idle again.
LEMMA EndStep ==
    ASSUME TypeOK, NEW c \in Calls, End(c)
    PROVE  /\ pc' \in [Calls -> Steps] /\ call' \in [Calls -> Request] /\ begun' \in Nat
           /\ pc'[c] = "idle"
           /\ \A d \in Calls \ {c} : pc'[d] = pc[d] /\ call'[d] = call[d]
<1>1. "idle" \in Steps
    BY DEF Steps
<1> QED
    BY <1>1, IdleIsRequest, GotoStep DEF End

\* A step that leaves the tables alone: it is enough to look at its handler.
LEMMA ReadStep ==
    ASSUME TypeInv, NEW c \in Calls, NEW step \in Steps, NEW request \in Request,
           Goto(c, step, request), UNCHANGED <<rows, newer, preference, history>>, Asked(c)'
    PROVE  TypeInv'
<1>1. /\ pc' \in [Calls -> Steps] /\ call' \in [Calls -> Request] /\ begun' \in Nat
      /\ \A d \in Calls \ {c} : pc'[d] = pc[d] /\ call'[d] = call[d]
    BY GotoStep DEF TypeInv
<1>2. TypeOK'
    BY <1>1 DEF TypeInv, TypeOK, history
<1>3. ASSUME NEW d \in Calls \ {c} PROVE Asked(d)'
    BY <1>1, <1>3 DEF TypeInv, Asked
<1> QED
    BY <1>2, <1>3 DEF TypeInv

\* An answer without a write keeps the types.
LEMMA EndRead ==
    ASSUME TypeInv, NEW c \in Calls, End(c), UNCHANGED <<rows, newer, preference, history>>
    PROVE  TypeInv'
<1>1. pc'[c] = "idle"
    BY EndStep DEF TypeInv
<1>2. Asked(c)'
    BY <1>1 DEF Asked, Moving, CreateSteps
<1>3. "idle" \in Steps
    BY DEF Steps
<1> QED
    BY <1>2, <1>3, IdleIsRequest, ReadStep DEF End

\* A request that keeps to the table is one that Decide lets through.
LEMMA DecideStep ==
    ASSUME TypeInv, NEW c \in Calls, NEW request \in Request, Decide(c, request), request.id \in Ids,
           request.to = Approved => request.op = "approve",
           request.to = Rejected <=> request.op = "reject",
           request.op = "prepare" => request.to = Draft,
           request.op = "approve" => request.assets \in Drafts /\ request.plan \in Complete,
           UNCHANGED <<rows, newer, preference, history>>
    PROVE  TypeInv'
<1> DEFINE asked == [request EXCEPT !.from = rows[request.id].state]
<1>1. asked \in Request
    BY DEF TypeInv, TypeOK, Row, Request
<1>2. "update" \in Steps
    BY DEF Steps
<1>3. Goto(c, "update", asked) /\ isValidTransition(rows[request.id].state, request.to)
    BY DEF Decide
<1>4. pc'[c] = "update" /\ call'[c] = asked
    BY <1>1, <1>2, <1>3, GotoStep DEF TypeInv
<1>5. /\ asked.id = request.id /\ asked.to = request.to /\ asked.op = request.op
      /\ asked.assets = request.assets /\ asked.plan = request.plan
      /\ asked.from = rows[request.id].state
    BY DEF Request
<1>6. rows[request.id].state # Absent
    BY <1>3, LevelsRise
<1> HIDE DEF asked
<1>7. Asked(c)'
    BY <1>3, <1>4, <1>5, <1>6 DEF Asked, Moving, CreateSteps
<1> QED
    BY <1>1, <1>2, <1>3, <1>7, ReadStep

\* The expire route asks for no approval and no rejection.
LEMMA ExpiredIsRequested ==
    ASSUME NEW state \in States
    PROVE  /\ At("expired", state) # Approved
           /\ At("expired", state) # Rejected
           /\ At("expired", state) # Absent
BY DEF At, Approved, Rejected, Absent

\* Nor does the revalidate route, and the table has what it asks for.
LEMMA RevalidationIsState ==
    ASSUME NEW state \in {Recommended, Draft, Awaiting, Snoozed}
    PROVE  /\ At("needs_revalidation", state) \in States
           /\ At("needs_revalidation", state) # Approved
           /\ At("needs_revalidation", state) # Rejected
<1>1. isValidTransition(state, At("needs_revalidation", state))
    BY DEF isValidTransition, ValidTransitions
<1> QED
    BY <1>1, TargetIsState DEF At, Approved, Rejected

\* The routes of the table keep the types and what their handler was asked.
LEMMA BeginTransitionKeeps ==
    ASSUME TypeInv, NEW c \in Calls, BeginTransition(c)
    PROVE  TypeInv'
<1>1. PICK i \in {k \in Ids : Exists(k)}, op \in DOMAIN Targets :
          \E to \in Targets[op] : \E draft \in IF op = "prepare" THEN Drafts ELSE {None} :
             Decide(c, [Idle EXCEPT !.op = op, !.id = i, !.to = to, !.assets = draft, !.plan = draft])
    BY DEF BeginTransition
<1>2. PICK to \in Targets[op], draft \in IF op = "prepare" THEN Drafts ELSE {None} :
          Decide(c, [Idle EXCEPT !.op = op, !.id = i, !.to = to, !.assets = draft, !.plan = draft])
    BY <1>1
<1> DEFINE request == [Idle EXCEPT !.op = op, !.id = i, !.to = to, !.assets = draft, !.plan = draft]
<1>3. /\ to \in States /\ to # Approved
      /\ to = Rejected <=> op = "reject"
      /\ op = "prepare" => to = Draft
      /\ op \in Ops
    BY TargetsAre
<1>4. /\ request.op = op /\ request.id = i /\ request.to = to
    BY DEF Idle
<1>5. request \in Request
    BY <1>3 DEF Idle, Request
<1>6. op # "approve"
    BY DEF Targets
<1>7. UNCHANGED <<rows, newer, preference, history>>
    BY DEF BeginTransition
<1> HIDE DEF request
<1> QED
    BY <1>2, <1>3, <1>4, <1>5, <1>6, <1>7, DecideStep DEF request

\* The routes that read the action before transitionAction does.
LEMMA AskStep ==
    ASSUME TypeInv, NEW c \in Calls, NEW request \in Request, Ask(c, request),
           request.id \in Ids, request.to # Absent,
           request.to = Approved => request.op = "approve",
           request.to # Rejected, request.op \notin {"reject", "prepare"},
           request.op = "approve" => request.assets \in Drafts /\ request.plan \in Complete,
           UNCHANGED <<rows, newer, preference, history>>
    PROVE  TypeInv'
<1>1. "transition" \in Steps
    BY DEF Steps
<1>2. pc'[c] = "transition" /\ call'[c] = request
    BY <1>1, GotoStep DEF TypeInv, Ask
<1>3. Asked(c)'
    BY <1>2 DEF Asked, Moving, CreateSteps
<1> QED
    BY <1>1, <1>3, ReadStep DEF Ask

\* An approval starts with the assets and the complete plan it was shown.
LEMMA BeginApproveKeeps ==
    ASSUME TypeInv, NEW c \in Calls, BeginApprove(c)
    PROVE  TypeInv'
<1>1. PICK i \in Ids :
          /\ Approvable(rows[i])
          /\ Ask(c, [Idle EXCEPT !.op = "approve", !.id = i, !.to = Approved,
                                 !.assets = rows[i].assets, !.plan = rows[i].plan,
                                 !.revalidation = rows[i].revalidation])
    BY DEF BeginApprove
<1> DEFINE request == [Idle EXCEPT !.op = "approve", !.id = i, !.to = Approved,
                                   !.assets = rows[i].assets, !.plan = rows[i].plan,
                                   !.revalidation = rows[i].revalidation]
<1>2. /\ request.op = "approve" /\ request.id = i /\ request.to = Approved
      /\ request.assets = rows[i].assets /\ request.plan = rows[i].plan
    BY DEF Idle
<1>3. isValidTransition(Awaiting, Approved)
    BY DEF isValidTransition, ValidTransitions
<1>4. request \in Request
    BY <1>3, TargetIsState DEF TypeInv, TypeOK, Row, Idle, Request, Ops
<1>5. rows[i].assets \in Drafts /\ rows[i].plan \in Complete
    BY <1>1 DEF Approvable, TypeInv, TypeOK, Row
<1>6. Approved # Absent /\ Approved # Rejected
    BY DEF Approved, Absent, Rejected
<1>7. UNCHANGED <<rows, newer, preference, history>>
    BY DEF BeginApprove
<1> HIDE DEF request
<1> QED
    BY <1>1, <1>2, <1>4, <1>5, <1>6, <1>7, AskStep DEF request

\* The expire route, from whatever state it read.
LEMMA BeginExpireKeeps ==
    ASSUME TypeInv, NEW c \in Calls, BeginExpire(c)
    PROVE  TypeInv'
<1>1. PICK i \in {k \in Ids : Exists(k)} :
          Ask(c, [Idle EXCEPT !.op = "expire", !.id = i, !.to = At("expired", rows[i].state)])
    BY DEF BeginExpire
<1> DEFINE request == [Idle EXCEPT !.op = "expire", !.id = i, !.to = At("expired", rows[i].state)]
<1>2. /\ request.op = "expire" /\ request.id = i /\ request.to = At("expired", rows[i].state)
    BY DEF Idle
<1>3. rows[i].state \in States
    BY <1>1 DEF Exists, TypeInv, TypeOK, Row
<1>4. request \in Request
    BY <1>3 DEF Idle, Request, Ops
<1>5. UNCHANGED <<rows, newer, preference, history>>
    BY DEF BeginExpire
<1> HIDE DEF request
<1> QED
    BY <1>1, <1>2, <1>3, <1>4, <1>5, ExpiredIsRequested, AskStep DEF request

\* The revalidate route, with the plan it read.
LEMMA BeginRevalidateKeeps ==
    ASSUME TypeInv, NEW c \in Calls, BeginRevalidate(c)
    PROVE  TypeInv'
<1>1. PICK i \in Ids :
          /\ rows[i].state \in {Recommended, Draft, Awaiting, Snoozed}
          /\ \E e \in Evidence \ {rows[i].evidence} :
                Ask(c, [Idle EXCEPT !.op = "revalidate", !.id = i, !.plan = rows[i].plan,
                                    !.revalidation = e, !.to = At("needs_revalidation", rows[i].state)])
    BY DEF BeginRevalidate
<1>0. PICK e \in Evidence :
          Ask(c, [Idle EXCEPT !.op = "revalidate", !.id = i, !.plan = rows[i].plan,
                              !.revalidation = e, !.to = At("needs_revalidation", rows[i].state)])
    BY <1>1
<1> DEFINE request == [Idle EXCEPT !.op = "revalidate", !.id = i, !.plan = rows[i].plan,
                                   !.revalidation = e, !.to = At("needs_revalidation", rows[i].state)]
<1>2. /\ request.op = "revalidate" /\ request.id = i
      /\ request.to = At("needs_revalidation", rows[i].state)
    BY DEF Idle
<1>3. request.to \in States /\ request.to # Approved /\ request.to # Rejected
    BY <1>1, <1>2, RevalidationIsState
<1>4. request \in Request
    BY <1>2, <1>3 DEF TypeInv, TypeOK, Row, Idle, Request, Ops
<1>5. UNCHANGED <<rows, newer, preference, history>>
    BY DEF BeginRevalidate
<1> HIDE DEF request
<1> QED
    BY <1>0, <1>2, <1>3, <1>4, <1>5, StateFacts, AskStep DEF request

\* The second read of an action, in transitionAction.
LEMMA TransitionKeeps ==
    ASSUME TypeInv, NEW c \in Calls, Transition(c)
    PROVE  TypeInv'
<1>1. UNCHANGED <<rows, newer, preference, history>> /\ pc[c] = "transition"
    BY DEF Transition
<1>2. CASE End(c)
    BY <1>1, <1>2, EndRead
<1>3. CASE Decide(c, call[c])
    <2>1. call[c] \in Request /\ Asked(c)
        BY DEF TypeInv, TypeOK
    <2>2. /\ call[c].id \in Ids
          /\ call[c].to = Approved => call[c].op = "approve"
          /\ call[c].to = Rejected <=> call[c].op = "reject"
          /\ call[c].op = "prepare" => call[c].to = Draft
          /\ call[c].op = "approve" => call[c].assets \in Drafts /\ call[c].plan \in Complete
        BY <1>1, <2>1 DEF Asked, Moving
    <2> QED
        BY <1>1, <1>3, <2>1, <2>2, DecideStep
<1> QED
    BY <1>2, <1>3 DEF Transition

\* The first read of an edit.
LEMMA BeginEditKeeps ==
    ASSUME TypeInv, NEW c \in Calls, BeginEdit(c)
    PROVE  TypeInv'
<1>1. PICK i \in Ids, draft \in Drafts :
          Goto(c, "check_draft", [Idle EXCEPT !.op = "edit", !.id = i, !.assets = draft, !.plan = draft])
    BY DEF BeginEdit
<1> DEFINE request == [Idle EXCEPT !.op = "edit", !.id = i, !.assets = draft, !.plan = draft]
<1>2. request.id = i /\ request \in Request
    BY DEF Idle, Request, Ops
<1>3. "check_draft" \in Steps
    BY DEF Steps
<1>4. pc'[c] = "check_draft" /\ call'[c] = request
    BY <1>1, <1>2, <1>3, GotoStep DEF TypeInv
<1>5. UNCHANGED <<rows, newer, preference, history>>
    BY DEF BeginEdit
<1>6. Asked(c)'
    BY <1>2, <1>4 DEF Asked, Moving, CreateSteps
<1> QED
    BY <1>1, <1>2, <1>3, <1>5, <1>6, ReadStep

\* The second read of an edit lets it through to a row that is a draft.
LEMMA CheckDraftKeeps ==
    ASSUME TypeInv, NEW c \in Calls, CheckDraft(c)
    PROVE  TypeInv'
<1> DEFINE state == rows[call[c].id].state
           request == [call[c] EXCEPT !.from = state]
<1>1. UNCHANGED <<rows, newer, preference, history>> /\ pc[c] = "check_draft"
    BY DEF CheckDraft
<1>2. CASE End(c)
    BY <1>1, <1>2, EndRead
<1>3. CASE state[1] = "draft_prepared" /\ Goto(c, "write_draft", request)
    <2>1. call[c] \in Request /\ call[c].id \in Ids
        BY <1>1 DEF TypeInv, TypeOK, Asked
    <2>2. state \in States /\ state = Draft
        <3>1. Absent[1] # "draft_prepared"
            BY DEF Absent
        <3>2. state \in States \cup {Absent}
            BY <2>1 DEF TypeInv, TypeOK, Row
        <3> QED
            BY <1>3, <3>1, <3>2, StateFacts
    <2>3. request \in Request /\ request.id = call[c].id /\ request.from = Draft
        BY <2>1, <2>2 DEF Request
    <2>4. "write_draft" \in Steps
        BY DEF Steps
    <2>5. pc'[c] = "write_draft" /\ call'[c] = request
        BY <1>3, <2>3, <2>4, GotoStep DEF TypeInv
    <2>6. rows[call[c].id].state # Absent
        BY <2>2, StateFacts
    <2> HIDE DEF request, state
    <2>7. Asked(c)'
        BY <1>1, <2>1, <2>3, <2>5, <2>6 DEF Asked, Moving, CreateSteps, history
    <2> QED
        BY <1>1, <1>3, <2>3, <2>4, <2>7, ReadStep
<1> QED
    BY <1>2, <1>3 DEF CheckDraft

\* A step that writes one row, which exists from then on.
LEMMA WriteStep ==
    ASSUME TypeInv, NEW c \in Calls, NEW i \in Ids, NEW row \in Row, row.state # Absent,
           rows' = [rows EXCEPT ![i] = row], Touch(i), End(c),
           preference' = preference, late' \subseteq Ids, overtaken' \subseteq Ids,
           reviewed' \in [Ids -> (Drafts \cup {None}) \X (Drafts \cup {None}) \X (Evidence \cup {None})],
           lastRejected' \in Evidence \cup {None}, forgotten' = forgotten, racing' = racing
    PROVE  TypeInv'
<1>1. /\ pc' \in [Calls -> Steps] /\ call' \in [Calls -> Request] /\ begun' \in Nat
      /\ pc'[c] = "idle"
      /\ \A d \in Calls \ {c} : pc'[d] = pc[d] /\ call'[d] = call[d]
    BY EndStep DEF TypeInv
<1>2. rows' \in [Ids -> Row] /\ rows'[i] = row /\ \A k \in Ids \ {i} : rows'[k] = rows[k]
    BY DEF TypeInv, TypeOK
<1>3. newer' \subseteq Ids \X Ids
    BY DEF TypeInv, TypeOK, Touch
<1>4. TypeOK'
    BY <1>1, <1>2, <1>3 DEF TypeInv, TypeOK
<1>5. Asked(c)'
    BY <1>1 DEF Asked, Moving, CreateSteps
<1>6. ASSUME NEW d \in Calls \ {c} PROVE Asked(d)'
    <2>1. pc'[d] = pc[d] /\ call'[d] = call[d] /\ Asked(d)
        BY <1>1 DEF TypeInv
    <2>2. call[d].id \in Ids /\ rows[call[d].id].state # Absent => rows'[call[d].id].state # Absent
        BY <1>2
    <2> QED
        BY <2>1, <2>2 DEF Asked
<1> QED
    BY <1>4, <1>5, <1>6 DEF TypeInv

\* Late rows are rows.
LEMMA NoteLateType ==
    ASSUME TypeInv, NEW i \in Ids, NEW from, NoteLate(i, from)
    PROVE  late' \subseteq Ids
BY DEF NoteLate, TypeInv, TypeOK

\* What an update writes.
LEMMA WrittenRow ==
    ASSUME NEW row \in Row, NEW request \in Request, request.to \in States
    PROVE  /\ Written(row, request) \in Row
           /\ Written(row, request).state = request.to
           /\ Written(row, request).evidence = row.evidence
           /\ request.op # "prepare" => Written(row, request).assets = row.assets
           /\ request.op \notin {"prepare", "revalidate"} => Written(row, request).plan = row.plan
           /\ request.op = "revalidate" => Written(row, request).plan = request.plan
           /\ request.op \notin {"prepare", "revalidate"} =>
                 Written(row, request).revalidation = row.revalidation
<1> DEFINE assets == IF request.op = "prepare" THEN request.assets ELSE row.assets
           plan == IF request.op \in {"prepare", "revalidate"} THEN request.plan ELSE row.plan
           revalidation == IF request.op \in {"prepare", "revalidate"}
                           THEN request.revalidation ELSE row.revalidation
           expired == row.expired \/ request.op = "expire"
<1>1. Written(row, request) =
          [row EXCEPT !.state = request.to, !.assets = assets, !.plan = plan,
                      !.revalidation = revalidation, !.expired = expired]
    BY Zenon DEF Written
<1>2. /\ assets \in Drafts \cup {None} /\ plan \in Drafts \cup {None}
      /\ revalidation \in Evidence \cup {None} /\ expired \in BOOLEAN
    BY DEF Row, Request
<1>3. /\ request.op # "prepare" => assets = row.assets
      /\ request.op \notin {"prepare", "revalidate"} => plan = row.plan /\ revalidation = row.revalidation
      /\ request.op = "revalidate" => plan = request.plan
    OBVIOUS
<1> HIDE DEF assets, plan, revalidation, expired
<1>4. /\ Written(row, request) \in Row
      /\ Written(row, request).state = request.to /\ Written(row, request).evidence = row.evidence
      /\ Written(row, request).assets = assets /\ Written(row, request).plan = plan
      /\ Written(row, request).revalidation = revalidation
    BY <1>1, <1>2 DEF Row
<1> QED
    BY <1>3, <1>4

\* What is known of a handler about to update.
LEMMA UpdateFacts ==
    ASSUME TypeInv, NEW c \in Calls, Update(c)
    PROVE  /\ call[c] \in Request /\ call[c].id \in Ids
           /\ isValidTransition(call[c].from, call[c].to)
           /\ call[c].to \in States
           /\ rows[call[c].id] \in Row /\ rows[call[c].id].state # Absent
           /\ rows' = [rows EXCEPT ![call[c].id] = Written(rows[call[c].id], call[c])]
           /\ Written(rows[call[c].id], call[c]) \in Row
<1>1. Asked(c) /\ pc[c] = "update" /\ call[c] \in Request
    BY DEF TypeInv, TypeOK, Update
<1>2. call[c].id \in Ids /\ isValidTransition(call[c].from, call[c].to)
    BY <1>1 DEF Asked
<1>3. call[c].to \in States
    BY <1>2, TargetIsState
<1>4. rows[call[c].id] \in Row /\ rows[call[c].id].state # Absent
    BY <1>1, <1>2 DEF TypeInv, TypeOK, Asked
<1>5. Written(rows[call[c].id], call[c]) \in Row
    BY <1>1, <1>3, <1>4, WrittenRow
<1> QED
    BY <1>1, <1>2, <1>3, <1>4, <1>5 DEF Update

\* The update of transitionAction.
LEMMA UpdateKeeps ==
    ASSUME TypeInv, NEW c \in Calls, Update(c)
    PROVE  TypeInv'
<1> DEFINE i == call[c].id
           row == Written(rows[i], call[c])
<1>1. /\ i \in Ids /\ row \in Row /\ rows' = [rows EXCEPT ![i] = row]
      /\ call[c] \in Request /\ rows[i] \in Row /\ call[c].to \in States
    BY UpdateFacts
<1>2. row.state # Absent
    BY <1>1, WrittenRow, StateFacts
<1>3. /\ Touch(i) /\ End(c) /\ NoteLate(i, call[c].from)
      /\ preference' = preference /\ forgotten' = forgotten /\ racing' = racing
    BY DEF Update
<1>4. late' \subseteq Ids /\ overtaken' \subseteq Ids
    BY <1>1, <1>3, NoteLateType DEF Update, NoteOvertaken, TypeInv, TypeOK
<1>5. reviewed' \in [Ids -> (Drafts \cup {None}) \X (Drafts \cup {None}) \X (Evidence \cup {None})]
    <2>1. <<call[c].assets, call[c].plan, call[c].revalidation>>
              \in (Drafts \cup {None}) \X (Drafts \cup {None}) \X (Evidence \cup {None})
        BY <1>1 DEF Request
    <2> QED
        BY <2>1 DEF Update, TypeInv, TypeOK
<1>6. lastRejected' \in Evidence \cup {None}
    BY <1>1 DEF Update, TypeInv, TypeOK, Row
<1> HIDE DEF i, row
<1> QED
    BY <1>1, <1>2, <1>3, <1>4, <1>5, <1>6, WriteStep

\* The write of an edit.
LEMMA WriteDraftKeeps ==
    ASSUME TypeInv, NEW c \in Calls, WriteDraft(c)
    PROVE  TypeInv'
<1> DEFINE i == call[c].id
           row == [rows[i] EXCEPT !.assets = call[c].assets, !.plan = call[c].plan, !.revalidation = None]
<1>1. i \in Ids /\ rows[i].state # Absent /\ rows[i] \in Row /\ call[c] \in Request
    BY DEF WriteDraft, TypeInv, TypeOK, Asked
<1>2. row \in Row /\ row.state # Absent
    BY <1>1 DEF Row, Request
<1>3. rows' = [rows EXCEPT ![i] = row]
    BY <1>1 DEF WriteDraft, TypeInv, TypeOK
<1>4. late' \subseteq Ids
    BY <1>1, NoteLateType DEF WriteDraft
<1>5. /\ Touch(i) /\ End(c)
      /\ preference' = preference /\ overtaken' = overtaken /\ reviewed' = reviewed
      /\ lastRejected' = lastRejected /\ forgotten' = forgotten /\ racing' = racing
    BY DEF WriteDraft
<1> HIDE DEF i, row
<1> QED
    BY <1>1, <1>2, <1>3, <1>4, <1>5, WriteStep DEF TypeInv, TypeOK

\* New evidence for an action that was there.
LEMMA RelinkKeeps ==
    ASSUME TypeInv, NEW c \in Calls, Relink(c)
    PROVE  TypeInv'
<1> DEFINE i == call[c].id
           row == [rows[i] EXCEPT !.evidence = call[c].evidence]
<1>1. i \in Ids /\ rows[i].state # Absent /\ rows[i] \in Row /\ call[c] \in Request
    BY DEF Relink, TypeInv, TypeOK, Asked
<1>2. row \in Row /\ row.state # Absent
    BY <1>1 DEF Row, Request
<1>3. rows' = [rows EXCEPT ![i] = row]
    BY <1>1 DEF Relink, TypeInv, TypeOK
<1>4. late' \subseteq Ids
    BY <1>1, NoteLateType DEF Relink
<1>5. /\ Touch(i) /\ End(c)
      /\ preference' = preference /\ overtaken' = overtaken /\ reviewed' = reviewed
      /\ lastRejected' = lastRejected /\ forgotten' = forgotten /\ racing' = racing
    BY DEF Relink
<1> HIDE DEF i, row
<1> QED
    BY <1>1, <1>2, <1>3, <1>4, <1>5, WriteStep DEF TypeInv, TypeOK

\* What a creation inserts.
LEMMA NewRow ==
    ASSUME NEW evidence \in Evidence \cup {None}
    PROVE  /\ [NoRow EXCEPT !.state = Recommended, !.evidence = evidence] \in Row
           /\ [NoRow EXCEPT !.state = Recommended, !.evidence = evidence].state = Recommended
           /\ Recommended # Absent
BY DEF NoRow, Row, States, Recommended, Absent

\* The insertion of an action.
LEMMA InsertActionKeeps ==
    ASSUME TypeInv, NEW c \in Calls, InsertAction(c)
    PROVE  TypeInv'
<1> DEFINE row == [NoRow EXCEPT !.state = Recommended, !.evidence = call[c].evidence]
<1>1. PICK i \in Ids : rows' = [rows EXCEPT ![i] = row] /\ Touch(i)
    BY DEF InsertAction
<1>2. call[c].evidence \in Evidence \cup {None}
    BY DEF TypeInv, TypeOK, Request
<1>3. row \in Row /\ row.state # Absent
    BY <1>2, NewRow
<1>4. End(c) /\ UNCHANGED <<preference, history>>
    BY DEF InsertAction
<1> HIDE DEF row
<1> QED
    BY <1>1, <1>3, <1>4, WriteStep DEF TypeInv, TypeOK, history

\* The check of the preference.
LEMMA BeginCreateKeeps ==
    ASSUME TypeInv, NEW c \in Calls, BeginCreate(c)
    PROVE  TypeInv'
<1>1. PICK e \in Evidence : Goto(c, "find_active", [Idle EXCEPT !.op = "create", !.evidence = e])
    BY DEF BeginCreate
<1> DEFINE request == [Idle EXCEPT !.op = "create", !.evidence = e]
<1>2. request.id = None /\ request.evidence = e /\ request \in Request
    BY DEF Idle, Request, Ops
<1>3. "find_active" \in Steps
    BY DEF Steps, CreateSteps
<1>4. pc'[c] = "find_active" /\ call'[c] = request
    BY <1>1, <1>2, <1>3, GotoStep DEF TypeInv
<1>5. UNCHANGED <<rows, newer, preference, history>>
    BY DEF BeginCreate
<1> HIDE DEF request
<1>6. Asked(c)'
    BY <1>2, <1>4 DEF Asked, Moving, CreateSteps
<1> QED
    BY <1>1, <1>2, <1>3, <1>5, <1>6, ReadStep DEF request

\* The search for an active action remembers the one it found.
LEMMA FindActiveKeeps ==
    ASSUME TypeInv, NEW c \in Calls, FindActive(c)
    PROVE  TypeInv'
<1>1. /\ UNCHANGED <<rows, newer, preference, history>>
      /\ call[c] \in Request /\ call[c].id = None /\ call[c].evidence \in Evidence
      /\ "find_rejected" \in Steps
    BY DEF FindActive, TypeInv, TypeOK, Asked, Steps, CreateSteps
<1>2. CASE Goto(c, "find_rejected", call[c])
    <2>1. pc'[c] = "find_rejected" /\ call'[c] = call[c]
        BY <1>1, <1>2, GotoStep DEF TypeInv
    <2>2. Asked(c)'
        BY <1>1, <2>1 DEF Asked, Moving, CreateSteps
    <2> QED
        BY <1>1, <1>2, <2>2, ReadStep
<1>3. CASE \E i \in Ids : /\ IsActive(rows[i].state)
                         /\ Goto(c, "find_rejected", [call[c] EXCEPT !.id = i, !.from = rows[i].state])
    <2>1. PICK i \in Ids : /\ IsActive(rows[i].state)
                           /\ Goto(c, "find_rejected", [call[c] EXCEPT !.id = i, !.from = rows[i].state])
        BY <1>3
    <2> DEFINE request == [call[c] EXCEPT !.id = i, !.from = rows[i].state]
    <2>2. rows[i].state \in States \cup {Absent}
        BY DEF TypeInv, TypeOK, Row
    <2>3. /\ request \in Request /\ request.id = i /\ request.from = rows[i].state
          /\ request.evidence \in Evidence
        BY <1>1, <2>2 DEF Request
    <2>4. rows[i].state # Absent
        BY <2>1 DEF IsActive, ACTIVE_DEDUPE_STATUSES, Absent
    <2>5. pc'[c] = "find_rejected" /\ call'[c] = request
        BY <1>1, <2>1, <2>3, GotoStep DEF TypeInv
    <2> HIDE DEF request
    <2>6. rows' = rows
        BY <1>1
    <2>7. Asked(c)'
        BY <2>1, <2>3, <2>4, <2>5, <2>6 DEF Asked, Moving, CreateSteps
    <2> QED
        BY <1>1, <2>1, <2>3, <2>7, ReadStep DEF request
<1> QED
    BY <1>2, <1>3 DEF FindActive

\* A step that moves one handler and may note that a creation was let through.
LEMMA FindRejectedKeeps ==
    ASSUME TypeInv, NEW c \in Calls, FindRejected(c)
    PROVE  TypeInv'
<1>1. /\ call[c] \in Request /\ pc[c] = "find_rejected" /\ Asked(c)
      /\ UNCHANGED <<rows, newer, preference, late, overtaken, reviewed, lastRejected, racing>>
      /\ {"relink", "insert_action", "idle"} \subseteq Steps
    BY DEF FindRejected, TypeInv, TypeOK, Steps, CreateSteps
<1>2. forgotten' \in BOOLEAN
    <2>1. forgotten \in BOOLEAN
        BY DEF TypeInv, TypeOK
    <2>2. forgotten' = forgotten \/ forgotten' = (forgotten \/ call[c].evidence = lastRejected)
        BY DEF FindRejected
    <2> QED
        BY <2>1, <2>2
<1>3. PICK step \in {"relink", "insert_action", "idle"}, request \in {call[c], Idle} :
          /\ Goto(c, step, request)
          /\ step # "idle" => request = call[c]
          /\ step = "relink" => call[c].id # None
    BY DEF FindRejected, End
<1>4. step \in Steps /\ request \in Request
    BY <1>1, <1>3, IdleIsRequest
<1>5. /\ pc' \in [Calls -> Steps] /\ call' \in [Calls -> Request] /\ begun' \in Nat
      /\ pc'[c] = step /\ call'[c] = request
      /\ \A d \in Calls \ {c} : pc'[d] = pc[d] /\ call'[d] = call[d]
    BY <1>3, <1>4, GotoStep DEF TypeInv
<1>6. TypeOK'
    BY <1>1, <1>2, <1>5 DEF TypeInv, TypeOK
<1>7. Asked(c)'
    BY <1>1, <1>3, <1>5 DEF Asked, Moving, CreateSteps
<1>8. ASSUME NEW d \in Calls \ {c} PROVE Asked(d)'
    BY <1>1, <1>5, <1>8 DEF TypeInv, Asked
<1> QED
    BY <1>6, <1>7, <1>8 DEF TypeInv

\* The preferences route.
LEMMA SetPreferenceKeeps ==
    ASSUME TypeInv, SetPreference
    PROVE  TypeInv'
<1>1. UNCHANGED <<rows, newer, pc, call, begun, late, overtaken, reviewed, lastRejected, forgotten>>
    BY DEF SetPreference, handlers
<1>2. preference' \in {"none", "suppressed", "allowed"} /\ racing' \subseteq Calls
    BY DEF SetPreference
<1>3. TypeOK'
    BY <1>1, <1>2 DEF TypeInv, TypeOK
<1>4. \A c \in Calls : Asked(c)'
    BY <1>1 DEF TypeInv, Asked
<1> QED
    BY <1>3, <1>4 DEF TypeInv

\* All steps together.
LEMMA NextKeepsTypes == TypeInv /\ [Next]_vars => TypeInv'
<1> SUFFICES ASSUME TypeInv, [Next]_vars PROVE TypeInv'
    OBVIOUS
<1>1. CASE UNCHANGED vars
    BY <1>1 DEF TypeInv, TypeOK, Asked, vars, handlers, history
<1>2. CASE SetPreference
    BY <1>2, SetPreferenceKeeps
<1>3. ASSUME NEW c \in Calls, TransitionRoutes(c) PROVE TypeInv'
    BY <1>3, BeginTransitionKeeps, BeginApproveKeeps, BeginExpireKeeps, BeginRevalidateKeeps,
       TransitionKeeps, UpdateKeeps DEF TransitionRoutes
<1>4. ASSUME NEW c \in Calls, EditRoute(c) PROVE TypeInv'
    BY <1>4, BeginEditKeeps, CheckDraftKeeps, WriteDraftKeeps DEF EditRoute
<1>5. ASSUME NEW c \in Calls, CreateRoute(c) PROVE TypeInv'
    BY <1>5, BeginCreateKeeps, FindActiveKeeps, FindRejectedKeeps, RelinkKeeps, InsertActionKeeps
       DEF CreateRoute
<1>6. ASSUME NEW c \in Calls, Fail(c) PROVE TypeInv'
    BY <1>6, EndRead DEF Fail
<1> QED
    BY <1>1, <1>2, <1>3, <1>4, <1>5, <1>6 DEF Next

\* Where a behaviour starts is well typed.
LEMMA InitTypes == Init => TypeInv
<1> SUFFICES ASSUME Init PROVE TypeInv
    OBVIOUS
<1>1. PICK start \in Starts :
          rows = start.rows /\ newer = start.newer /\ lastRejected = start.lastRejected
    BY DEF Init
<1>2. /\ rows \in [Ids -> Row] /\ newer \subseteq Ids \X Ids
      /\ lastRejected \in Evidence \cup {None}
    BY <1>1, ConstantsAssumption
<1>3. TypeOK
    BY <1>2, IdleIsRequest DEF Init, TypeOK, Steps, NotReviewed
<1>4. \A c \in Calls : Asked(c)
    BY DEF Init, Asked, Moving, CreateSteps
<1> QED
    BY <1>3, <1>4 DEF TypeInv

\* The inductive invariant of the types.
LEMMA TypesHold == Spec => []TypeInv
BY InitTypes, NextKeepsTypes, PTL DEF Spec

\* Every action has a status and a level that fit together, and every handler
\* a request of its route, for all numbers of handlers, rows and drafts
\* (action-store.ts, action-transitions.ts).
THEOREM TypeCorrect == Spec => []TypeOK
BY TypesHold, PTL DEF TypeInv

-------------------------------------------------------------------------------
\* The statements that read: all but the four that write a row, the search for
\* a rejected action, and the preference.
Reads(c) ==
    \/ BeginTransition(c) \/ BeginApprove(c) \/ BeginExpire(c) \/ BeginRevalidate(c) \/ Transition(c)
    \/ BeginEdit(c) \/ CheckDraft(c) \/ BeginCreate(c) \/ FindActive(c) \/ Fail(c)

\* A step is a read, one of the writes, the search for a rejected action, or
\* the preference.
LEMMA StepKinds ==
    ASSUME Next
    PROVE  \/ SetPreference
           \/ \E c \in Calls : \/ Reads(c) \/ Update(c) \/ WriteDraft(c) \/ FindRejected(c)
                             \/ Relink(c) \/ InsertAction(c)
BY DEF Next, TransitionRoutes, EditRoute, CreateRoute, Reads

\* A statement moves its own handler only, whatever it moves to.
LEMMA OneHandler ==
    ASSUME TypeInv, NEW c \in Calls, NEW step, NEW request, Goto(c, step, request)
    PROVE  /\ pc'[c] = step /\ call'[c] = request
           /\ \A d \in Calls \ {c} : pc'[d] = pc[d] /\ call'[d] = call[d]
BY DEF TypeInv, TypeOK, Goto

\* Where a handler that read is, and what its request has to do with the rows.
HasRead(c) ==
    LET request == call'[c]
        row == rows[request.id]
    IN
    \/ pc'[c] \in {"idle", "check_draft", "write_draft"}
    \/ pc'[c] = "find_active" /\ preference # "suppressed"
    \/ /\ pc'[c] = "find_rejected" /\ pc[c] = "find_active"
    \/ /\ pc'[c] = "transition" /\ request.id \in Ids
       /\ \/ /\ request.op = "approve" /\ row.state = Awaiting
             /\ request.assets = row.assets /\ request.plan = row.plan
             /\ request.revalidation = row.revalidation
          \/ request.op = "expire"
          \/ /\ request.op = "revalidate" /\ request.plan = row.plan
             /\ request.to[2] = row.state[2] /\ row.state[2] \in 1..3
    \/ /\ pc'[c] = "update" /\ request.id \in Ids /\ request.from = row.state
       /\ \/ request.op \notin {"approve", "revalidate"}
          \/ /\ pc[c] = "transition"
             /\ request.op = call[c].op /\ request.id = call[c].id /\ request.to = call[c].to
             /\ request.assets = call[c].assets /\ request.plan = call[c].plan
             /\ request.revalidation = call[c].revalidation

\* What a statement that reads leaves behind.
LEMMA ReadEffect ==
    ASSUME TypeInv, NEW c \in Calls, Reads(c)
    PROVE  /\ UNCHANGED <<rows, newer, preference, late, overtaken, reviewed, lastRejected, forgotten, racing>>
           /\ \A d \in Calls \ {c} : pc'[d] = pc[d] /\ call'[d] = call[d]
           /\ HasRead(c)
<1>1. UNCHANGED <<rows, newer, preference, late, overtaken, reviewed, lastRejected, forgotten, racing>>
    BY DEF Reads, BeginTransition, BeginApprove, BeginExpire, BeginRevalidate, Transition, BeginEdit,
           CheckDraft, BeginCreate, FindActive, Fail, history
<1> DEFINE Others == \A d \in Calls \ {c} : pc'[d] = pc[d] /\ call'[d] = call[d]
<1>2. SUFFICES Others /\ HasRead(c)
    BY <1>1
<1>3. CASE BeginTransition(c)
    <2>1. PICK i \in {k \in Ids : Exists(k)}, op \in DOMAIN Targets :
              \E to \in Targets[op] : \E draft \in IF op = "prepare" THEN Drafts ELSE {None} :
                 Decide(c, [Idle EXCEPT !.op = op, !.id = i, !.to = to, !.assets = draft, !.plan = draft])
        BY <1>3 DEF BeginTransition
    <2>2. PICK to \in Targets[op], draft \in IF op = "prepare" THEN Drafts ELSE {None} :
              Decide(c, [Idle EXCEPT !.op = op, !.id = i, !.to = to, !.assets = draft, !.plan = draft])
        BY <2>1
    <2> DEFINE request == [Idle EXCEPT !.op = op, !.id = i, !.to = to, !.assets = draft, !.plan = draft]
               asked == [request EXCEPT !.from = rows[request.id].state]
    <2>3. asked.op = op /\ asked.id = i /\ asked.from = rows[i].state
        BY DEF Idle
    <2>4. Goto(c, "update", asked)
        BY <2>2 DEF Decide
    <2>5. op \notin {"approve", "revalidate"}
        BY DEF Targets
    <2> HIDE DEF asked
    <2>6. pc'[c] = "update" /\ call'[c] = asked /\ Others
        BY <2>4, OneHandler
    <2> QED
        BY <2>3, <2>5, <2>6 DEF HasRead
<1>4. CASE BeginApprove(c)
    <2>1. PICK i \in Ids :
              /\ Approvable(rows[i])
              /\ Ask(c, [Idle EXCEPT !.op = "approve", !.id = i, !.to = Approved,
                                     !.assets = rows[i].assets, !.plan = rows[i].plan,
                                     !.revalidation = rows[i].revalidation])
        BY <1>4 DEF BeginApprove
    <2> DEFINE request == [Idle EXCEPT !.op = "approve", !.id = i, !.to = Approved,
                                       !.assets = rows[i].assets, !.plan = rows[i].plan,
                                       !.revalidation = rows[i].revalidation]
    <2>2. /\ request.op = "approve" /\ request.id = i
          /\ request.assets = rows[i].assets /\ request.plan = rows[i].plan
          /\ request.revalidation = rows[i].revalidation
        BY DEF Idle
    <2> HIDE DEF request
    <2>3. pc'[c] = "transition" /\ call'[c] = request /\ Others
        BY <2>1, OneHandler DEF Ask, request
    <2> QED
        BY <2>1, <2>2, <2>3 DEF HasRead, Approvable
<1>5. CASE BeginExpire(c)
    <2>1. PICK i \in {k \in Ids : Exists(k)} :
              Ask(c, [Idle EXCEPT !.op = "expire", !.id = i, !.to = At("expired", rows[i].state)])
        BY <1>5 DEF BeginExpire
    <2> DEFINE request == [Idle EXCEPT !.op = "expire", !.id = i, !.to = At("expired", rows[i].state)]
    <2>2. request.op = "expire" /\ request.id = i
        BY DEF Idle
    <2> HIDE DEF request
    <2>3. pc'[c] = "transition" /\ call'[c] = request /\ Others
        BY <2>1, OneHandler DEF Ask, request
    <2> QED
        BY <2>1, <2>2, <2>3 DEF HasRead
<1>6. CASE BeginRevalidate(c)
    <2>0. PICK i \in Ids :
              /\ rows[i].state \in {Recommended, Draft, Awaiting, Snoozed}
              /\ \E e \in Evidence \ {rows[i].evidence} :
                    Ask(c, [Idle EXCEPT !.op = "revalidate", !.id = i, !.plan = rows[i].plan,
                                        !.revalidation = e, !.to = At("needs_revalidation", rows[i].state)])
        BY <1>6 DEF BeginRevalidate
    <2>1. PICK e \in Evidence :
              Ask(c, [Idle EXCEPT !.op = "revalidate", !.id = i, !.plan = rows[i].plan,
                                  !.revalidation = e, !.to = At("needs_revalidation", rows[i].state)])
        BY <2>0
    <2> DEFINE request == [Idle EXCEPT !.op = "revalidate", !.id = i, !.plan = rows[i].plan,
                                       !.revalidation = e, !.to = At("needs_revalidation", rows[i].state)]
    <2>2. /\ request.op = "revalidate" /\ request.id = i /\ request.plan = rows[i].plan
          /\ request.to = At("needs_revalidation", rows[i].state)
        BY DEF Idle
    <2> HIDE DEF request
    <2>3. pc'[c] = "transition" /\ call'[c] = request /\ Others
        BY <2>1, OneHandler DEF Ask, request
    <2>4. request.to[2] = rows[i].state[2] /\ rows[i].state[2] \in 1..3
        BY <2>0, <2>2 DEF At, Recommended, Draft, Awaiting, Snoozed
    <2> QED
        BY <2>1, <2>2, <2>3, <2>4 DEF HasRead
<1>7. CASE Transition(c)
    <2>1. call[c] \in Request /\ call[c].id \in Ids /\ pc[c] = "transition"
        BY <1>7 DEF Transition, TypeInv, TypeOK, Asked
    <2>2. CASE End(c)
        BY <2>2, OneHandler DEF End, HasRead
    <2>3. CASE Decide(c, call[c])
        <3> DEFINE asked == [call[c] EXCEPT !.from = rows[call[c].id].state]
        <3>1. Goto(c, "update", asked)
            BY <2>3 DEF Decide
        <3>2. /\ asked.op = call[c].op /\ asked.id = call[c].id /\ asked.to = call[c].to
              /\ asked.assets = call[c].assets /\ asked.plan = call[c].plan
              /\ asked.revalidation = call[c].revalidation
              /\ asked.from = rows[call[c].id].state
            BY <2>1 DEF Request
        <3> HIDE DEF asked
        <3>3. pc'[c] = "update" /\ call'[c] = asked /\ Others
            BY <3>1, OneHandler
        <3> QED
            BY <2>1, <3>2, <3>3 DEF HasRead
    <2> QED
        BY <1>7, <2>2, <2>3 DEF Transition
<1>8. CASE BeginEdit(c) \/ CheckDraft(c) \/ Fail(c)
    <2>1. PICK step \in {"idle", "check_draft", "write_draft"} : \E request : Goto(c, step, request)
        BY <1>8 DEF BeginEdit, CheckDraft, Fail, End
    <2>2. pc'[c] = step /\ Others
        BY <2>1, OneHandler
    <2> QED
        BY <2>2 DEF HasRead
<1>9. CASE BeginCreate(c) \/ FindActive(c)
    <2>1. PICK step \in {"find_active", "find_rejected"} :
              /\ \E request : Goto(c, step, request)
              /\ step = "find_active" => preference # "suppressed"
              /\ step = "find_rejected" => pc[c] = "find_active"
        BY <1>9 DEF BeginCreate, FindActive
    <2>2. pc'[c] = step /\ Others
        BY <2>1, OneHandler
    <2> QED
        BY <2>1, <2>2 DEF HasRead
<1> QED
    BY <1>3, <1>4, <1>5, <1>6, <1>7, <1>8, <1>9 DEF Reads

\* The same for the search for a rejected action.
LEMMA FindRejectedEffect ==
    ASSUME TypeInv, NEW c \in Calls, FindRejected(c)
    PROVE  /\ UNCHANGED <<rows, newer, preference, late, overtaken, reviewed, lastRejected, racing>>
           /\ \A d \in Calls \ {c} : pc'[d] = pc[d] /\ call'[d] = call[d]
           /\ pc'[c] \in {"idle", "relink", "insert_action"}
           /\ pc[c] = "find_rejected"
<1>1. PICK step \in {"relink", "insert_action", "idle"} : \E request : Goto(c, step, request)
    BY DEF FindRejected, End
<1> QED
    BY <1>1, OneHandler DEF FindRejected

\* A write is of one row and ends its handler.
Writes(c, i) ==
    /\ rows' \in [Ids -> Row]
    /\ \A k \in Ids \ {i} : rows'[k] = rows[k]
    /\ Touch(i)
    /\ pc'[c] = "idle"
    /\ \A d \in Calls \ {c} : pc'[d] = pc[d] /\ call'[d] = call[d]
    /\ preference' = preference /\ forgotten' = forgotten /\ racing' = racing

\* What an update leaves behind.
LEMMA UpdateEffect ==
    ASSUME TypeInv, NEW c \in Calls, Update(c)
    PROVE  LET i == call[c].id IN
           /\ pc[c] = "update" /\ i \in Ids /\ call[c] \in Request
           /\ Writes(c, i)
           /\ rows[i] \in Row /\ rows'[i] = Written(rows[i], call[c])
           /\ rows'[i].state = call[c].to /\ rows'[i].evidence = rows[i].evidence
           /\ isValidTransition(call[c].from, call[c].to)
           /\ ~Duplicates(i, call[c].to)
           /\ NoteLate(i, call[c].from)
           /\ NoteOvertaken(i, call[c].op)
           /\ reviewed' = IF call[c].op = "approve"
                          THEN [reviewed EXCEPT ![i] = <<call[c].assets, call[c].plan, call[c].revalidation>>]
                          ELSE reviewed
           /\ lastRejected' = IF call[c].op = "reject" THEN rows[i].evidence ELSE lastRejected
<1> DEFINE i == call[c].id
<1>1. /\ call[c] \in Request /\ i \in Ids /\ isValidTransition(call[c].from, call[c].to)
      /\ call[c].to \in States /\ rows[i] \in Row
      /\ rows' = [rows EXCEPT ![i] = Written(rows[i], call[c])]
      /\ Written(rows[i], call[c]) \in Row
    BY UpdateFacts
<1>2. rows'[i] = Written(rows[i], call[c]) /\ \A k \in Ids \ {i} : rows'[k] = rows[k]
    BY <1>1 DEF TypeInv, TypeOK
<1>3. rows'[i].state = call[c].to /\ rows'[i].evidence = rows[i].evidence
    BY <1>1, <1>2, WrittenRow
<1>4. /\ End(c) /\ Touch(i) /\ preference' = preference /\ forgotten' = forgotten /\ racing' = racing
      /\ pc[c] = "update" /\ ~Duplicates(i, call[c].to) /\ NoteLate(i, call[c].from)
      /\ NoteOvertaken(i, call[c].op)
      /\ reviewed' = IF call[c].op = "approve"
                     THEN [reviewed EXCEPT ![i] = <<call[c].assets, call[c].plan, call[c].revalidation>>]
                     ELSE reviewed
      /\ lastRejected' = IF call[c].op = "reject" THEN rows[i].evidence ELSE lastRejected
    BY DEF Update
<1>5. rows' \in [Ids -> Row]
    BY <1>1 DEF TypeInv, TypeOK
<1>6. pc'[c] = "idle" /\ \A d \in Calls \ {c} : pc'[d] = pc[d] /\ call'[d] = call[d]
    BY <1>4, OneHandler DEF End
<1>7. Writes(c, i)
    BY <1>2, <1>4, <1>5, <1>6 DEF Writes
<1> QED
    BY <1>1, <1>2, <1>3, <1>4, <1>7

\* What an edit leaves behind: a late row, or one that is still a draft.
LEMMA WriteDraftEffect ==
    ASSUME TypeInv, NEW c \in Calls, WriteDraft(c)
    PROVE  LET i == call[c].id IN
           /\ pc[c] = "write_draft" /\ i \in Ids /\ Writes(c, i)
           /\ call[c].from = Draft /\ NoteLate(i, call[c].from)
           /\ rows[i].state # Absent
           /\ rows'[i].state = rows[i].state /\ rows'[i].evidence = rows[i].evidence
           /\ overtaken' = overtaken /\ reviewed' = reviewed /\ lastRejected' = lastRejected
<1> DEFINE i == call[c].id
<1>1. /\ i \in Ids /\ call[c].from = Draft /\ call[c] \in Request /\ pc[c] = "write_draft"
      /\ rows[i].state # Absent
    BY DEF WriteDraft, TypeInv, TypeOK, Asked
<1>2. /\ End(c) /\ Touch(i) /\ NoteLate(i, call[c].from)
      /\ preference' = preference /\ forgotten' = forgotten /\ racing' = racing
      /\ overtaken' = overtaken /\ reviewed' = reviewed /\ lastRejected' = lastRejected
      /\ rows' = [rows EXCEPT ![i].assets = call[c].assets, ![i].plan = call[c].plan,
                              ![i].revalidation = None]
    BY DEF WriteDraft
<1>3. pc'[c] = "idle" /\ \A d \in Calls \ {c} : pc'[d] = pc[d] /\ call'[d] = call[d]
    BY <1>2, OneHandler DEF End
<1>4. TypeInv'
    BY WriteDraftKeeps
<1>5. /\ rows'[i].state = rows[i].state /\ rows'[i].evidence = rows[i].evidence
      /\ \A k \in Ids \ {i} : rows'[k] = rows[k]
    BY <1>1, <1>2 DEF TypeInv, TypeOK, Row
<1>6. Writes(c, i)
    BY <1>2, <1>3, <1>4, <1>5 DEF Writes, TypeInv, TypeOK
<1> QED
    BY <1>1, <1>2, <1>5, <1>6

\* What a relink leaves behind.
LEMMA RelinkEffect ==
    ASSUME TypeInv, NEW c \in Calls, Relink(c)
    PROVE  LET i == call[c].id IN
           /\ pc[c] = "relink" /\ i \in Ids /\ Writes(c, i)
           /\ IsActive(call[c].from) /\ NoteLate(i, call[c].from)
           /\ rows[i].state # Absent
           /\ rows'[i].state = rows[i].state
           /\ rows'[i].assets = rows[i].assets /\ rows'[i].plan = rows[i].plan
           /\ rows'[i].revalidation = rows[i].revalidation
           /\ overtaken' = overtaken /\ reviewed' = reviewed /\ lastRejected' = lastRejected
<1> DEFINE i == call[c].id
<1>1. /\ i \in Ids /\ IsActive(call[c].from) /\ call[c] \in Request /\ pc[c] = "relink"
      /\ rows[i].state # Absent
    BY DEF Relink, TypeInv, TypeOK, Asked
<1>2. /\ End(c) /\ Touch(i) /\ NoteLate(i, call[c].from)
      /\ preference' = preference /\ forgotten' = forgotten /\ racing' = racing
      /\ overtaken' = overtaken /\ reviewed' = reviewed /\ lastRejected' = lastRejected
      /\ rows' = [rows EXCEPT ![i].evidence = call[c].evidence]
    BY DEF Relink
<1>3. pc'[c] = "idle" /\ \A d \in Calls \ {c} : pc'[d] = pc[d] /\ call'[d] = call[d]
    BY <1>2, OneHandler DEF End
<1>4. TypeInv'
    BY RelinkKeeps
<1>5. /\ rows'[i].state = rows[i].state
      /\ rows'[i].assets = rows[i].assets /\ rows'[i].plan = rows[i].plan
      /\ rows'[i].revalidation = rows[i].revalidation
      /\ \A k \in Ids \ {i} : rows'[k] = rows[k]
    BY <1>1, <1>2 DEF TypeInv, TypeOK, Row
<1>6. Writes(c, i)
    BY <1>2, <1>3, <1>4, <1>5 DEF Writes, TypeInv, TypeOK
<1> QED
    BY <1>1, <1>2, <1>5, <1>6

\* What an insertion leaves behind.
LEMMA InsertActionEffect ==
    ASSUME TypeInv, NEW c \in Calls, InsertAction(c)
    PROVE  \E i \in Ids :
              /\ pc[c] = "insert_action" /\ Writes(c, i)
              /\ rows[i].state = Absent /\ rows'[i].state = Recommended
              /\ ~Duplicates(i, Recommended)
              /\ late' = late /\ overtaken' = overtaken /\ reviewed' = reviewed
              /\ lastRejected' = lastRejected
<1> DEFINE row == [NoRow EXCEPT !.state = Recommended, !.evidence = call[c].evidence]
<1>1. PICK i \in Ids : /\ ~Exists(i) /\ ~Duplicates(i, Recommended)
                       /\ rows' = [rows EXCEPT ![i] = row] /\ Touch(i)
    BY DEF InsertAction
<1>2. /\ pc[c] = "insert_action" /\ End(c) /\ preference' = preference
      /\ forgotten' = forgotten /\ racing' = racing
      /\ late' = late /\ overtaken' = overtaken /\ reviewed' = reviewed
      /\ lastRejected' = lastRejected
    BY DEF InsertAction, history
<1>3. pc'[c] = "idle" /\ \A d \in Calls \ {c} : pc'[d] = pc[d] /\ call'[d] = call[d]
    BY <1>2, OneHandler DEF End
<1>4. call[c].evidence \in Evidence \cup {None}
    BY DEF TypeInv, TypeOK, Request
<1>5. row.state = Recommended
    BY <1>4, NewRow
<1> HIDE DEF row
<1>6. rows'[i].state = Recommended /\ \A k \in Ids \ {i} : rows'[k] = rows[k]
    BY <1>1, <1>5 DEF TypeInv, TypeOK
<1>7. TypeInv'
    BY InsertActionKeeps
<1>8. Writes(c, i)
    BY <1>1, <1>2, <1>3, <1>6, <1>7 DEF Writes, TypeInv, TypeOK
<1> QED
    BY <1>1, <1>2, <1>6, <1>8 DEF Exists

-------------------------------------------------------------------------------
\* Approvals look at complete drafts.
Reviewed(i) == reviewed[i][1] \in Drafts /\ reviewed[i][2] \in Complete

ReviewInv ==
    /\ ApprovedWasReviewed
    /\ \A c \in Calls : pc[c] = "update" /\ call[c].from[2] >= 4 => Reviewed(call[c].id)

\* Every step keeps the reviews.
LEMMA KeepsReviews ==
    ASSUME TypeInv, ReviewInv, Next
    PROVE  ReviewInv'
<1>1. CASE SetPreference
    BY <1>1 DEF SetPreference, handlers, ReviewInv, ApprovedWasReviewed, Reviewed
<1>2. ASSUME NEW c \in Calls, Reads(c)
      PROVE  ReviewInv'
    <2>1. /\ rows' = rows /\ reviewed' = reviewed /\ HasRead(c)
          /\ \A d \in Calls \ {c} : pc'[d] = pc[d] /\ call'[d] = call[d]
        BY <1>2, ReadEffect
    <2>2. ASSUME pc'[c] = "update" /\ call'[c].from[2] >= 4
          PROVE  Reviewed(call'[c].id)
        BY <2>1, <2>2 DEF HasRead, ReviewInv, ApprovedWasReviewed, Reviewed
    <2> QED
        BY <2>1, <2>2 DEF ReviewInv, ApprovedWasReviewed, Reviewed
<1>3. ASSUME NEW c \in Calls, FindRejected(c)
      PROVE  ReviewInv'
    BY <1>3, FindRejectedEffect DEF ReviewInv, ApprovedWasReviewed, Reviewed
<1>4. ASSUME NEW c \in Calls, WriteDraft(c) \/ Relink(c)
      PROVE  ReviewInv'
    <2>1. PICK i \in Ids : Writes(c, i) /\ rows'[i].state = rows[i].state /\ reviewed' = reviewed
        BY <1>4, WriteDraftEffect, RelinkEffect
    <2> QED
        BY <2>1 DEF Writes, ReviewInv, ApprovedWasReviewed, Reviewed
<1>5. ASSUME NEW c \in Calls, InsertAction(c)
      PROVE  ReviewInv'
    <2>1. PICK i \in Ids : Writes(c, i) /\ rows'[i].state = Recommended /\ reviewed' = reviewed
        BY <1>5, InsertActionEffect
    <2>2. Recommended[2] = 1
        BY DEF Recommended
    <2> QED
        BY <2>1, <2>2 DEF Writes, ReviewInv, ApprovedWasReviewed, Reviewed
<1>6. ASSUME NEW c \in Calls, Update(c)
      PROVE  ReviewInv'
    <2> PICK i : i = call[c].id
        OBVIOUS
    <2>1. /\ pc[c] = "update" /\ i \in Ids /\ Writes(c, i)
          /\ rows'[i].state = call[c].to
          /\ isValidTransition(call[c].from, call[c].to)
          /\ reviewed' = IF call[c].op = "approve"
                         THEN [reviewed EXCEPT ![i] = <<call[c].assets, call[c].plan, call[c].revalidation>>]
                         ELSE reviewed
        BY <1>6, UpdateEffect
    <2>2. /\ call[c].op = "approve" => call[c].assets \in Drafts /\ call[c].plan \in Complete
          /\ call[c].to = Approved => call[c].op = "approve"
        BY <2>1 DEF TypeInv, Asked, Moving
    <2>3. call[c].op = "approve" => Reviewed(i)'
        BY <2>1, <2>2 DEF Reviewed, TypeInv, TypeOK
    <2>4. \A k \in Ids : Reviewed(k) => Reviewed(k)'
        BY <2>1, <2>3 DEF Reviewed, TypeInv, TypeOK
    <2>5. call[c].to[2] >= 4 => Reviewed(i)'
        BY <2>1, <2>2, <2>3, <2>4, LevelsRise DEF ReviewInv
    <2>6. ApprovedWasReviewed'
        BY <2>1, <2>4, <2>5 DEF Writes, ReviewInv, ApprovedWasReviewed, Reviewed
    <2>7. ASSUME NEW d \in Calls, pc'[d] = "update" /\ call'[d].from[2] >= 4
          PROVE  Reviewed(call[d].id)'
        <3>1. d # c /\ pc[d] = "update" /\ call'[d] = call[d]
            BY <2>1, <2>7 DEF Writes
        <3>2. call[d].id \in Ids /\ Reviewed(call[d].id)
            BY <2>7, <3>1 DEF ReviewInv, TypeInv, Asked
        <3> QED
            BY <2>4, <3>1, <3>2 DEF Reviewed
    <2> QED
        BY <2>6, <2>7 DEF ReviewInv, Reviewed
<1> QED
    BY <1>1, <1>2, <1>3, <1>4, <1>5, <1>6, StepKinds

\* Who is at level L4 or L5 got there by a call that looked at its assets and
\* at a complete plan, whatever the interleaving of the routes.
THEOREM ApprovalsAreReviewed == Spec => []ApprovedWasReviewed
<1>1. Init => ReviewInv
    <2> SUFFICES ASSUME Init PROVE ReviewInv
        OBVIOUS
    <2>1. PICK start \in Starts : rows = start.rows
        BY DEF Init
    <2>2. \A i \in Ids : rows[i].state[2] <= 3
        BY <2>1, ConstantsAssumption
    <2>3. \A i \in Ids : rows[i].state[2] \in 0..5
        <3>1. \A i \in Ids : rows[i].state \in States \cup {Absent}
            BY InitTypes DEF TypeInv, TypeOK, Row
        <3>2. Absent[2] = 0
            BY DEF Absent
        <3> QED
            BY <3>1, <3>2, StateFacts
    <2> QED
        BY <2>2, <2>3 DEF Init, ReviewInv, ApprovedWasReviewed
<1>2. TypeInv /\ ReviewInv /\ [Next]_vars => ReviewInv'
    BY KeepsReviews DEF vars, handlers, history, ReviewInv, ApprovedWasReviewed, Reviewed
<1> QED
    BY <1>1, <1>2, TypesHold, PTL DEF Spec, ReviewInv

-------------------------------------------------------------------------------
\* What is approved is what is there.

\* An approval under way has seen what is there, at level L3 or above, but for
\* revalidations written since; a revalidation of such an action has seen its
\* plan, and leads to no level above.
SeesRow(c) ==
    LET request == call[c]
        row == rows[request.id]
    IN
    pc[c] \in Moving /\ request.id \notin late =>
        /\ request.op = "approve" =>
              /\ row.state[2] >= 3 /\ request.assets = row.assets /\ request.plan = row.plan
              /\ request.id \notin overtaken => request.revalidation = row.revalidation
        /\ request.op = "revalidate" =>
              /\ request.to[2] \in 1..3
              /\ request.to[2] >= 3 => row.state[2] >= 3 /\ request.plan = row.plan

CoverInv == ApprovalCoversDraft /\ \A c \in Calls : SeesRow(c)

\* A write in time of a row keeps what others saw of it, unless it changes
\* the draft of a row below level L3, or overtakes the approvals under way.
LEMMA WriteKeepsSight ==
    ASSUME TypeInv, CoverInv, NEW c \in Calls, NEW i \in Ids, Writes(c, i), late \subseteq late',
           overtaken \subseteq overtaken',
           \/ i \in late'
           \/ /\ rows[i].state[2] >= 3 => rows'[i].state[2] >= 3
              /\ \/ rows[i].state[2] < 3
                 \/ /\ rows'[i].assets = rows[i].assets /\ rows'[i].plan = rows[i].plan
                    /\ \/ rows'[i].revalidation = rows[i].revalidation
                       \/ UnderApproval(i) => i \in overtaken'
    PROVE  \A d \in Calls : SeesRow(d)'
<1>1. SUFFICES ASSUME NEW d \in Calls \ {c}, pc[d] \in Moving, call[d].id \notin late'
               PROVE  SeesRow(d)'
    BY DEF Writes, SeesRow, Moving
<1>2. /\ pc'[d] = pc[d] /\ call'[d] = call[d] /\ SeesRow(d) /\ call[d].id \in Ids
    BY <1>1 DEF Writes, CoverInv, TypeInv, Asked, Moving
<1>3. \A k \in Ids : rows[k].state[2] \in 0..5
    <2>1. \A k \in Ids : rows[k].state \in States \cup {Absent}
        BY DEF TypeInv, TypeOK, Row
    <2>2. Absent[2] = 0
        BY DEF Absent
    <2> QED
        BY <2>1, <2>2, StateFacts
<1>4. CASE call[d].id # i
    <2>1. rows'[call[d].id] = rows[call[d].id] /\ call[d].id \notin late
        BY <1>1, <1>2, <1>4 DEF Writes
    <2>2. call[d].id \notin overtaken' => call[d].id \notin overtaken
        OBVIOUS
    <2> QED
        BY <1>1, <1>2, <2>1, <2>2 DEF SeesRow
<1>5. CASE call[d].id = i
    <2>1. /\ i \notin late
          /\ rows[i].state[2] >= 3 =>
                /\ rows'[i].state[2] >= 3
                /\ rows'[i].assets = rows[i].assets /\ rows'[i].plan = rows[i].plan
                /\ \/ rows'[i].revalidation = rows[i].revalidation
                   \/ UnderApproval(i) => i \in overtaken'
        BY <1>1, <1>3, <1>5
    <2>2. call[d].op = "approve" => UnderApproval(i)
        BY <1>1, <1>5 DEF UnderApproval, Moving
    <2>3. call[d].op = "approve" =>
              /\ rows'[i].state[2] >= 3
              /\ call[d].assets = rows'[i].assets /\ call[d].plan = rows'[i].plan
              /\ i \notin overtaken' => call[d].revalidation = rows'[i].revalidation
        BY <1>1, <1>2, <1>5, <2>1, <2>2 DEF SeesRow
    <2>4. call[d].op = "revalidate" =>
              /\ call[d].to[2] \in 1..3
              /\ call[d].to[2] >= 3 => rows'[i].state[2] >= 3 /\ call[d].plan = rows'[i].plan
        BY <1>1, <1>2, <1>5, <2>1 DEF SeesRow
    <2> QED
        BY <1>2, <1>5, <2>3, <2>4 DEF SeesRow
<1> QED
    BY <1>4, <1>5

\* Every step keeps approvals and drafts together.
LEMMA KeepsCover ==
    ASSUME TypeInv, CoverInv, Next
    PROVE  CoverInv'
<1>1. CASE SetPreference
    BY <1>1 DEF SetPreference, handlers, CoverInv, ApprovalCoversDraft, SeesRow
<1>2. ASSUME NEW c \in Calls, Reads(c)
      PROVE  CoverInv'
    <2>1. /\ rows' = rows /\ reviewed' = reviewed /\ late' = late /\ overtaken' = overtaken
          /\ HasRead(c)
          /\ \A d \in Calls \ {c} : pc'[d] = pc[d] /\ call'[d] = call[d]
        BY <1>2, ReadEffect
    <2>2. Awaiting[2] = 3
        BY DEF Awaiting
    <2>3. SeesRow(c) /\ (pc[c] = "transition" => pc[c] \in Moving)
        BY DEF CoverInv, Moving
    <2>4. ASSUME pc'[c] \in Moving, call'[c].id \notin late'
          PROVE  SeesRow(c)'
        <3>1. CASE pc'[c] = "transition"
            BY <2>1, <2>2, <3>1 DEF HasRead, SeesRow
        <3>2. CASE pc'[c] = "update"
            BY <2>1, <2>3, <2>4, <3>2 DEF HasRead, SeesRow
        <3> QED
            BY <2>4, <3>1, <3>2 DEF Moving
    <2>5. SeesRow(c)'
        BY <2>4 DEF SeesRow
    <2> QED
        BY <2>1, <2>5 DEF CoverInv, ApprovalCoversDraft, SeesRow
<1>3. ASSUME NEW c \in Calls, FindRejected(c)
      PROVE  CoverInv'
    BY <1>3, FindRejectedEffect DEF CoverInv, ApprovalCoversDraft, SeesRow, Moving
<1>4. ASSUME NEW c \in Calls, WriteDraft(c)
      PROVE  CoverInv'
    <2> PICK i : i = call[c].id
        OBVIOUS
    <2>1. /\ i \in Ids /\ Writes(c, i) /\ NoteLate(i, Draft)
          /\ rows'[i].state = rows[i].state /\ reviewed' = reviewed /\ overtaken' = overtaken
        BY <1>4, WriteDraftEffect
    <2>2. late \subseteq late' /\ (i \in late' \/ rows[i].state[2] = 2)
        BY <2>1 DEF NoteLate, Draft
    <2>3. \A d \in Calls : SeesRow(d)'
        BY <2>1, <2>2, WriteKeepsSight
    <2>4. ApprovalCoversDraft'
        BY <2>1, <2>2 DEF Writes, CoverInv, ApprovalCoversDraft
    <2> QED
        BY <2>3, <2>4 DEF CoverInv
<1>5. ASSUME NEW c \in Calls, Relink(c)
      PROVE  CoverInv'
    <2> PICK i : i = call[c].id
        OBVIOUS
    <2>1. /\ i \in Ids /\ Writes(c, i) /\ NoteLate(i, call[c].from)
          /\ rows'[i].state = rows[i].state /\ reviewed' = reviewed /\ overtaken' = overtaken
          /\ rows'[i].assets = rows[i].assets /\ rows'[i].plan = rows[i].plan
          /\ rows'[i].revalidation = rows[i].revalidation
        BY <1>5, RelinkEffect
    <2>2. late \subseteq late'
        BY <2>1 DEF NoteLate
    <2>3. \A d \in Calls : SeesRow(d)'
        BY <2>1, <2>2, WriteKeepsSight
    <2>4. ApprovalCoversDraft'
        BY <2>1, <2>2 DEF Writes, CoverInv, ApprovalCoversDraft
    <2> QED
        BY <2>3, <2>4 DEF CoverInv
<1>6. ASSUME NEW c \in Calls, InsertAction(c)
      PROVE  CoverInv'
    <2>1. PICK i \in Ids : /\ Writes(c, i) /\ late' = late
                           /\ overtaken' = overtaken /\ reviewed' = reviewed
                           /\ rows[i].state = Absent /\ rows'[i].state = Recommended
        BY <1>6, InsertActionEffect
    <2>2. rows[i].state[2] = 0 /\ rows'[i].state[2] = 1
        BY <2>1 DEF Absent, Recommended
    <2>3. \A d \in Calls : SeesRow(d)'
        BY <2>1, <2>2, WriteKeepsSight
    <2>4. ApprovalCoversDraft'
        BY <2>1, <2>2 DEF Writes, CoverInv, ApprovalCoversDraft
    <2> QED
        BY <2>3, <2>4 DEF CoverInv
<1>7. ASSUME NEW c \in Calls, Update(c)
      PROVE  CoverInv'
    <2> PICK i : i = call[c].id
        OBVIOUS
    <2>1. /\ pc[c] = "update" /\ i \in Ids /\ call[c] \in Request
          /\ Writes(c, i)
          /\ rows[i] \in Row /\ rows'[i] = Written(rows[i], call[c])
          /\ rows'[i].state = call[c].to
          /\ isValidTransition(call[c].from, call[c].to)
          /\ NoteLate(i, call[c].from) /\ NoteOvertaken(i, call[c].op)
        BY <1>7, UpdateEffect
    <2>2. reviewed' = IF call[c].op = "approve"
                     THEN [reviewed EXCEPT ![i] = <<call[c].assets, call[c].plan, call[c].revalidation>>]
                     ELSE reviewed
        BY <1>7, UpdateEffect
    <2>0. /\ overtaken \subseteq overtaken'
          /\ call[c].op = "revalidate" /\ UnderApproval(i) => i \in overtaken'
        BY <2>1 DEF NoteOvertaken
    <2>3. late \subseteq late' /\ (i \in late' \/ rows[i].state = call[c].from)
        BY <2>1 DEF NoteLate
    <2>4. /\ call[c].op # "prepare" => rows'[i].assets = rows[i].assets
          /\ call[c].op \notin {"prepare", "revalidate"} => rows'[i].plan = rows[i].plan
          /\ call[c].op = "revalidate" => rows'[i].plan = call[c].plan
          /\ call[c].op \notin {"prepare", "revalidate"} => rows'[i].revalidation = rows[i].revalidation
        BY <2>1, TargetIsState, WrittenRow
    <2>5. /\ call[c].op = "prepare" => call[c].to = Draft
          /\ call[c].to = Approved => call[c].op = "approve"
        BY <2>1 DEF TypeInv, Asked, Moving
    <2>6. /\ call[c].from[2] \in 1..5 /\ call[c].to[2] \in 1..5
          /\ call[c].from[2] <= call[c].to[2]
          /\ call[c].to[2] >= 4 => call[c].from[2] >= 4 \/ call[c].to = Approved
          /\ call[c].to = Draft => call[c].from = Recommended
        BY <2>1, LevelsRise
    <2>7. call[c].op = "prepare" => call[c].from[2] = 1 /\ call[c].to[2] = 2
        BY <2>5, <2>6 DEF Draft, Recommended
    <2>8. i \notin late /\ call[c].op = "revalidate" =>
              /\ call[c].to[2] \in 1..3
              /\ call[c].to[2] >= 3 => call[c].plan = rows[i].plan
        BY <2>1 DEF CoverInv, SeesRow, Moving
    <2>9. ASSUME i \notin late'
          PROVE  /\ rows[i].state[2] = call[c].from[2]
                 /\ rows[i].state[2] >= 3 => rows'[i].state[2] >= 3
                 /\ rows'[i].state[2] >= 3 => /\ rows'[i].assets = rows[i].assets
                                              /\ rows'[i].plan = rows[i].plan
                                              /\ \/ rows'[i].revalidation = rows[i].revalidation
                                                 \/ UnderApproval(i) => i \in overtaken'
                 /\ rows'[i].state[2] >= 4 => rows'[i].revalidation = rows[i].revalidation
        <3>1. call[c].op = "revalidate" => call[c].to[2] <= 3
            BY <2>3, <2>8, <2>9
        <3>2. /\ rows[i].state[2] = call[c].from[2]
              /\ rows[i].state[2] >= 3 => rows'[i].state[2] >= 3
              /\ rows'[i].state[2] >= 3 => rows'[i].assets = rows[i].assets /\ rows'[i].plan = rows[i].plan
            BY <2>1, <2>3, <2>4, <2>6, <2>7, <2>8, <2>9
        <3>3. CASE call[c].op = "prepare"
            BY <2>1, <2>7, <3>2, <3>3
        <3>4. CASE call[c].op = "revalidate"
            <4>1. ~(rows'[i].state[2] >= 4)
                BY <2>1, <2>6, <3>1, <3>4
            <4>2. UnderApproval(i) => i \in overtaken'
                BY <2>0, <3>4
            <4> QED
                BY <3>2, <4>1, <4>2
        <3>5. CASE call[c].op \notin {"prepare", "revalidate"}
            BY <2>4, <3>2, <3>5
        <3> QED
            BY <3>3, <3>4, <3>5
    <2>10. \A d \in Calls : SeesRow(d)'
        <3>1. i \notin late' =>
                 \/ rows[i].state[2] < 3
                 \/ /\ rows'[i].assets = rows[i].assets /\ rows'[i].plan = rows[i].plan
                    /\ \/ rows'[i].revalidation = rows[i].revalidation
                       \/ UnderApproval(i) => i \in overtaken'
            BY <2>6, <2>9
        <3> QED
            BY <2>0, <2>1, <2>3, <2>9, <3>1, WriteKeepsSight
    <2>11. ASSUME i \notin late', rows'[i].state[2] >= 4
           PROVE  /\ reviewed'[i][1] = rows'[i].assets /\ reviewed'[i][2] = rows'[i].plan
                  /\ i \notin overtaken' => reviewed'[i][3] = rows'[i].revalidation
        <3>1. /\ rows'[i].assets = rows[i].assets /\ rows'[i].plan = rows[i].plan /\ i \notin late
              /\ rows'[i].revalidation = rows[i].revalidation
            BY <2>1, <2>3, <2>6, <2>9, <2>11
        <3>2. CASE call[c].op = "approve"
            <4>1. /\ call[c].assets = rows[i].assets /\ call[c].plan = rows[i].plan
                  /\ i \notin overtaken => call[c].revalidation = rows[i].revalidation
                BY <2>1, <3>1, <3>2 DEF CoverInv, SeesRow, Moving
            <4>2. reviewed'[i] = <<call[c].assets, call[c].plan, call[c].revalidation>>
                BY <2>1, <2>2, <3>2 DEF TypeInv, TypeOK
            <4> QED
                BY <2>0, <3>1, <4>1, <4>2
        <3>3. CASE call[c].op # "approve"
            <4>1. rows[i].state[2] >= 4
                BY <2>1, <2>5, <2>6, <2>9, <2>11, <3>3
            <4>2. /\ reviewed[i][1] = rows[i].assets /\ reviewed[i][2] = rows[i].plan
                  /\ i \notin overtaken => reviewed[i][3] = rows[i].revalidation
                BY <2>1, <3>1, <4>1 DEF CoverInv, ApprovalCoversDraft
            <4> QED
                BY <2>0, <2>2, <3>1, <3>3, <4>2
        <3> QED
            BY <3>2, <3>3
    <2>12. ASSUME NEW k \in Ids \ {i}
           PROVE  rows'[k] = rows[k] /\ reviewed'[k] = reviewed[k]
        BY <2>1, <2>2, <2>12 DEF Writes, TypeInv, TypeOK
    <2>13. ApprovalCoversDraft'
        BY <2>0, <2>3, <2>11, <2>12 DEF CoverInv, ApprovalCoversDraft
    <2> QED
        BY <2>10, <2>13 DEF CoverInv
<1> QED
    BY <1>1, <1>2, <1>3, <1>4, <1>5, <1>6, <1>7, StepKinds

\* The draft of an action at level L4 or L5 is the one its approving call
\* looked at, unless the action was written by a handler that had read another
\* state of it (transitionAction, updateDraftAssets); so is the revalidation in
\* its plan, unless one was written between the call's two reads.
THEOREM ApprovalsCoverDrafts == Spec => []ApprovalCoversDraft
<1>1. Init => CoverInv
    <2> SUFFICES ASSUME Init PROVE CoverInv
        OBVIOUS
    <2>1. PICK start \in Starts : rows = start.rows
        BY DEF Init
    <2>2. \A i \in Ids : rows[i].state[2] <= 3
        BY <2>1, ConstantsAssumption
    <2>3. \A i \in Ids : rows[i].state[2] \in 0..5
        <3>1. \A i \in Ids : rows[i].state \in States \cup {Absent}
            BY InitTypes DEF TypeInv, TypeOK, Row
        <3>2. Absent[2] = 0
            BY DEF Absent
        <3> QED
            BY <3>1, <3>2, StateFacts
    <2> QED
        BY <2>2, <2>3 DEF Init, CoverInv, ApprovalCoversDraft, SeesRow, Moving
<1>2. TypeInv /\ CoverInv /\ [Next]_vars => CoverInv'
    BY KeepsCover DEF vars, handlers, history, CoverInv, ApprovalCoversDraft, SeesRow
<1> QED
    BY <1>1, <1>2, TypesHold, PTL DEF Spec, CoverInv

-------------------------------------------------------------------------------
\* The last rejection, while nothing was written late.

\* A row that answers the question of the search for a rejected action.
IsLastRejection(i) ==
    /\ rows[i].state = Rejected
    /\ rows[i].evidence = lastRejected
    /\ \A k \in Ids \ {i} : rows[k].state = Rejected => <<i, k>> \in newer

RejectInv ==
    late = {} =>
        /\ ~forgotten
        /\ lastRejected # None => \E i \in Ids : IsLastRejection(i)

\* One state only has the status rejected.
LEMMA RejectedState ==
    ASSUME TypeInv, NEW i \in Ids
    PROVE  rows[i].state[1] = "rejected" <=> rows[i].state = Rejected
<1>1. rows[i].state \in States \cup {Absent}
    BY DEF TypeInv, TypeOK, Row
<1>2. Absent[1] # "rejected" /\ Rejected[1] = "rejected"
    BY DEF Absent, Rejected
<1> QED
    BY <1>1, <1>2, StateFacts

\* The last rejection is what the search finds.
LEMMA LastIsLatest ==
    ASSUME TypeInv, NEW i \in Ids, IsLastRejection(i)
    PROVE  i \in LatestRejected
BY RejectedState DEF IsLastRejection, LatestRejected

\* A write in time of a row that was not rejected and is not now leaves the
\* last rejection where it is.
LEMMA WriteKeepsRejection ==
    ASSUME TypeInv, RejectInv, NEW c \in Calls, NEW i \in Ids, Writes(c, i),
           late' = {} => late = {} /\ rows[i].state # Rejected /\ rows'[i].state # Rejected,
           lastRejected' = lastRejected
    PROVE  RejectInv'
<1>1. SUFFICES ASSUME late' = {} PROVE ~forgotten' /\ (lastRejected # None => \E k \in Ids : IsLastRejection(k)')
    BY DEF RejectInv, IsLastRejection
<1>2. ~forgotten'
    BY <1>1 DEF RejectInv, Writes
<1>3. ASSUME NEW k \in Ids, IsLastRejection(k)
      PROVE  IsLastRejection(k)'
    <2>1. k # i
        BY <1>1, <1>3 DEF IsLastRejection
    <2>2. rows'[k] = rows[k] /\ \A l \in Ids \ {i} : rows'[l] = rows[l]
        BY <2>1 DEF Writes
    <2>3. ASSUME NEW l \in Ids \ {k}, rows'[l].state = Rejected
          PROVE  <<k, l>> \in newer'
        <3>1. l # i /\ <<k, l>> \in newer
            BY <1>1, <1>3, <2>2, <2>3 DEF IsLastRejection
        <3>2. <<k, l>>[2] = l
            OBVIOUS
        <3> QED
            BY <3>1, <3>2 DEF Writes, Touch
    <2> QED
        BY <1>3, <2>2, <2>3 DEF IsLastRejection
<1> QED
    BY <1>1, <1>2, <1>3 DEF RejectInv

\* Every step keeps the last rejection.
LEMMA KeepsRejection ==
    ASSUME TypeInv, RejectInv, Next
    PROVE  RejectInv'
<1>1. CASE SetPreference
    BY <1>1 DEF SetPreference, handlers, RejectInv, IsLastRejection
<1>2. ASSUME NEW c \in Calls, Reads(c)
      PROVE  RejectInv'
    BY <1>2, ReadEffect DEF RejectInv, IsLastRejection
<1>3. ASSUME NEW c \in Calls, FindRejected(c)
      PROVE  RejectInv'
    <2>1. UNCHANGED <<rows, newer, late, lastRejected>> /\ pc[c] = "find_rejected"
        BY <1>3 DEF FindRejected
    <2>2. call[c].evidence # None
        BY <2>1, ConstantsAssumption DEF TypeInv, Asked, CreateSteps
    <2>3. ASSUME late = {}
          PROVE  ~forgotten'
        <3>1. CASE \E i \in LatestRejected : rows[i].evidence = call[c].evidence
            BY <1>3, <2>3, <3>1 DEF FindRejected, RejectInv
        <3>2. CASE ~\E i \in LatestRejected : rows[i].evidence = call[c].evidence
            <4>1. call[c].evidence # lastRejected
                BY <2>2, <2>3, <3>2, LastIsLatest DEF RejectInv, IsLastRejection
            <4> QED
                BY <1>3, <2>3, <3>2, <4>1 DEF FindRejected, RejectInv
        <3> QED
            BY <3>1, <3>2
    <2> QED
        BY <2>1, <2>3 DEF RejectInv, IsLastRejection
<1>4. ASSUME NEW c \in Calls, WriteDraft(c)
      PROVE  RejectInv'
    <2> PICK i : i = call[c].id
        OBVIOUS
    <2>1. /\ i \in Ids /\ Writes(c, i) /\ NoteLate(i, Draft)
          /\ rows'[i].state = rows[i].state /\ lastRejected' = lastRejected
        BY <1>4, WriteDraftEffect
    <2>2. Draft # Rejected
        BY DEF Draft, Rejected
    <2>3. late' = {} => late = {} /\ rows[i].state = Draft
        BY <2>1 DEF NoteLate
    <2> QED
        BY <2>1, <2>2, <2>3, WriteKeepsRejection
<1>5. ASSUME NEW c \in Calls, Relink(c)
      PROVE  RejectInv'
    <2> PICK i : i = call[c].id
        OBVIOUS
    <2>1. /\ i \in Ids /\ Writes(c, i) /\ NoteLate(i, call[c].from) /\ IsActive(call[c].from)
          /\ rows'[i].state = rows[i].state /\ lastRejected' = lastRejected
        BY <1>5, RelinkEffect
    <2>2. ~IsActive(Rejected)
        BY DEF IsActive, ACTIVE_DEDUPE_STATUSES, Rejected
    <2>3. late' = {} => late = {} /\ rows[i].state = call[c].from
        BY <2>1 DEF NoteLate
    <2>4. late' = {} => late = {} /\ rows[i].state # Rejected /\ rows'[i].state # Rejected
        BY <2>1, <2>2, <2>3
    <2> QED
        BY <2>1, <2>4, WriteKeepsRejection
<1>6. ASSUME NEW c \in Calls, InsertAction(c)
      PROVE  RejectInv'
    <2>1. PICK i \in Ids : /\ Writes(c, i) /\ late' = late /\ lastRejected' = lastRejected
                           /\ rows[i].state = Absent /\ rows'[i].state = Recommended
        BY <1>6, InsertActionEffect
    <2>2. Absent # Rejected /\ Recommended # Rejected
        BY DEF Absent, Recommended, Rejected
    <2> QED
        BY <2>1, <2>2, WriteKeepsRejection
<1>7. ASSUME NEW c \in Calls, Update(c)
      PROVE  RejectInv'
    <2> PICK i : i = call[c].id
        OBVIOUS
    <2>1. /\ pc[c] = "update" /\ i \in Ids /\ Writes(c, i)
          /\ rows'[i].state = call[c].to /\ rows'[i].evidence = rows[i].evidence
          /\ isValidTransition(call[c].from, call[c].to) /\ NoteLate(i, call[c].from)
          /\ lastRejected' = IF call[c].op = "reject" THEN rows[i].evidence ELSE lastRejected
        BY <1>7, UpdateEffect
    <2>2. call[c].to = Rejected <=> call[c].op = "reject"
        BY <2>1 DEF TypeInv, Asked, Moving
    <2>3. late' = {} => late = {} /\ rows[i].state = call[c].from
        BY <2>1 DEF NoteLate
    <2>4. CASE call[c].op = "reject"
        <3>1. IsLastRejection(i)'
            <4>1. \A k \in Ids \ {i} : <<i, k>> \in newer'
                BY <2>1 DEF Writes, Touch
            <4> QED
                BY <2>1, <2>2, <2>4, <4>1 DEF IsLastRejection
        <3>2. late' = {} => ~forgotten'
            BY <2>1, <2>3 DEF RejectInv, Writes
        <3> QED
            BY <2>1, <3>1, <3>2 DEF RejectInv
    <2>5. CASE call[c].op # "reject"
        <3>1. call[c].from # Rejected
            <4>1. Rejected[1] = "rejected"
                BY DEF Rejected
            <4> QED
                BY <2>1, <4>1, LevelsRise
        <3>2. late' = {} => late = {} /\ rows[i].state # Rejected /\ rows'[i].state # Rejected
            BY <2>1, <2>2, <2>3, <2>5, <3>1
        <3> QED
            BY <2>1, <2>5, <3>2, WriteKeepsRejection
    <2> QED
        BY <2>4, <2>5
<1> QED
    BY <1>1, <1>2, <1>3, <1>4, <1>5, <1>6, <1>7, StepKinds

\* The search for a rejected action finds the last rejection, so that its
\* evidence lets no creation through, as long as no action was written late
\* (createActionFromRecommendation).
THEOREM RejectionsStick == Spec => []RejectionSticks
<1>1. Init => RejectInv
    <2> SUFFICES ASSUME Init PROVE RejectInv
        OBVIOUS
    <2>1. PICK start \in Starts :
              rows = start.rows /\ newer = start.newer /\ lastRejected = start.lastRejected
        BY DEF Init
    <2>2. lastRejected # None => \E i \in Ids : IsLastRejection(i)
        BY <2>1, ConstantsAssumption DEF IsLastRejection
    <2> QED
        BY <2>2 DEF Init, RejectInv
<1>2. TypeInv /\ RejectInv /\ [Next]_vars => RejectInv'
    BY KeepsRejection DEF vars, handlers, history, RejectInv, IsLastRejection
<1>3. RejectInv => RejectionSticks
    BY DEF RejectInv, RejectionSticks
<1> QED
    BY <1>1, <1>2, <1>3, TypesHold, PTL DEF Spec

-------------------------------------------------------------------------------
\* While suppressed, every creation under way was so at the time.
SuppressInv ==
    preference = "suppressed" => \A c \in Calls : pc[c] \in CreateSteps => c \in racing

\* A write ends its handler and begins no creation.
LEMMA WriteKeepsSuppression ==
    ASSUME TypeInv, SuppressInv, NEW c \in Calls, NEW i, Writes(c, i)
    PROVE  SuppressInv'
BY DEF SuppressInv, Writes, CreateSteps

\* Every step keeps the suppression.
LEMMA KeepsSuppression ==
    ASSUME TypeInv, SuppressInv, Next
    PROVE  SuppressInv'
<1>1. CASE SetPreference
    BY <1>1 DEF SetPreference, handlers, SuppressInv
<1>2. ASSUME NEW c \in Calls, Reads(c)
      PROVE  SuppressInv'
    <2>1. /\ preference' = preference /\ racing' = racing /\ HasRead(c)
          /\ \A d \in Calls \ {c} : pc'[d] = pc[d]
        BY <1>2, ReadEffect
    <2>2. preference = "suppressed" /\ pc'[c] \in CreateSteps => pc[c] \in CreateSteps
        BY <2>1 DEF HasRead, CreateSteps
    <2> QED
        BY <2>1, <2>2 DEF SuppressInv
<1>3. ASSUME NEW c \in Calls, FindRejected(c)
      PROVE  SuppressInv'
    BY <1>3, FindRejectedEffect DEF SuppressInv, CreateSteps
<1>4. ASSUME NEW c \in Calls, WriteDraft(c) \/ Relink(c) \/ InsertAction(c) \/ Update(c)
      PROVE  SuppressInv'
    <2>1. \E i : Writes(c, i)
        BY <1>4, WriteDraftEffect, RelinkEffect, InsertActionEffect, UpdateEffect
    <2> QED
        BY <2>1, WriteKeepsSuppression
<1> QED
    BY <1>1, <1>2, <1>3, <1>4, StepKinds

\* Only two statements give an action other evidence.
LEMMA EvidenceChanges ==
    ASSUME TypeInv, Next, NEW k \in Ids, rows'[k].evidence # rows[k].evidence
    PROVE  \E c \in Calls : pc[c] \in CreateSteps /\ pc'[c] = "idle"
<1>1. ASSUME NEW c \in Calls, Update(c) \/ WriteDraft(c)
      PROVE  rows'[k].evidence = rows[k].evidence
    BY <1>1, UpdateEffect, WriteDraftEffect DEF Writes
<1>2. ASSUME NEW c \in Calls, Relink(c) \/ InsertAction(c)
      PROVE  pc[c] \in CreateSteps /\ pc'[c] = "idle"
    BY <1>2, RelinkEffect, InsertActionEffect DEF Writes, CreateSteps
<1>3. ASSUME NEW c \in Calls, Reads(c) \/ FindRejected(c)
      PROVE  rows' = rows
    BY <1>3, ReadEffect, FindRejectedEffect
<1>4. SetPreference => rows' = rows
    BY DEF SetPreference
<1> QED
    BY <1>1, <1>2, <1>3, <1>4, StepKinds

\* Who suppresses a recommendation gets no action from it but by a creation
\* that was under way at the time (createActionFromRecommendation).
THEOREM SuppressionHolds == Spec => SuppressionSticks
<1>1. Init => SuppressInv
    BY DEF Init, SuppressInv
<1>2. TypeInv /\ SuppressInv /\ [Next]_vars => SuppressInv'
    BY KeepsSuppression DEF vars, handlers, history, SuppressInv
<1>3. TypeInv /\ SuppressInv /\ [Next]_vars =>
          [preference = "suppressed" /\ (\E i \in Ids : rows'[i].evidence # rows[i].evidence)
              => \E c \in racing : pc[c] \in CreateSteps /\ pc'[c] = "idle"]_vars
    <2> SUFFICES ASSUME TypeInv, SuppressInv, Next, preference = "suppressed",
                        NEW i \in Ids, rows'[i].evidence # rows[i].evidence
                 PROVE  \E c \in racing : pc[c] \in CreateSteps /\ pc'[c] = "idle"
        OBVIOUS
    <2>1. PICK c \in Calls : pc[c] \in CreateSteps /\ pc'[c] = "idle"
        BY EvidenceChanges
    <2> QED
        BY <2>1 DEF SuppressInv
<1> QED
    BY <1>1, <1>2, <1>3, TypesHold, PTL DEF Spec, SuppressionSticks

-------------------------------------------------------------------------------
\* The life cycle a reader may rely on.
OneActive == \A i, k \in Ids : IsActive(rows[i].state) /\ IsActive(rows[k].state) => i = k

\* The unique index keeps one action active.
LEMMA KeepsOneActive ==
    ASSUME TypeInv, OneActive, Next
    PROVE  OneActive'
<1>1. ASSUME NEW c \in Calls, NEW i \in Ids, Writes(c, i),
             IsActive(rows'[i].state) => IsActive(rows[i].state) \/ ~Duplicates(i, rows'[i].state)
      PROVE  OneActive'
    <2>1. \A k \in Ids \ {i} : rows'[k] = rows[k]
        BY <1>1 DEF Writes
    <2>2. IsActive(rows'[i].state) => \A k \in Ids \ {i} : ~IsActive(rows[k].state)
        BY <1>1 DEF OneActive, Duplicates
    <2> QED
        BY <2>1, <2>2 DEF OneActive
<1>2. ASSUME NEW c \in Calls, Update(c)
      PROVE  OneActive'
    BY <1>1, <1>2, UpdateEffect
<1>3. ASSUME NEW c \in Calls, WriteDraft(c) \/ Relink(c)
      PROVE  OneActive'
    BY <1>1, <1>3, WriteDraftEffect, RelinkEffect
<1>4. ASSUME NEW c \in Calls, InsertAction(c)
      PROVE  OneActive'
    BY <1>1, <1>4, InsertActionEffect
<1>5. ASSUME rows' = rows
      PROVE  OneActive'
    BY <1>5 DEF OneActive
<1>6. ASSUME NEW c \in Calls, Reads(c) \/ FindRejected(c)
      PROVE  rows' = rows
    BY <1>6, ReadEffect, FindRejectedEffect
<1>7. SetPreference => rows' = rows
    BY DEF SetPreference
<1> QED
    BY <1>2, <1>3, <1>4, <1>5, <1>6, <1>7, StepKinds

\* The table of the life cycle is the table of the program.
LEMMA LifecycleTable ==
    /\ Lifecycle!States = States
    /\ Lifecycle!Absent = Absent /\ Lifecycle!Recommended = Recommended
    /\ \A from, to : Lifecycle!isValidTransition(from, to) <=> isValidTransition(from, to)
    /\ \A s : Lifecycle!IsActive(s) <=> IsActive(s)
BY DEF Lifecycle!States, States, Lifecycle!Absent, Absent, Lifecycle!isValidTransition, isValidTransition,
       Lifecycle!IsActive, IsActive, Lifecycle!ACTIVE_DEDUPE_STATUSES, ACTIVE_DEDUPE_STATUSES,
       Lifecycle!ValidTransitions, ValidTransitions, Lifecycle!At, At, Lifecycle!Results, Results,
       Lifecycle!Recommended, Recommended, Lifecycle!Draft, Draft, Lifecycle!Awaiting, Awaiting,
       Lifecycle!Approved, Approved, Lifecycle!Rejected, Rejected, Lifecycle!Snoozed, Snoozed,
       Lifecycle!Blocked, Blocked, Lifecycle!Measuring, Measuring

\* And so is its one active action.
LEMMA LifecycleActive == Lifecycle!OneActive <=> OneActive
BY LifecycleTable DEF Lifecycle!OneActive, OneActive

\* A write is a step of the life cycle: a creation, a move along the table or
\* the overwriting of a row that is late from then on.
LEMMA WriteImplements ==
    ASSUME TypeInv, OneActive', NEW c \in Calls, NEW r \in Ids, Writes(c, r),
           \/ rows[r].state = Absent /\ rows'[r].state = Recommended /\ late' = late
           \/ isValidTransition(rows[r].state, rows'[r].state) /\ late' = late
           \/ rows'[r].state = rows[r].state /\ late' = late
           \/ rows[r].state # Absent /\ rows'[r].state \in States /\ late' = late \cup {r}
    PROVE  [Lifecycle!Next]_<<[i \in Ids |-> rows[i].state], late>>
<1> DEFINE before == [k \in Ids |-> rows[k].state]
           after == [k \in Ids |-> rows'[k].state]
<1>1. after = [before EXCEPT ![r] = rows'[r].state] /\ before[r] = rows[r].state
    BY DEF Writes
<1>2. Lifecycle!OneActive'
    BY LifecycleTable DEF Lifecycle!OneActive, OneActive
<1>3. CASE rows[r].state = Absent /\ rows'[r].state = Recommended /\ late' = late
    <2>1. Lifecycle!Create(r)
        BY <1>1, <1>3, LifecycleTable DEF Lifecycle!Create
    <2> QED
        BY <1>2, <2>1 DEF Lifecycle!Next
<1>4. CASE isValidTransition(rows[r].state, rows'[r].state) /\ late' = late
    <2>1. rows'[r].state \in States
        BY <1>4, TargetIsState
    <2>2. Lifecycle!Move(r)
        BY <1>1, <1>4, <2>1, LifecycleTable DEF Lifecycle!Move
    <2> QED
        BY <1>2, <2>2 DEF Lifecycle!Next
<1>5. CASE rows'[r].state = rows[r].state /\ late' = late
    <2>1. after = before
        BY <1>5 DEF Writes
    <2> QED
        BY <1>5, <2>1
<1>6. CASE rows[r].state # Absent /\ rows'[r].state \in States /\ late' = late \cup {r}
    <2>1. Lifecycle!Overwrite(r)
        BY <1>1, <1>6, LifecycleTable DEF Lifecycle!Overwrite
    <2> QED
        BY <1>2, <2>1 DEF Lifecycle!Next
<1> QED
    BY <1>3, <1>4, <1>5, <1>6

\* Every step is one of the life cycle, or none.
LEMMA StepImplements ==
    ASSUME TypeInv, OneActive', Next
    PROVE  [Lifecycle!Next]_<<[i \in Ids |-> rows[i].state], late>>
<1>1. ASSUME rows' = rows, late' = late
      PROVE  [Lifecycle!Next]_<<[i \in Ids |-> rows[i].state], late>>
    BY <1>1
<1>2. SetPreference => rows' = rows /\ late' = late
    BY DEF SetPreference
<1>3. ASSUME NEW c \in Calls, Reads(c) \/ FindRejected(c)
      PROVE  rows' = rows /\ late' = late
    BY <1>3, ReadEffect, FindRejectedEffect
<1>4. ASSUME NEW i \in Ids
      PROVE  rows[i].state # Absent => rows[i].state \in States
    BY DEF TypeInv, TypeOK, Row
<1>5. ASSUME NEW c \in Calls, Update(c)
      PROVE  [Lifecycle!Next]_<<[i \in Ids |-> rows[i].state], late>>
    <2> PICK i : i = call[c].id
        OBVIOUS
    <2>1. /\ i \in Ids /\ Writes(c, i) /\ rows'[i].state = call[c].to
          /\ isValidTransition(call[c].from, call[c].to) /\ NoteLate(i, call[c].from)
        BY <1>5, UpdateEffect
    <2>2. rows[i].state # Absent /\ call[c].to \in States
        BY <1>5, UpdateFacts
    <2> QED
        BY <2>1, <2>2, WriteImplements DEF NoteLate
<1>6. ASSUME NEW c \in Calls, WriteDraft(c) \/ Relink(c)
      PROVE  [Lifecycle!Next]_<<[i \in Ids |-> rows[i].state], late>>
    <2> PICK i : i = call[c].id
        OBVIOUS
    <2>1. /\ i \in Ids /\ Writes(c, i) /\ rows'[i].state = rows[i].state
          /\ rows[i].state # Absent /\ NoteLate(i, call[c].from)
        BY <1>6, WriteDraftEffect, RelinkEffect
    <2> QED
        BY <1>4, <2>1, WriteImplements DEF NoteLate
<1>7. ASSUME NEW c \in Calls, InsertAction(c)
      PROVE  [Lifecycle!Next]_<<[i \in Ids |-> rows[i].state], late>>
    BY <1>7, InsertActionEffect, WriteImplements
<1> QED
    BY <1>1, <1>2, <1>3, <1>5, <1>6, <1>7, StepKinds

\* The routes implement the life cycle: one active action per recommendation,
\* states that move along the table, and overwritten actions that are known.
THEOREM ImplementsLifecycle == Spec => FollowsLifecycle
<1>1. Init => OneActive /\ Lifecycle!Init
    <2> SUFFICES ASSUME Init PROVE OneActive /\ Lifecycle!Init
        OBVIOUS
    <2>1. PICK start \in Starts : rows = start.rows
        BY DEF Init
    <2>2. OneActive
        BY <2>1, ConstantsAssumption DEF OneActive
    <2>3. \A i \in Ids : rows[i].state \in States \cup {Absent}
        BY InitTypes DEF TypeInv, TypeOK, Row
    <2> QED
        BY <2>2, <2>3, LifecycleTable, LifecycleActive DEF Init, Lifecycle!Init
<1>2. TypeInv /\ OneActive /\ [Next]_vars => OneActive'
    BY KeepsOneActive DEF vars, OneActive
<1>3. TypeInv /\ OneActive' /\ [Next]_vars =>
          [Lifecycle!Next]_<<[i \in Ids |-> rows[i].state], late>>
    <2>1. UNCHANGED vars => UNCHANGED <<[i \in Ids |-> rows[i].state], late>>
        BY DEF vars, history
    <2> QED
        BY <2>1, StepImplements
<1>4. Spec => []OneActive
    BY <1>1, <1>2, TypesHold, PTL DEF Spec
<1>5. Spec => Lifecycle!Init
    BY <1>1, PTL DEF Spec
<1>6. Spec => [][Lifecycle!Next]_<<[i \in Ids |-> rows[i].state], late>>
    BY <1>3, <1>4, TypesHold, PTL DEF Spec
<1> QED
    BY <1>5, <1>6, PTL DEF FollowsLifecycle, Lifecycle!Spec

-------------------------------------------------------------------------------
\* Late writes come from handlers that meet on a row, and from nothing else.

\* Two handlers never have the same action in hand.  Handlers of different
\* actions, and creations that have found none, meet as they like.
Apart ==
    \A c, d \in Calls :
        /\ pc[c] # "idle" /\ pc[d] # "idle"
        /\ call[c].id = call[d].id /\ call[c].id # None
        => c = d

FromSteps == {"update", "write_draft", "find_rejected", "relink"}

\* What a handler read of its action is what the action shows.
ReadIsRow(c) ==
    pc[c] \in FromSteps /\ call[c].id # None => call[c].from = rows[call[c].id].state

FreshInv == late = {} /\ overtaken = {} /\ \A c \in Calls : ReadIsRow(c)

\* A read that leads to a write has read the row as it is.
LEMMA ReadsFresh ==
    ASSUME TypeInv, NEW c \in Calls, Reads(c) \/ FindRejected(c), ReadIsRow(c)
    PROVE  pc'[c] \in FromSteps /\ call'[c].id # None => call'[c].from = rows[call'[c].id].state
<1> USE DEF FromSteps
<1>0. call \in [Calls -> Request] /\ Asked(c)
    BY DEF TypeInv, TypeOK
<1>1. ASSUME NEW step, NEW request, Goto(c, step, request)
      PROVE  pc'[c] = step /\ call'[c] = request
    BY <1>1, OneHandler
<1>2. ASSUME NEW request \in Request, Decide(c, request)
      PROVE  call'[c].from = rows[call'[c].id].state
    <2>1. call'[c] = [request EXCEPT !.from = rows[request.id].state]
        BY <1>1, <1>2 DEF Decide
    <2> QED
        BY <2>1 DEF Request
<1>3. CASE BeginTransition(c)
    <2>1. PICK i \in {k \in Ids : Exists(k)}, op \in DOMAIN Targets :
              \E to \in Targets[op] : \E draft \in IF op = "prepare" THEN Drafts ELSE {None} :
                 Decide(c, [Idle EXCEPT !.op = op, !.id = i, !.to = to, !.assets = draft, !.plan = draft])
        BY <1>3 DEF BeginTransition
    <2>2. PICK to \in Targets[op], draft \in IF op = "prepare" THEN Drafts ELSE {None} :
              Decide(c, [Idle EXCEPT !.op = op, !.id = i, !.to = to, !.assets = draft, !.plan = draft])
        BY <2>1
    <2>3. [Idle EXCEPT !.op = op, !.id = i, !.to = to, !.assets = draft, !.plan = draft] \in Request
        BY TargetsAre DEF Idle, Request
    <2> QED
        BY <1>2, <2>2, <2>3
<1>4. CASE BeginApprove(c) \/ BeginExpire(c) \/ BeginRevalidate(c)
    <2>1. \E request : Goto(c, "transition", request)
        <3>1. CASE BeginApprove(c)
            BY <3>1 DEF BeginApprove, Ask
        <3>2. CASE BeginExpire(c)
            BY <3>2 DEF BeginExpire, Ask
        <3>3. CASE BeginRevalidate(c)
            BY <3>3 DEF BeginRevalidate, Ask
        <3> QED
            BY <1>4, <3>1, <3>2, <3>3
    <2> QED
        BY <1>1, <2>1
<1>5. CASE Transition(c)
    BY <1>0, <1>1, <1>2, <1>5 DEF Transition, End
<1>6. CASE BeginEdit(c) \/ BeginCreate(c) \/ Fail(c)
    <2>1. \E step \in {"check_draft", "find_active", "idle"} : \E request : Goto(c, step, request)
        <3>1. CASE BeginEdit(c)
            BY <3>1 DEF BeginEdit
        <3>2. CASE BeginCreate(c)
            BY <3>2 DEF BeginCreate
        <3>3. CASE Fail(c)
            BY <3>3 DEF Fail, End
        <3> QED
            BY <1>6, <3>1, <3>2, <3>3
    <2> QED
        BY <1>1, <2>1
<1>7. CASE CheckDraft(c)
    <2>1. \/ pc'[c] = "idle"
          \/ call'[c] = [call[c] EXCEPT !.from = rows[call[c].id].state]
        BY <1>1, <1>7 DEF CheckDraft, End
    <2> QED
        BY <1>0, <2>1 DEF Request
<1>8. CASE FindActive(c)
    <2>1. \/ \E i \in Ids : call'[c] = [call[c] EXCEPT !.id = i, !.from = rows[i].state]
          \/ call'[c] = call[c] /\ pc[c] = "find_active"
        BY <1>1, <1>8 DEF FindActive
    <2>2. ASSUME NEW i \in Ids, call'[c] = [call[c] EXCEPT !.id = i, !.from = rows[i].state]
          PROVE  call'[c].id = i /\ call'[c].from = rows[i].state
        BY <1>0, <2>2 DEF Request
    <2> QED
        BY <1>0, <2>1, <2>2 DEF Asked
<1>9. CASE FindRejected(c)
    <2>1. \/ End(c)
          \/ Goto(c, IF call[c].id = None THEN "insert_action" ELSE "relink", call[c])
        BY <1>9 DEF FindRejected
    <2>2. pc[c] = "find_rejected" /\ (pc'[c] = "idle" \/ call'[c] = call[c])
        BY <1>1, <1>9, <2>1 DEF FindRejected, End
    <2>3. UNCHANGED rows
        BY <1>9 DEF FindRejected
    <2> QED
        BY <2>2, <2>3 DEF ReadIsRow
<1> QED
    BY <1>3, <1>4, <1>5, <1>6, <1>7, <1>8, <1>9 DEF Reads

\* A write by the only handler of its row is not late, and nobody has read it.
LEMMA WritesFresh ==
    ASSUME TypeInv, Apart, FreshInv, NEW c \in Calls, NEW i \in Ids, Writes(c, i),
           \/ late' = late /\ rows[i].state = Absent
           \/ pc[c] \in FromSteps /\ call[c].id = i /\ NoteLate(i, call[c].from),
           overtaken' = {}
    PROVE  FreshInv'
<1>0. i # None /\ \A d \in Calls : Asked(d)
    BY ConstantsAssumption DEF TypeInv
<1>1. late' = {}
    BY <1>0 DEF FreshInv, ReadIsRow, NoteLate
<1>2. ASSUME NEW d \in Calls, pc'[d] \in FromSteps, call'[d].id # None
      PROVE  call'[d].from = rows'[call'[d].id].state
    <2>1. d # c /\ pc'[d] = pc[d] /\ call'[d] = call[d]
        BY <1>2 DEF Writes, FromSteps
    <2>2. call[d].id \in Ids /\ rows[call[d].id].state # Absent
        BY <1>0, <1>2, <2>1 DEF Asked, FromSteps
    <2>3. call[d].id # i
        BY <1>0, <1>2, <2>1, <2>2 DEF Apart, FromSteps
    <2> QED
        BY <1>2, <2>1, <2>2, <2>3 DEF Writes, FreshInv, ReadIsRow
<1> QED
    BY <1>1, <1>2 DEF FreshInv, ReadIsRow

\* Every step but a meeting keeps the rows fresh.
LEMMA KeepsFresh == TypeInv /\ Apart /\ FreshInv /\ [Next]_vars => FreshInv'
<1> SUFFICES ASSUME TypeInv, Apart, FreshInv, [Next]_vars PROVE FreshInv'
    OBVIOUS
<1>1. CASE UNCHANGED vars
    BY <1>1 DEF vars, handlers, history, FreshInv, ReadIsRow
<1>2. CASE SetPreference
    BY <1>2 DEF SetPreference, handlers, FreshInv, ReadIsRow
<1>3. ASSUME NEW c \in Calls, Reads(c) \/ FindRejected(c) PROVE FreshInv'
    <2>1. /\ rows' = rows /\ late' = late /\ overtaken' = overtaken
          /\ \A d \in Calls \ {c} : pc'[d] = pc[d] /\ call'[d] = call[d]
        BY <1>3, ReadEffect, FindRejectedEffect
    <2>2. ReadIsRow(c)'
        BY <1>3, <2>1, ReadsFresh DEF FreshInv, ReadIsRow
    <2> QED
        BY <2>1, <2>2 DEF FreshInv, ReadIsRow
<1>4. ASSUME NEW c \in Calls, Update(c) \/ WriteDraft(c) \/ Relink(c) PROVE FreshInv'
    <2> PICK i : i = call[c].id
        OBVIOUS
    <2>1. i \in Ids /\ Writes(c, i) /\ pc[c] \in FromSteps /\ NoteLate(i, call[c].from)
        BY <1>4, UpdateEffect, WriteDraftEffect, RelinkEffect DEF FromSteps
    <2>2. CASE Update(c)
        <3>1. /\ pc[c] = "update" /\ NoteOvertaken(i, call[c].op)
            BY <2>2, UpdateEffect
        <3>2. call[c].op = "revalidate" => ~UnderApproval(i)
            <4>1. i # None
                BY <2>1, ConstantsAssumption
            <4> QED
                BY <3>1, <4>1 DEF UnderApproval, Apart
        <3> QED
            BY <2>1, <3>1, <3>2, WritesFresh DEF NoteOvertaken, FreshInv
    <2>3. CASE WriteDraft(c) \/ Relink(c)
        <3>1. overtaken' = overtaken
            BY <2>3, WriteDraftEffect, RelinkEffect
        <3> QED
            BY <2>1, <3>1, WritesFresh DEF FreshInv
    <2> QED
        BY <1>4, <2>2, <2>3
<1>5. ASSUME NEW c \in Calls, InsertAction(c) PROVE FreshInv'
    BY <1>5, InsertActionEffect, WritesFresh DEF FreshInv
<1> QED
    BY <1>1, <1>2, <1>3, <1>4, <1>5, StepKinds

LEMMA StaysFresh == Spec /\ []Apart => []FreshInv
<1>1. Init => FreshInv
    BY DEF Init, FreshInv, ReadIsRow, FromSteps
<1> QED
    BY <1>1, KeepsFresh, TypesHold, PTL DEF Spec

\* No action is ever excepted from ApprovalCoversDraft, and no rejection is
\* forgotten, while handlers keep off each other's actions: both exceptions
\* are due to two handlers with one action in hand, neither to a failing
\* statement nor to handlers of other actions of the recommendation.
THEOREM ApartApprovalsCoverDrafts ==
    Spec /\ []Apart =>
        [](/\ ~forgotten
           /\ \A i \in Ids : rows[i].state[2] >= 4 =>
                 reviewed[i] = <<rows[i].assets, rows[i].plan, rows[i].revalidation>>)
<1>1. TypeInv /\ FreshInv /\ ApprovalCoversDraft /\ RejectionSticks =>
          /\ ~forgotten
          /\ \A i \in Ids : rows[i].state[2] >= 4 =>
                reviewed[i] = <<rows[i].assets, rows[i].plan, rows[i].revalidation>>
    <2> SUFFICES ASSUME TypeInv, FreshInv, ApprovalCoversDraft, RejectionSticks, NEW i \in Ids
                 PROVE  /\ ~forgotten
                        /\ rows[i].state[2] >= 4 =>
                              reviewed[i] = <<rows[i].assets, rows[i].plan, rows[i].revalidation>>
        BY DEF FreshInv, RejectionSticks
    <2>1. reviewed[i] = <<reviewed[i][1], reviewed[i][2], reviewed[i][3]>>
        BY DEF TypeInv, TypeOK
    <2> QED
        BY <2>1 DEF FreshInv, ApprovalCoversDraft, RejectionSticks
<1> QED
    BY <1>1, TypesHold, StaysFresh, ApprovalsCoverDrafts, RejectionsStick, PTL

===============================================================================
