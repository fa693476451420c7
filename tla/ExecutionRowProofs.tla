-------------------------- MODULE ExecutionRowProofs ---------------------------
(***************************************************************************)
(* What TLAPS proves of the request row of ExecutionBoundary: the results  *)
(* it shows are the recorded ones, what was confirmed has a confirmation,  *)
(* and what is executed was prepared and belongs to the action as it is.   *)
(* All of it rests on two facts that are proved once: from which step a    *)
(* handler comes to which, and which columns a step writes.                *)
(***************************************************************************)
EXTENDS ExecutionPromiseProofs

-------------------------------------------------------------------------------
\* Control.

\* From each step to the next, unless the call ends there.
Moves(c, from, to) ==
    \/ from = "read_request" /\ to = "read_ledger"
    \/ from = "read_ledger" /\ to = "insert_ledger"
    \/ from = "insert_ledger" /\ ~ledger[LedgerKey(c)].present /\ to = AfterLedger[call[c].operation]
    \/ from = "dry_run" /\ to = "write_confirmation_required"
    \/ /\ from = "check_action" /\ call[c].operation = "execute" /\ to = "check_confirmation"
       /\ seen[c].state = "confirmed" /\ seen[c].actionHash = action.hash
    \/ from = "check_action" /\ call[c].operation # "execute" /\ to = "read_ledger"
    \/ from = "clear_confirmations" /\ to = "insert_confirmation"
    \/ from = "insert_confirmation" /\ to = "write_confirmed"
    \/ from \in {"check_confirmation", "write_rollback_requested"} /\ to = "acquire_lock"
    \/ from = "acquire_lock" /\ to = "inspect_lock"
    \/ from = "inspect_lock" /\ to = "recover_lock"
    \/ from \in {"acquire_lock", "recover_lock"} /\ to = AfterLock[call[c].operation]
    \/ from \in ExecuteLockedSteps /\ to \in ExecuteLockedSteps \ {"insert_attempt"}
    \/ from \in CancelLockedSteps /\ to \in CancelLockedSteps
    \/ from = "insert_rollback" /\ to = "invoke_rollback"
    \/ from = "invoke_rollback" /\ to = "update_rollback"
    \/ from = "update_rollback" /\ to = "write_rollback_result"
    \/ from = "write_rollback_result" /\ to = "complete_rollback"
    \/ from \in LockedSteps /\ to \in ReleaseSteps

LEMMA HandlerMoves ==
    ASSUME TypeInv, NEW c \in Calls, Step(c) \/ Abandon(c) \/ FailInsideTry(c)
    PROVE  /\ OtherHandlersStay(c)
           /\ pc[c] # "idle"
           /\ \/ pc'[c] = "idle" /\ call'[c] = NoCall /\ seen'[c] = NoRow
              \/ /\ Moves(c, pc[c], pc'[c])
                 /\ call'[c] = call[c]
                 /\ seen'[c] = IF pc[c] = "read_request" THEN requests[call[c].request] ELSE seen[c]
<1> DEFINE Ends == pc'[c] = "idle" /\ call'[c] = NoCall /\ seen'[c] = NoRow
           Goes == /\ Moves(c, pc[c], pc'[c])
                   /\ call'[c] = call[c]
                   /\ seen'[c] = IF pc[c] = "read_request" THEN requests[call[c].request] ELSE seen[c]
<1>0. HandlersOK
  BY DEF TypeInv, HandlersInv
<1>1. OtherHandlersStay(c)
  BY <1>0, StepFrame
<1>2. ASSUME End(c) PROVE Ends
  BY <1>0, <1>2 DEF End, HandlersOK
<1>3. ASSUME NEW step, Continue(c, step), Moves(c, pc[c], step), pc[c] # "read_request" PROVE Goes
  BY <1>0, <1>3, ContinueFrame
<1> HIDE DEF Ends, Goes
<1> SUFFICES pc[c] # "idle" /\ (Ends \/ Goes)
  BY <1>1 DEF Ends, Goes
<1>4. CASE LedgerStep(c)
  BY <1>2, <1>3, <1>4 DEF LedgerStep, ReplayOrConflict, MissLedger, InsertLedger, LoseLedgerRace, Moves
<1>5. CASE PreparationStep(c)
  BY <1>2, <1>3, <1>5 DEF PreparationStep, InsertRequest, BlockWithoutRollbackPlan, BlockByGate, WriteDryRun,
       WriteConfirmationRequired, CheckAction, ClearConfirmations, InsertConfirmation,
       DuplicateConfirmationThrows, WriteConfirmed, Moves
<1>6. CASE LockStep(c)
  <2>1. ReleaseLock(c) => pc[c] # "idle" /\ End(c)
    BY DEF ReleaseLock, ReleaseSteps
  <2> QED
    BY <1>2, <1>3, <1>6, <2>1 DEF LockStep, LockKeyConflict, InsertLock, MissLock, InspectLock, RecoverLock,
         RecoverNothing, EnterLock, Moves
<1>7. CASE ReadRequest(c)
  BY <1>0, <1>7 DEF ReadRequest, HandlersOK, Goto, Goes, Moves
<1>8. CASE ExecuteStep(c) /\ ~ReadRequest(c)
  BY <1>2, <1>3, <1>8 DEF ExecuteStep, CheckConfirmation, InsertAttempt, DuplicateAttemptThrows, WriteQueued,
       WriteStarted, InvokeExecute, UpdateAttempt, WriteResult, CompleteExecute, Moves,
       LockedSteps, ExecuteLockedSteps, ReleaseSteps
<1>9. CASE CancelStep(c)
  BY <1>3, <1>9 DEF CancelStep, WriteCancelRequested, RefuseCancel, InvokeCancel, WriteCancelled,
       CompleteCancel, Moves, LockedSteps, CancelLockedSteps, ReleaseSteps
<1>10. CASE RollbackStep(c)
  BY <1>3, <1>10 DEF RollbackStep, WriteRollbackRequested, InsertRollback, InvokeRollback, UpdateRollback,
       WriteRollbackResult, CompleteRollback, Moves, LockedSteps, RollbackLockedSteps, ReleaseSteps
<1>11. CASE Abandon(c)
  BY <1>2, <1>11 DEF Abandon
<1>12. CASE FailInsideTry(c)
  <2>1. pc[c] \in LockedSteps /\ Continue(c, "release_failed")
    BY <1>12 DEF FailInsideTry, LockedSteps, ExecuteLockedSteps, CancelLockedSteps, RollbackLockedSteps
  <2>2. Moves(c, pc[c], "release_failed") /\ pc[c] \notin {"idle", "read_request"}
    BY <2>1 DEF Moves, ReleaseSteps, LockedSteps, ExecuteLockedSteps, CancelLockedSteps, RollbackLockedSteps
  <2> QED
    BY <1>3, <2>1, <2>2
<1> QED
  BY <1>4, <1>5, <1>6, <1>7, <1>8, <1>9, <1>10, <1>11, <1>12 DEF Step

\* A handler reads its request at the start and never again.
LEMMA MovesAnywhere ==
    ASSUME TypeInv, NEW c \in Calls, pc[c] # "idle", NEW to, Moves(c, pc[c], to)
    PROVE  to \notin {"idle", "read_request"}
<1>1. /\ call[c].operation \in Operations
      /\ pc[c] \in {"acquire_lock", "recover_lock"} => call[c].operation \in LockedOperations
  BY StepSets DEF TypeInv, HandlersInv
<1> QED
  BY <1>1, OwnSets DEF Moves, AfterLedger, AfterLock, ReleaseSteps, Operations, LockedOperations

-------------------------------------------------------------------------------
\* Arrivals.

Arrived(c, op, key, r, row, step) ==
    /\ pc[c] = "idle" /\ pc'[c] = step
    /\ call'[c] = [operation |-> op, key |-> key, request |-> r, at |-> action.hash]
    /\ seen'[c] = row
    /\ OtherHandlersStay(c)
    /\ UNCHANGED <<action, requests, confirmation, attempts, rollbacks, lock, ledger,
                   executions, told, overrun>>

LEMMA ArriveFacts ==
    ASSUME HandlersOK, NEW c \in Calls, NEW op, NEW key, NEW r, NEW row, NEW step,
           Arrive(c, op, key, r, row, step)
    PROVE  Arrived(c, op, key, r, row, step)
BY DEF HandlersOK, Arrive, Arrived, OtherHandlersStay, tables, world

\* What a handler starts with.
Begun(c) ==
    \/ /\ call'[c].operation = "request" /\ pc'[c] = "read_ledger"
       /\ seen'[c].state = "requested" /\ seen'[c].dryRun = "none" /\ seen'[c].actionHash = action.hash
    \/ /\ call'[c].operation \in {"dry_run", "cancel", "rollback"} /\ pc'[c] = "read_ledger"
       /\ call'[c].request \in Requests /\ requests[call'[c].request].state # "absent"
       /\ seen'[c] = requests[call'[c].request]
    \/ /\ call'[c].operation = "confirm" /\ pc'[c] = "check_action"
       /\ call'[c].request \in Requests /\ requests[call'[c].request].state = "confirmation_required"
       /\ seen'[c] = requests[call'[c].request]
    \/ /\ call'[c].operation = "execute" /\ pc'[c] = "read_request"
       /\ call'[c].request \in Requests /\ requests[call'[c].request].state # "absent"

LEMMA BeginFacts ==
    ASSUME TypeInv, NEW c \in Calls, Begin(c)
    PROVE  /\ OtherHandlersStay(c)
           /\ UNCHANGED <<action, requests, confirmation, attempts, rollbacks, lock, ledger,
                          executions, told, overrun>>
           /\ pc[c] = "idle"
           /\ call'[c].at = action.hash
           /\ Begun(c)
<1> DEFINE Goal ==
        /\ OtherHandlersStay(c)
        /\ UNCHANGED <<action, requests, confirmation, attempts, rollbacks, lock, ledger,
                       executions, told, overrun>>
        /\ pc[c] = "idle"
        /\ call'[c].at = action.hash
        /\ Begun(c)
<1>0. HandlersOK
  BY DEF TypeInv, HandlersInv
<1>1. ASSUME NEW key, NEW r \in Requests, BeginDryRun(c, key, r) PROVE Goal
  <2>1. Arrived(c, "dry_run", key, r, requests[r], "read_ledger")
    BY <1>0, <1>1, ArriveFacts DEF BeginDryRun
  <2> QED
    BY <1>1, <2>1 DEF BeginDryRun, Arrived, Begun
<1>2. ASSUME NEW key, NEW r \in Requests, BeginConfirm(c, key, r) PROVE Goal
  <2>1. Arrived(c, "confirm", key, r, requests[r], "check_action")
    BY <1>0, <1>2, ArriveFacts DEF BeginConfirm
  <2> QED
    BY <1>2, <2>1 DEF BeginConfirm, Arrived, Begun
<1>3. ASSUME NEW key, NEW r \in Requests, BeginExecute(c, key, r) PROVE Goal
  <2>1. Arrived(c, "execute", key, r, NoRow, "read_request")
    BY <1>0, <1>3, ArriveFacts DEF BeginExecute
  <2> QED
    BY <1>3, <2>1 DEF BeginExecute, Arrived, Begun
<1>4. ASSUME NEW key, NEW r \in Requests, BeginCancel(c, key, r) PROVE Goal
  <2>1. Arrived(c, "cancel", key, r, requests[r], "read_ledger")
    BY <1>0, <1>4, ArriveFacts DEF BeginCancel
  <2> QED
    BY <1>4, <2>1 DEF BeginCancel, Arrived, Begun
<1>5. ASSUME NEW key, NEW r \in Requests, BeginRollback(c, key, r) PROVE Goal
  <2>1. Arrived(c, "rollback", key, r, requests[r], "read_ledger")
    BY <1>0, <1>5, ArriveFacts DEF BeginRollback
  <2> QED
    BY <1>5, <2>1 DEF BeginRollback, Arrived, Begun
<1>6. ASSUME NEW key, NEW body, BeginRequest(c, key, body) PROVE Goal
  <2>1. Arrived(c, "request", key, NoRequest,
               [state |-> "requested", body |-> body, actionHash |-> action.hash, dryRun |-> "none"],
               "read_ledger")
    BY <1>0, <1>6, ArriveFacts DEF BeginRequest
  <2> QED
    BY <2>1 DEF Arrived, Begun
<1>7. Goal
  <2> HIDE DEF Goal
  <2> QED
    BY <1>1, <1>2, <1>3, <1>4, <1>5, <1>6 DEF Begin
<1> QED
  BY <1>7

-------------------------------------------------------------------------------
\* The steps before the lock belong to one operation each, as those under it do.

PreparationOwn(c) ==
    /\ pc[c] = "insert_request" => call[c].operation = "request"
    /\ pc[c] \in {"dry_run", "write_confirmation_required"} => call[c].operation = "dry_run"
    /\ pc[c] \in {"clear_confirmations", "insert_confirmation", "write_confirmed"} =>
          call[c].operation = "confirm"
    /\ pc[c] = "check_action" => call[c].operation \in {"confirm", "execute"}
    /\ pc[c] \in {"read_request", "check_confirmation"} => call[c].operation = "execute"

ControlInv ==
    /\ \A c \in Calls : PreparationOwn(c)
    /\ \A c \in Calls : OwnSteps(c)

\* What a handler works on; its request is one of the requests, unless it
\* creates one.
LEMMA OwnRequest ==
    ASSUME TypeInv, ControlInv, NEW c \in Calls,
           pc[c] \in LockSteps \cup {"dry_run", "write_confirmation_required", "clear_confirmations",
                                     "insert_confirmation", "write_confirmed", "check_action"}
    PROVE  call[c].request \in Requests /\ call[c].operation # "request"
BY StepSets DEF TypeInv, HandlersInv, ControlInv, PreparationOwn, LockedOperations

LEMMA ControlStep == TypeInv /\ ControlInv /\ [Next]_vars => ControlInv'
<1> SUFFICES ASSUME TypeInv, ControlInv, [Next]_vars PROVE ControlInv'
  OBVIOUS
<1>1. ASSUME NEW c \in Calls, OtherHandlersStay(c), PreparationOwn(c)', OwnSteps(c)'
      PROVE  ControlInv'
  BY <1>1 DEF ControlInv, PreparationOwn, OwnSteps, OtherHandlersStay
<1>2. ASSUME NEW c \in Calls, Begin(c)
      PROVE  ControlInv'
  <2>1. OtherHandlersStay(c) /\ Begun(c)
    BY <1>2, BeginFacts
  <2>2. PreparationOwn(c)' /\ OwnSteps(c)'
    BY <2>1, OwnSets DEF Begun, PreparationOwn, OwnSteps
  <2> QED
    BY <1>1, <2>1, <2>2
<1>3. ASSUME NEW c \in Calls, Step(c) \/ Abandon(c) \/ FailInsideTry(c)
      PROVE  ControlInv'
  <2>1. /\ OtherHandlersStay(c)
        /\ pc[c] # "idle"
        /\ pc'[c] = "idle" \/ (Moves(c, pc[c], pc'[c]) /\ call'[c] = call[c])
    BY <1>3, HandlerMoves
  <2>2. CASE pc'[c] = "idle"
    BY <1>1, <2>1, <2>2, OwnSets DEF PreparationOwn, OwnSteps
  <2>3. CASE Moves(c, pc[c], pc'[c]) /\ call'[c] = call[c]
    <3>1. /\ call[c].operation \in Operations
          /\ pc[c] \in LockSteps => call[c].operation \in LockedOperations
          /\ PreparationOwn(c) /\ OwnSteps(c)
      BY <2>1 DEF TypeInv, HandlersInv, ControlInv
    <3>2. PreparationOwn(c)'
      BY <2>3, <3>1, OwnSets, StepSets DEF Moves, AfterLedger, AfterLock, Operations, LockedOperations,
           PreparationOwn, LockedSteps, ReleaseSteps
    <3>3. OwnSteps(c)'
      BY <2>3, <3>1, OwnSets, StepSets DEF Moves, AfterLedger, AfterLock, Operations, LockedOperations,
           OwnSteps, LockedSteps, ReleaseSteps
    <3> QED
      BY <1>1, <2>1, <3>2, <3>3
  <2> QED
    BY <2>1, <2>2, <2>3
<1>4. CASE UNCHANGED <<pc, call>>
  BY <1>4 DEF ControlInv, PreparationOwn, OwnSteps
<1>5. Environment \/ UNCHANGED vars => UNCHANGED <<pc, call>>
  BY DEF Environment, ExpireLock, ExpireEvidence, ChangeAction, ExpireDryRun, ExpireConfirmation, vars
<1> QED
  BY <1>2, <1>3, <1>4, <1>5 DEF Next

LEMMA ControlInit == Init => ControlInv
BY OwnSets DEF Init, ControlInv, PreparationOwn, OwnSteps

-------------------------------------------------------------------------------
\* What a step writes to the row of its request.

PlanAllows(body) == body.irreversible \/ body.rollbackPlan

StateWritten(c, state) ==
    \/ pc[c] = "dry_run" /\ state \in {"blocked", "dry_run_succeeded"}
    \/ pc[c] = "write_confirmation_required" /\ state = "confirmation_required"
    \/ pc[c] = "write_confirmed" /\ state = "confirmed"
    \/ pc[c] = "write_queued" /\ state = "queued"
    \/ pc[c] = "write_started" /\ state = "started"
    \/ pc[c] = "write_result" /\ state = ExecutionResult(seen[c].body)
    \/ pc[c] = "write_cancel_requested" /\ state = "cancel_requested"
    \/ pc[c] = "write_cancelled" /\ state = "cancelled"
    \/ pc[c] = "write_rollback_requested" /\ state = "rollback_requested"
    \/ pc[c] = "write_rollback_result" /\ state = RollbackResult(seen[c].body)

RowWritten(c) ==
    LET r == call[c].request IN
    /\ r \in Requests
    /\ \A q \in Requests \ {r} : requests'[q] = requests[q]
    /\ requests'[r].body = requests[r].body
    /\ requests'[r].actionHash = requests[r].actionHash
    /\ StateWritten(c, requests'[r].state)
    /\ \/ requests'[r].dryRun = requests[r].dryRun /\ (pc[c] = "dry_run" => pc'[c] = "idle")
       \/ pc[c] = "dry_run" /\ pc'[c] = "idle" /\ requests'[r].dryRun = "expired"
       \/ pc[c] = "dry_run" /\ PlanAllows(seen[c].body) /\ requests'[r].dryRun = "fresh"

LEMMA UpdateWrites ==
    ASSUME TypeInv, NEW c \in Calls, call[c].request \in Requests,
           NEW state, UpdateRequestState(call[c].request, state), StateWritten(c, state),
           pc[c] = "dry_run" => pc'[c] = "idle"
    PROVE  RowWritten(c)
BY DEF TypeInv, TablesOK, Row, UpdateRequestState, RowWritten

LEMMA RowEffects ==
    ASSUME TypeInv, ControlInv, NEW c \in Calls, Step(c) \/ Abandon(c) \/ FailInsideTry(c)
    PROVE  UNCHANGED requests \/ InsertRequest(c) \/ RowWritten(c)
<1>0. HandlersOK
  BY DEF TypeInv, HandlersInv
<1>1. ASSUME pc[c] \in LockSteps \cup {"dry_run", "write_confirmation_required", "write_confirmed"}
      PROVE  call[c].request \in Requests
  BY <1>1, OwnRequest
<1>2. CASE LedgerStep(c) \/ LockStep(c)
  BY <1>2 DEF LedgerStep, ReplayOrConflict, MissLedger, InsertLedger, LoseLedgerRace,
       LockStep, LockKeyConflict, InsertLock, MissLock, InspectLock, RecoverLock,
       RecoverNothing, ReleaseLock, tables
<1>3. CASE \/ CheckAction(c) \/ ClearConfirmations(c) \/ InsertConfirmation(c) \/ DuplicateConfirmationThrows(c)
           \/ ReadRequest(c) \/ CheckConfirmation(c) \/ InsertAttempt(c) \/ DuplicateAttemptThrows(c)
           \/ InvokeExecute(c) \/ UpdateAttempt(c) \/ CompleteExecute(c)
  BY <1>3 DEF CheckAction, ClearConfirmations, InsertConfirmation, DuplicateConfirmationThrows, ReadRequest,
       CheckConfirmation, InsertAttempt, DuplicateAttemptThrows, InvokeExecute, UpdateAttempt,
       CompleteExecute, tables
<1>4. CASE \/ RefuseCancel(c) \/ InvokeCancel(c) \/ CompleteCancel(c)
           \/ InsertRollback(c) \/ InvokeRollback(c) \/ UpdateRollback(c) \/ CompleteRollback(c)
           \/ Abandon(c) \/ FailInsideTry(c)
  BY <1>4 DEF RefuseCancel, InvokeCancel, CompleteCancel, InsertRollback, InvokeRollback, UpdateRollback,
       CompleteRollback, Abandon, FailInsideTry, tables
<1>5. CASE BlockWithoutRollbackPlan(c)
  <2>1. call[c].request \in Requests /\ pc'[c] = "idle" /\ pc[c] = "dry_run"
    BY <1>0, <1>1, <1>5, EndFrame DEF BlockWithoutRollbackPlan
  <2> QED
    BY <1>5, <2>1 DEF BlockWithoutRollbackPlan, RowWritten, StateWritten, TypeInv, TablesOK, Row
<1>6. CASE BlockByGate(c) \/ WriteConfirmationRequired(c) \/ WriteConfirmed(c)
  <2>1. pc'[c] = "idle"
    BY <1>0, <1>6, EndFrame DEF BlockByGate, WriteConfirmationRequired, WriteConfirmed
  <2> QED
    BY <1>1, <1>6, <2>1, UpdateWrites
    DEF BlockByGate, WriteConfirmationRequired, WriteConfirmed, StateWritten
<1>7. CASE WriteDryRun(c)
  <2>1. call[c].request \in Requests
    BY <1>1, <1>7 DEF WriteDryRun
  <2> QED
    BY <1>7, <2>1 DEF WriteDryRun, RowWritten, StateWritten, PlanAllows, TypeInv, TablesOK, Row
<1>8. CASE WriteQueued(c) \/ WriteStarted(c) \/ WriteResult(c)
  BY <1>1, <1>8, StepSets, UpdateWrites DEF WriteQueued, WriteStarted, WriteResult, StateWritten
<1>9. CASE WriteCancelRequested(c) \/ WriteCancelled(c)
  BY <1>1, <1>9, StepSets, UpdateWrites DEF WriteCancelRequested, WriteCancelled, StateWritten
<1>10. CASE WriteRollbackRequested(c) \/ WriteRollbackResult(c)
  BY <1>1, <1>10, StepSets, UpdateWrites DEF WriteRollbackRequested, WriteRollbackResult, StateWritten
<1> QED
  BY <1>2, <1>3, <1>4, <1>5, <1>6, <1>7, <1>8, <1>9, <1>10
  DEF Step, PreparationStep, ExecuteStep, CancelStep, RollbackStep

-------------------------------------------------------------------------------
\* Rows are written once: what a handler copied of its request's row stays
\* true of it, but for the state and the age of the dry run.

Works(c) ==
    /\ call[c].operation = "request" =>
          seen[c].state = "requested" /\ seen[c].dryRun = "none" /\ seen[c].actionHash <= action.hash
    /\ call[c].operation # "request" => requests[call[c].request].state # "absent"
    /\ call[c].operation # "request" /\ pc[c] # "read_request" =>
          /\ seen[c].body = requests[call[c].request].body
          /\ seen[c].actionHash = requests[call[c].request].actionHash

RowInv ==
    /\ \A r \in Requests : requests[r].state = "absent" => requests[r].dryRun = "none"
    /\ \A r \in Requests : requests[r].state # "absent" => requests[r].actionHash <= action.hash
    /\ \A c \in Calls : pc[c] # "idle" => Works(c)

PresentKept ==
    \A r \in Requests : requests[r].state # "absent" =>
        /\ requests'[r].state # "absent"
        /\ requests'[r].body = requests[r].body
        /\ requests'[r].actionHash = requests[r].actionHash
        /\ requests[r].dryRun # "none" => requests'[r].dryRun # "none"

LEMMA WrittenStates ==
    ASSUME TypeInv, NEW c \in Calls, NEW state, StateWritten(c, state)
    PROVE  state # "absent"
<1>1. seen[c].body \in Body
  BY DEF TypeInv, HandlersInv, HandlersOK, Row
<1> QED
  BY <1>1, ResultTypes DEF StateWritten, ExecutionResults, RollbackResults

LEMMA HandlerKeepsRows ==
    ASSUME TypeInv, ControlInv, NEW c \in Calls, Step(c) \/ Abandon(c) \/ FailInsideTry(c)
    PROVE  PresentKept
<1>1. CASE UNCHANGED requests
  BY <1>1 DEF PresentKept
<1>2. CASE InsertRequest(c)
  BY <1>2 DEF InsertRequest, PresentKept, TypeInv, TablesOK
<1>3. CASE RowWritten(c)
  BY <1>3, WrittenStates DEF RowWritten, PresentKept
<1> QED
  BY <1>1, <1>2, <1>3, RowEffects

\* The environment ages dry runs and rewrites the action, nothing else here.
LEMMA EnvironmentRows ==
    ASSUME TypeInv, Environment
    PROVE  /\ UNCHANGED <<pc, call, attempts, rollbacks, ledger, executions>>
           /\ action'.hash \in Nat /\ action.hash <= action'.hash
           /\ \A r \in Requests :
                 /\ requests'[r].state = requests[r].state
                 /\ requests'[r].body = requests[r].body
                 /\ requests'[r].actionHash = requests[r].actionHash
                 /\ requests'[r].dryRun = "none" <=> requests[r].dryRun = "none"
                 /\ confirmation'[r] = "never" <=> confirmation[r] = "never"
                 /\ confirmation[r] \in {"current", "expired"} => confirmation'[r] \in {"current", "expired"}
           /\ \A c \in Calls :
                 /\ seen'[c].state = seen[c].state
                 /\ seen'[c].body = seen[c].body
                 /\ seen'[c].actionHash = seen[c].actionHash
                 /\ seen'[c].dryRun = "none" <=> seen[c].dryRun = "none"
<1> USE DEF TypeInv, HandlersInv, HandlersOK, TablesOK
<1>1. CASE \E r \in Requests : ExpireDryRun(r)
  <2>1. PICK r \in Requests : ExpireDryRun(r)
    BY <1>1
  <2>2. /\ \A q \in Requests : requests[q] \in Row
        /\ \A c \in Calls : seen[c] \in Row
    OBVIOUS
  <2>3. /\ UNCHANGED <<pc, call, attempts, rollbacks, ledger, executions, action, confirmation>>
        /\ requests[r].dryRun = "fresh"
        /\ requests' = [requests EXCEPT ![r].dryRun = "expired"]
        /\ seen' = [c \in Calls |->
                  IF call[c].request = r /\ seen[c].dryRun = "fresh"
                  THEN [seen[c] EXCEPT !.dryRun = "expired"]
                  ELSE seen[c]]
    BY <2>1 DEF ExpireDryRun, world
  <2> QED
    BY <2>2, <2>3 DEF Row
<1>2. CASE \E r \in Requests : ExpireConfirmation(r)
  BY <1>2 DEF ExpireConfirmation, world
<1>3. CASE ExpireLock \/ ExpireEvidence \/ ChangeAction
  BY <1>3, ConstantsAssumption DEF ExpireLock, ExpireEvidence, ChangeAction, world
<1> QED
  BY <1>1, <1>2, <1>3 DEF Environment

\* Only the environment rewrites the action.
LEMMA StepKeepsAction ==
    ASSUME NEW c \in Calls, Step(c) \/ Abandon(c) \/ FailInsideTry(c)
    PROVE  UNCHANGED action
<1>1. CASE LedgerStep(c) \/ PreparationStep(c)
  BY <1>1 DEF LedgerStep, ReplayOrConflict, MissLedger, InsertLedger, LoseLedgerRace,
       PreparationStep, InsertRequest, BlockWithoutRollbackPlan, BlockByGate, WriteDryRun,
       WriteConfirmationRequired, CheckAction, ClearConfirmations, InsertConfirmation,
       DuplicateConfirmationThrows, WriteConfirmed, tables
<1>2. CASE LockStep(c) \/ ExecuteStep(c)
  BY <1>2 DEF LockStep, LockKeyConflict, InsertLock, MissLock, InspectLock, RecoverLock,
       RecoverNothing, ReleaseLock, ExecuteStep, ReadRequest, CheckConfirmation, InsertAttempt,
       DuplicateAttemptThrows, WriteQueued, WriteStarted, InvokeExecute, UpdateAttempt, WriteResult,
       CompleteExecute, tables
<1>3. CASE CancelStep(c) \/ RollbackStep(c)
  BY <1>3 DEF CancelStep, WriteCancelRequested, RefuseCancel, InvokeCancel, WriteCancelled, CompleteCancel,
       RollbackStep, WriteRollbackRequested, InsertRollback, InvokeRollback, UpdateRollback,
       WriteRollbackResult, CompleteRollback, tables
<1>4. CASE Abandon(c) \/ FailInsideTry(c)
  BY <1>4 DEF Abandon, FailInsideTry, tables
<1> QED
  BY <1>1, <1>2, <1>3, <1>4 DEF Step

LEMMA RowInvInit == Init => RowInv
<1> SUFFICES ASSUME Init PROVE RowInv
  OBVIOUS
<1>1. \A r \in Requests : \/ requests[r] = NoRow
                          \/ requests[r].state = "confirmed" /\ requests[r].actionHash = 0
  BY DEF Init
<1> QED
  BY <1>1 DEF Init, RowInv, NoRow

LEMMA RowInvStep == TypeInv /\ ControlInv /\ RowInv /\ [Next]_vars => RowInv'
<1> SUFFICES ASSUME TypeInv, ControlInv, RowInv, [Next]_vars PROVE RowInv'
  OBVIOUS
<1>0. /\ action.hash \in Nat
      /\ \A r \in Requests : requests[r].actionHash \in Nat
      /\ \A c \in Calls : seen[c].actionHash \in Nat
      /\ \A c \in Calls : pc[c] # "idle" /\ call[c].operation # "request" => call[c].request \in Requests
  BY DEF TypeInv, TablesOK, HandlersInv, HandlersOK, Row
<1>1. ASSUME NEW c \in Calls, Begin(c)
      PROVE  RowInv'
  <2>1. /\ OtherHandlersStay(c) /\ UNCHANGED <<action, requests>> /\ Begun(c)
    BY <1>1, BeginFacts
  <2>2. Works(c)'
    BY <1>0, <2>1 DEF Begun, Works
  <2>3. ASSUME NEW d \in Calls, d # c, pc'[d] # "idle" PROVE Works(d)'
    BY <2>1, <2>3 DEF OtherHandlersStay, RowInv, Works
  <2> QED
    BY <2>1, <2>2, <2>3 DEF RowInv
<1>2. ASSUME NEW c \in Calls, Step(c) \/ Abandon(c) \/ FailInsideTry(c)
      PROVE  RowInv'
  <2>1. /\ OtherHandlersStay(c)
        /\ pc[c] # "idle"
        /\ \/ pc'[c] = "idle"
           \/ /\ Moves(c, pc[c], pc'[c])
              /\ call'[c] = call[c]
              /\ seen'[c] = IF pc[c] = "read_request" THEN requests[call[c].request] ELSE seen[c]
    BY <1>2, HandlerMoves
  <2>2. PresentKept
    BY <1>2, HandlerKeepsRows
  <2>3. UNCHANGED action
    BY <1>2, StepKeepsAction
  <2>4. ASSUME NEW d \in Calls, d # c, pc'[d] # "idle" PROVE Works(d)'
    BY <1>0, <2>1, <2>2, <2>3, <2>4 DEF OtherHandlersStay, RowInv, Works, PresentKept
  <2>5. ASSUME pc'[c] # "idle" PROVE Works(c)'
    <3>1. PreparationOwn(c) /\ Works(c)
      BY <2>1 DEF ControlInv, RowInv
    <3>2. pc'[c] # "read_request"
      BY <2>1, <2>5, MovesAnywhere
    <3>3. /\ call'[c] = call[c] /\ UNCHANGED action
          /\ call[c].operation # "request" =>
                /\ requests[call[c].request].state # "absent"
                /\ requests'[call[c].request].state # "absent"
                /\ requests'[call[c].request].body = requests[call[c].request].body
                /\ requests'[call[c].request].actionHash = requests[call[c].request].actionHash
      BY <1>0, <2>1, <2>2, <2>3, <2>5, <3>1 DEF Works, PresentKept
    <3>4. CASE pc[c] = "read_request"
      BY <2>1, <2>5, <3>1, <3>3, <3>4 DEF Works, PreparationOwn
    <3>5. CASE pc[c] # "read_request"
      BY <2>1, <2>5, <3>1, <3>3, <3>5 DEF Works
    <3> QED
      BY <3>4, <3>5
  <2>6. ASSUME NEW r \in Requests
        PROVE  /\ requests'[r].state = "absent" => requests'[r].dryRun = "none"
               /\ requests'[r].state # "absent" => requests'[r].actionHash <= action'.hash
    <3>1. CASE requests'[r] = requests[r]
      BY <2>3, <3>1 DEF RowInv
    <3>2. CASE InsertRequest(c)
      <4>1. Works(c) /\ call[c].operation = "request"
        BY <2>1, <3>2 DEF InsertRequest, RowInv, ControlInv, PreparationOwn
      <4>2. requests'[r] = requests[r] \/ requests'[r] = seen[c]
        BY <3>2 DEF InsertRequest, TypeInv, TablesOK
      <4> QED
        BY <2>3, <3>1, <4>1, <4>2 DEF Works
    <3>3. CASE RowWritten(c) /\ r = call[c].request
      <4>1. requests[r].state # "absent"
        BY <2>1, <3>3, OwnRequest DEF RowInv, Works, RowWritten, StateWritten, LockSteps, LockedSteps,
           ExecuteLockedSteps, CancelLockedSteps, RollbackLockedSteps
      <4> QED
        BY <2>2, <2>3, <4>1 DEF PresentKept, RowInv
    <3> QED
      BY <1>2, <3>1, <3>2, <3>3, RowEffects DEF RowWritten
  <2> QED
    BY <2>4, <2>5, <2>6 DEF RowInv
<1>3. CASE Environment
  BY <1>0, <1>3, EnvironmentRows DEF RowInv, Works
<1>4. CASE UNCHANGED vars
  BY <1>4 DEF vars, tables, RowInv, Works
<1> QED
  BY <1>1, <1>2, <1>3, <1>4 DEF Next

-------------------------------------------------------------------------------
\* Who writes the other tables.

\* Ledger records of the operations are only added, each by the insert of a
\* call that found none under its key.
LedgerGrows(c) ==
    \A k \in Keys : LET i == <<"rollback", k>> IN
        \/ ledger'[i].present = ledger[i].present /\ ledger'[i].hash = ledger[i].hash
        \/ /\ pc[c] = "insert_ledger" /\ i = LedgerKey(c) /\ ~ledger[i].present
           /\ ledger'[i].present /\ ledger'[i].hash.request = call[c].request

LEMMA LedgerEffects ==
    ASSUME TypeInv, NEW c \in Calls, Step(c) \/ Abandon(c) \/ FailInsideTry(c)
    PROVE  LedgerGrows(c)
<1>1. \A k \in Keys : <<"rollback", k>> \in LedgerIndex
  BY DEF LedgerIndex, Operations, LockedOperations
<1>2. ASSUME UNCHANGED ledger PROVE LedgerGrows(c)
  BY <1>2 DEF LedgerGrows
<1>3. ASSUME NEW value, StoreResult(c, value) PROVE LedgerGrows(c)
  <2>1. \A i \in LedgerIndex : ledger'[i].present = ledger[i].present /\ ledger'[i].hash = ledger[i].hash
    BY <1>3 DEF StoreResult, TypeInv, TablesOK, LedgerRecord
  <2> QED
    BY <1>1, <2>1 DEF LedgerGrows
<1>4. ASSUME RecordLockKey(c) PROVE LedgerGrows(c)
  BY <1>1, <1>4 DEF RecordLockKey, LockLedgerKey, LedgerGrows, TypeInv, TablesOK, LedgerRecord
<1>5. ASSUME InsertLedger(c) PROVE LedgerGrows(c)
  BY <1>1, <1>5 DEF InsertLedger, RequestHash, LedgerGrows, TypeInv, TablesOK, LedgerRecord
<1>6. CASE LedgerStep(c) \/ PreparationStep(c)
  BY <1>2, <1>5, <1>6 DEF LedgerStep, ReplayOrConflict, MissLedger, LoseLedgerRace,
       PreparationStep, InsertRequest, BlockWithoutRollbackPlan, BlockByGate, WriteDryRun,
       WriteConfirmationRequired, CheckAction, ClearConfirmations, InsertConfirmation,
       DuplicateConfirmationThrows, WriteConfirmed, tables
<1>7. CASE LockStep(c) \/ ExecuteStep(c)
  BY <1>2, <1>3, <1>4, <1>7 DEF LockStep, LockKeyConflict, InsertLock, MissLock, InspectLock, RecoverLock,
       RecoverNothing, ReleaseLock, ExecuteStep, ReadRequest, CheckConfirmation, InsertAttempt,
       DuplicateAttemptThrows, WriteQueued, WriteStarted, InvokeExecute, UpdateAttempt, WriteResult,
       CompleteExecute, tables
<1>8. CASE CancelStep(c) \/ RollbackStep(c)
  BY <1>2, <1>3, <1>8 DEF CancelStep, WriteCancelRequested, RefuseCancel, InvokeCancel, WriteCancelled,
       CompleteCancel, RollbackStep, WriteRollbackRequested, InsertRollback, InvokeRollback, UpdateRollback,
       WriteRollbackResult, CompleteRollback, tables
<1>9. CASE Abandon(c) \/ FailInsideTry(c)
  BY <1>2, <1>9 DEF Abandon, FailInsideTry, tables
<1> QED
  BY <1>6, <1>7, <1>8, <1>9 DEF Step

LEMMA TableEffects ==
    ASSUME NEW c \in Calls, Step(c) \/ Abandon(c) \/ FailInsideTry(c)
    PROVE  /\ UNCHANGED confirmation \/ ClearConfirmations(c) \/ InsertConfirmation(c)
           /\ UNCHANGED rollbacks \/ InsertRollback(c) \/ UpdateRollback(c)
           /\ UNCHANGED executions \/ InvokeExecute(c)
<1> USE DEF tables, world
<1>1. CASE LedgerStep(c) \/ PreparationStep(c)
  BY <1>1 DEF LedgerStep, ReplayOrConflict, MissLedger, InsertLedger, LoseLedgerRace,
       PreparationStep, InsertRequest, BlockWithoutRollbackPlan, BlockByGate, WriteDryRun,
       WriteConfirmationRequired, CheckAction, ClearConfirmations, InsertConfirmation,
       DuplicateConfirmationThrows, WriteConfirmed
<1>2. CASE LockStep(c) \/ ExecuteStep(c)
  BY <1>2 DEF LockStep, LockKeyConflict, InsertLock, MissLock, InspectLock, RecoverLock,
       RecoverNothing, ReleaseLock, ExecuteStep, ReadRequest, CheckConfirmation, InsertAttempt,
       DuplicateAttemptThrows, WriteQueued, WriteStarted, InvokeExecute, UpdateAttempt, WriteResult,
       CompleteExecute
<1>3. CASE CancelStep(c) \/ RollbackStep(c)
  BY <1>3 DEF CancelStep, WriteCancelRequested, RefuseCancel, InvokeCancel, WriteCancelled, CompleteCancel,
       RollbackStep, WriteRollbackRequested, InsertRollback, InvokeRollback, UpdateRollback,
       WriteRollbackResult, CompleteRollback
<1>4. CASE Abandon(c) \/ FailInsideTry(c)
  BY <1>4 DEF Abandon, FailInsideTry
<1> QED
  BY <1>1, <1>2, <1>3, <1>4 DEF Step

\* A step by which a handler goes on is the statement it was at.
LEMMA OwnStatement ==
    ASSUME TypeInv, NEW c \in Calls, Step(c) \/ Abandon(c) \/ FailInsideTry(c)
    PROVE  /\ pc[c] = "insert_confirmation" => Abandon(c) \/ InsertConfirmation(c) \/ DuplicateConfirmationThrows(c)
           /\ pc[c] = "update_rollback" /\ pc'[c] = "write_rollback_result" => UpdateRollback(c)
<1>0. HandlersOK
  BY DEF TypeInv, HandlersInv
<1>1. CASE LedgerStep(c) \/ PreparationStep(c)
  BY <1>1 DEF LedgerStep, ReplayOrConflict, MissLedger, InsertLedger, LoseLedgerRace,
       PreparationStep, InsertRequest, BlockWithoutRollbackPlan, BlockByGate, WriteDryRun,
       WriteConfirmationRequired, CheckAction, ClearConfirmations, WriteConfirmed,
       DuplicateConfirmationThrows, InsertConfirmation
<1>2. CASE LockStep(c) \/ ExecuteStep(c)
  BY <1>2 DEF LockStep, LockKeyConflict, InsertLock, MissLock, InspectLock, RecoverLock,
       RecoverNothing, ReleaseLock, ReleaseSteps, ExecuteStep, ReadRequest, CheckConfirmation, InsertAttempt,
       DuplicateAttemptThrows, WriteQueued, WriteStarted, InvokeExecute, UpdateAttempt, WriteResult,
       CompleteExecute
<1>3. CASE CancelStep(c) \/ RollbackStep(c)
  BY <1>3 DEF CancelStep, WriteCancelRequested, RefuseCancel, InvokeCancel, WriteCancelled, CompleteCancel,
       RollbackStep, WriteRollbackRequested, InsertRollback, InvokeRollback, UpdateRollback,
       WriteRollbackResult, CompleteRollback
<1>4. CASE Abandon(c)
  BY <1>0, <1>4, EndFrame DEF Abandon
<1>5. CASE FailInsideTry(c)
  <2>1. pc[c] \in LockedSteps /\ pc'[c] = "release_failed"
    BY <1>0, <1>5, ContinueFrame DEF FailInsideTry, LockedSteps, ExecuteLockedSteps, CancelLockedSteps,
       RollbackLockedSteps
  <2> QED
    BY <2>1 DEF LockedSteps, ExecuteLockedSteps, CancelLockedSteps, RollbackLockedSteps
<1> QED
  BY <1>1, <1>2, <1>3, <1>4, <1>5 DEF Step

-------------------------------------------------------------------------------
\* The request row shows what the attempt row recorded.

BaseInv == TypeInv /\ AttemptInv /\ RecordInv /\ ControlInv /\ RowInv

LEMMA BaseInit == Init => BaseInv
BY TypeInit, AttemptInit, RecordInit, ControlInit, RowInvInit DEF BaseInv

LEMMA BaseStep == BaseInv /\ [Next]_vars => BaseInv'
BY TypeStep, AttemptStep, RecordStep, ControlStep, RowInvStep DEF BaseInv

\* The dry run that goes on has written its outcome.
LEMMA DryRunWrites ==
    ASSUME BaseInv, NEW c \in Calls, Step(c) \/ Abandon(c) \/ FailInsideTry(c),
           pc[c] = "dry_run", pc'[c] # "idle"
    PROVE  /\ RowWritten(c)
           /\ requests'[call[c].request].dryRun = "fresh"
           /\ PlanAllows(seen[c].body)
<1>0. HandlersOK
  BY DEF BaseInv, TypeInv, HandlersInv
<1>1. WriteDryRun(c)
  <2>1. CASE LedgerStep(c) \/ PreparationStep(c)
    BY <1>0, <2>1, EndFrame DEF LedgerStep, ReplayOrConflict, MissLedger, InsertLedger, LoseLedgerRace,
       PreparationStep, InsertRequest, BlockWithoutRollbackPlan, BlockByGate,
       WriteConfirmationRequired, CheckAction, ClearConfirmations, InsertConfirmation,
       DuplicateConfirmationThrows, WriteConfirmed
  <2>2. ~(LockStep(c) \/ ExecuteStep(c))
    BY DEF LockStep, LockKeyConflict, InsertLock, MissLock, InspectLock, RecoverLock,
       RecoverNothing, ReleaseLock, ReleaseSteps, ExecuteStep, ReadRequest, CheckConfirmation,
       InsertAttempt, DuplicateAttemptThrows, WriteQueued, WriteStarted, InvokeExecute, UpdateAttempt,
       WriteResult, CompleteExecute
  <2>3. ~(CancelStep(c) \/ RollbackStep(c))
    BY DEF CancelStep, WriteCancelRequested, RefuseCancel, InvokeCancel, WriteCancelled, CompleteCancel,
       RollbackStep, WriteRollbackRequested, InsertRollback, InvokeRollback, UpdateRollback,
       WriteRollbackResult, CompleteRollback
  <2>4. ~Abandon(c)
    BY <1>0, EndFrame DEF Abandon
  <2>5. ~FailInsideTry(c)
    BY DEF FailInsideTry, LockedSteps, ExecuteLockedSteps, CancelLockedSteps, RollbackLockedSteps
  <2> QED
    BY <2>1, <2>2, <2>3, <2>4, <2>5 DEF Step
<1>2. RowWritten(c)
  <2>1. call[c].request \in Requests
    BY OwnRequest DEF BaseInv
  <2> QED
    BY <1>1, <2>1 DEF WriteDryRun, RowWritten, StateWritten, PlanAllows, BaseInv, TypeInv, TablesOK, Row
<1> QED
  BY <1>1, <1>2 DEF WriteDryRun, RowWritten, PlanAllows, BaseInv, TypeInv, TablesOK, Row

\* A creation writes a row that is requested.
LEMMA CreatedRow ==
    ASSUME BaseInv, NEW c \in Calls, InsertRequest(c), NEW r \in Requests
    PROVE  \/ requests'[r] = requests[r]
           \/ requests[r].state = "absent" /\ requests'[r].state = "requested"
<1>1. seen[c].state = "requested"
  BY DEF InsertRequest, BaseInv, ControlInv, PreparationOwn, RowInv, Works
<1> QED
  BY <1>1 DEF InsertRequest, BaseInv, TypeInv, TablesOK

\* What a step can do to the state of a row.
LEMMA StateEffects ==
    ASSUME BaseInv, NEW c \in Calls, Step(c) \/ Abandon(c) \/ FailInsideTry(c), NEW r \in Requests
    PROVE  \/ requests'[r].state = requests[r].state
           \/ requests'[r].state = "requested"
           \/ r = call[c].request /\ StateWritten(c, requests'[r].state)
BY RowEffects, CreatedRow DEF BaseInv, RowWritten

LEMMA OutcomeStep == BaseInv /\ OutcomeIsRecorded /\ [Next]_vars => OutcomeIsRecorded'
<1> SUFFICES ASSUME BaseInv, OutcomeIsRecorded, [Next]_vars, NEW r \in Requests,
                    requests'[r].state \in ExecutionResults \ {"cancelled"}
             PROVE  attempts'[r] = requests'[r].state
  BY DEF OutcomeIsRecorded
<1>0. FinalAttempts
  BY AttemptsFinal DEF BaseInv
<1>1. CASE requests'[r].state = requests[r].state
  BY <1>0, <1>1 DEF OutcomeIsRecorded, FinalAttempts
<1>2. ASSUME NEW c \in Calls, r = call[c].request, StateWritten(c, requests'[r].state)
      PROVE  attempts'[r] = requests'[r].state
  <2>1. seen[c].body \in Body
    BY DEF BaseInv, TypeInv, HandlersInv, HandlersOK, Row
  <2>2. pc[c] = "write_result" /\ requests'[r].state = ExecutionResult(seen[c].body)
    BY <1>2, <2>1, ResultTypes DEF StateWritten, ExecutionResults, RollbackResults
  <2>3. attempts[r] = requests'[r].state
    BY <1>2, <2>2 DEF BaseInv, RecordInv, Traced
  <2> QED
    BY <1>0, <2>3 DEF FinalAttempts
<1>3. ASSUME NEW c \in Calls, Step(c) \/ Abandon(c) \/ FailInsideTry(c)
      PROVE  attempts'[r] = requests'[r].state
  BY <1>1, <1>2, <1>3, StateEffects DEF ExecutionResults
<1>4. ASSUME NEW c \in Calls, Begin(c)
      PROVE  attempts'[r] = requests'[r].state
  BY <1>1, <1>4, BeginFacts DEF BaseInv
<1>5. CASE Environment
  BY <1>1, <1>5, EnvironmentRows DEF BaseInv
<1>6. CASE UNCHANGED vars
  BY <1>1, <1>6 DEF vars, tables
<1> QED
  BY <1>3, <1>4, <1>5, <1>6 DEF Next

\* A result in the request row is the result in the attempt row, up to the
\* "cancelled" that a cancellation writes.
THEOREM OutcomesAreRecorded == Spec => []OutcomeIsRecorded
<1>1. Init => OutcomeIsRecorded
  BY DEF Init, OutcomeIsRecorded, NoRow, ExecutionResults
<1> QED
  BY <1>1, BaseInit, BaseStep, OutcomeStep, PTL DEF Spec

-------------------------------------------------------------------------------
\* An execution belongs to the action as it was when the call came in.

\* The steps of an execution before it has looked at the action.
UncheckedSteps == EarlySteps \cup {"check_action"}

ActionInv ==
    \A c \in Calls : pc[c] # "idle" =>
        /\ call[c].at <= action.hash
        /\ call[c].operation = "execute" => requests[call[c].request].actionHash <= call[c].at
        /\ call[c].operation = "execute" /\ pc[c] \notin UncheckedSteps => call[c].at = seen[c].actionHash

LEMMA ActionStep == BaseInv /\ ActionInv /\ [Next]_vars => ActionInv'
<1> SUFFICES ASSUME BaseInv, ActionInv, [Next]_vars, NEW d \in Calls, pc'[d] # "idle"
             PROVE  /\ call'[d].at <= action'.hash
                    /\ call'[d].operation = "execute" => requests'[call'[d].request].actionHash <= call'[d].at
                    /\ call'[d].operation = "execute" /\ pc'[d] \notin UncheckedSteps =>
                           call'[d].at = seen'[d].actionHash
  BY DEF ActionInv
<1>0. /\ action.hash \in Nat
      /\ \A r \in Requests : requests[r].actionHash \in Nat
      /\ \A c \in Calls : seen[c].actionHash \in Nat /\ call[c].at \in Nat
      /\ \A c \in Calls : pc[c] # "idle" /\ call[c].operation = "execute" => call[c].request \in Requests
  BY DEF BaseInv, TypeInv, TablesOK, HandlersInv, HandlersOK, Row, CallRecord
<1>1. ASSUME pc[d] # "idle", UNCHANGED <<action>>, PresentKept,
             pc'[d] = pc[d] /\ call'[d] = call[d] /\ seen'[d] = seen[d]
      PROVE  /\ call'[d].at <= action'.hash
             /\ call'[d].operation = "execute" => requests'[call'[d].request].actionHash <= call'[d].at
             /\ call'[d].operation = "execute" /\ pc'[d] \notin UncheckedSteps =>
                    call'[d].at = seen'[d].actionHash
  <2>1. Works(d)
    BY <1>1 DEF BaseInv, RowInv
  <2> QED
    BY <1>0, <1>1, <2>1 DEF ActionInv, PresentKept, Works
<1>2. ASSUME NEW c \in Calls, Step(c) \/ Abandon(c) \/ FailInsideTry(c)
      PROVE  /\ call'[d].at <= action'.hash
             /\ call'[d].operation = "execute" => requests'[call'[d].request].actionHash <= call'[d].at
             /\ call'[d].operation = "execute" /\ pc'[d] \notin UncheckedSteps =>
                    call'[d].at = seen'[d].actionHash
  <2>1. /\ OtherHandlersStay(c)
        /\ pc[c] # "idle"
        /\ \/ pc'[c] = "idle"
           \/ /\ Moves(c, pc[c], pc'[c])
              /\ call'[c] = call[c]
              /\ seen'[c] = IF pc[c] = "read_request" THEN requests[call[c].request] ELSE seen[c]
    BY <1>2, HandlerMoves DEF BaseInv
  <2>2. PresentKept /\ UNCHANGED action
    BY <1>2, HandlerKeepsRows, StepKeepsAction DEF BaseInv
  <2>3. CASE d # c
    BY <1>1, <2>1, <2>2, <2>3 DEF OtherHandlersStay
  <2>4. CASE d = c
    <3>1. Works(c) /\ Moves(c, pc[c], pc'[c]) /\ call'[c] = call[c]
      BY <2>1, <2>4 DEF BaseInv, RowInv
    <3>2. ASSUME call[c].operation = "execute"
          PROVE  /\ requests'[call[c].request].actionHash = requests[call[c].request].actionHash
                 /\ call[c].request \in Requests
      BY <1>0, <2>1, <2>2, <3>1, <3>2 DEF Works, PresentKept
    <3>3. ASSUME call[c].operation = "execute", pc'[c] \notin UncheckedSteps
          PROVE  call[c].at = seen[c].actionHash /\ pc[c] # "read_request"
      <4>1. \/ pc[c] = "check_action" /\ seen[c].actionHash = action.hash
            \/ pc[c] \notin UncheckedSteps
        BY <3>1, <3>3, OwnSets DEF Moves, UncheckedSteps, AfterLedger, LockedSteps
      <4>2. CASE pc[c] = "check_action" /\ seen[c].actionHash = action.hash
        BY <1>0, <2>1, <3>1, <3>2, <3>3, <4>2 DEF ActionInv, Works
      <4>3. CASE pc[c] \notin UncheckedSteps
        BY <2>1, <3>3, <4>3, OwnSets DEF ActionInv, UncheckedSteps
      <4> QED
        BY <4>1, <4>2, <4>3
    <3> QED
      BY <2>1, <2>2, <2>4, <3>1, <3>2, <3>3 DEF ActionInv
  <2> QED
    BY <2>3, <2>4
<1>3. ASSUME NEW c \in Calls, Begin(c)
      PROVE  /\ call'[d].at <= action'.hash
             /\ call'[d].operation = "execute" => requests'[call'[d].request].actionHash <= call'[d].at
             /\ call'[d].operation = "execute" /\ pc'[d] \notin UncheckedSteps =>
                    call'[d].at = seen'[d].actionHash
  <2>1. /\ OtherHandlersStay(c) /\ UNCHANGED <<action, requests>>
        /\ call'[c].at = action.hash /\ Begun(c)
    BY <1>3, BeginFacts DEF BaseInv
  <2>2. CASE d # c
    <3>1. PresentKept
      BY <2>1 DEF PresentKept
    <3> QED
      BY <1>1, <2>1, <2>2, <3>1 DEF OtherHandlersStay
  <2>3. CASE d = c
    <3>1. call'[c].operation = "execute" =>
             /\ pc'[c] = "read_request"
             /\ requests[call'[c].request].actionHash <= action.hash
      BY <2>1 DEF Begun, BaseInv, RowInv
    <3> QED
      BY <1>0, <2>1, <2>3, <3>1, OwnSets DEF UncheckedSteps
  <2> QED
    BY <2>2, <2>3
<1>4. CASE Environment
  <2>1. /\ UNCHANGED <<pc, call>> /\ action'.hash \in Nat /\ action.hash <= action'.hash
        /\ seen'[d].actionHash = seen[d].actionHash
        /\ \A r \in Requests : requests'[r].actionHash = requests[r].actionHash
    BY <1>4, EnvironmentRows DEF BaseInv
  <2> QED
    BY <1>0, <2>1 DEF ActionInv
<1>5. CASE UNCHANGED vars
  BY <1>5 DEF vars, tables, ActionInv
<1> QED
  BY <1>2, <1>3, <1>4, <1>5 DEF Next

\* An execution that follows a change of the action stops before the adapter:
\* the hash it was confirmed for is the hash the action had at the call.
THEOREM ChangesStopExecutions == Spec => []ChangedActionIsNotExecuted
<1>1. Init => ActionInv
  BY DEF Init, ActionInv
<1>2. BaseInv /\ ActionInv => ChangedActionIsNotExecuted
  BY OwnSets DEF BaseInv, ControlInv, OwnSteps, ActionInv, UncheckedSteps, ChangedActionIsNotExecuted
<1> QED
  BY <1>1, <1>2, BaseInit, BaseStep, ActionStep, PTL DEF Spec

-------------------------------------------------------------------------------
\* Overlapping confirmations.  Each clears the rows of the others; what makes
\* the last one standing current is that whoever cleared is about to insert.

Standing(r) == confirmation[r] \in {"current", "expired"}

Inserting(r) ==
    \E c \in Calls : pc[c] = "insert_confirmation" /\ call[c].request = r

ConfirmInv ==
    \A r \in Requests :
        \/ requests[r].state = "confirmed"
        \/ \E c \in Calls : pc[c] = "write_confirmed" /\ call[c].request = r
        => Standing(r) \/ Inserting(r)

\* A handler that does not die stops inserting only when a row stands.
LEMMA StandingStep ==
    ASSUME BaseInv, "crash" \notin Faults, NEW c \in Calls, Step(c) \/ Abandon(c) \/ FailInsideTry(c),
           NEW r \in Requests, Standing(r) \/ Inserting(r)
    PROVE  (Standing(r) \/ Inserting(r))'
<1>0. /\ HandlersOK /\ OtherHandlersStay(c)
      /\ confirmation \in [Requests -> {"never", "cleared", "current", "expired"}]
  BY HandlerMoves DEF BaseInv, TypeInv, HandlersInv, TablesOK
<1>1. ASSUME NEW d \in Calls, d # c, pc[d] = "insert_confirmation", call[d].request = r
      PROVE  Inserting(r)'
  BY <1>0, <1>1 DEF OtherHandlersStay, Inserting
<1>2. CASE ClearConfirmations(c)
  <2>1. pc'[c] = "insert_confirmation" /\ call' = call
    BY <1>0, <1>2, ContinueFrame DEF ClearConfirmations
  <2>2. CASE call[c].request = r
    BY <2>1, <2>2 DEF Inserting
  <2>3. CASE call[c].request # r
    <3>1. confirmation'[r] = confirmation[r] /\ pc[c] # "insert_confirmation"
      BY <1>0, <1>2, <2>3 DEF ClearConfirmations
    <3> QED
      BY <1>1, <3>1 DEF Standing, Inserting
  <2> QED
    BY <2>2, <2>3
<1>3. CASE InsertConfirmation(c)
  <2>1. CASE call[c].request = r
    BY <1>0, <1>3, <2>1 DEF InsertConfirmation, Standing
  <2>2. CASE call[c].request # r
    <3>1. confirmation'[r] = confirmation[r]
      BY <1>0, <1>3, <2>2 DEF InsertConfirmation
    <3> QED
      BY <1>1, <2>2, <3>1 DEF Standing, Inserting
  <2> QED
    BY <2>1, <2>2
<1>4. CASE UNCHANGED confirmation /\ pc[c] # "insert_confirmation"
  BY <1>1, <1>4 DEF Standing, Inserting
<1>5. CASE UNCHANGED confirmation /\ DuplicateConfirmationThrows(c)
  <2>1. CASE call[c].request = r
    BY <1>5, <2>1 DEF DuplicateConfirmationThrows, Standing
  <2>2. CASE call[c].request # r
    BY <1>1, <1>5, <2>2 DEF Standing, Inserting
  <2> QED
    BY <2>1, <2>2
<1>6. ~(pc[c] = "insert_confirmation" /\ Abandon(c))
  BY DEF Abandon
<1>7. \/ UNCHANGED confirmation \/ ClearConfirmations(c) \/ InsertConfirmation(c)
  BY TableEffects
<1>8. pc[c] = "insert_confirmation" => InsertConfirmation(c) \/ DuplicateConfirmationThrows(c)
  BY <1>6, OwnStatement DEF BaseInv
<1> QED
  BY <1>2, <1>3, <1>4, <1>5, <1>7, <1>8

LEMMA ConfirmStep ==
    ASSUME "crash" \notin Faults
    PROVE  BaseInv /\ ConfirmInv /\ [Next]_vars => ConfirmInv'
<1> SUFFICES ASSUME BaseInv, ConfirmInv, [Next]_vars, NEW r \in Requests,
                    \/ requests'[r].state = "confirmed"
                    \/ \E c \in Calls : pc'[c] = "write_confirmed" /\ call'[c].request = r
             PROVE  (Standing(r) \/ Inserting(r))'
  BY DEF ConfirmInv
<1>1. ASSUME NEW c \in Calls, Step(c) \/ Abandon(c) \/ FailInsideTry(c)
      PROVE  (Standing(r) \/ Inserting(r))'
  <2>0. /\ OtherHandlersStay(c)
        /\ pc[c] # "idle"
        /\ pc'[c] = "idle" \/ (Moves(c, pc[c], pc'[c]) /\ call'[c] = call[c])
    BY <1>1, HandlerMoves DEF BaseInv
  <2>1. CASE requests[r].state = "confirmed" \/ \E d \in Calls : pc[d] = "write_confirmed" /\ call[d].request = r
    BY <1>1, <2>1, StandingStep DEF ConfirmInv
  <2>2. CASE Inserting(r)
    BY <1>1, <2>2, StandingStep
  <2>3. CASE requests'[r].state = "confirmed"
    <3>1. \/ requests[r].state = "confirmed"
          \/ r = call[c].request /\ StateWritten(c, "confirmed")
      BY <1>1, <2>3, StateEffects
    <3>2. seen[c].body \in Body
      BY DEF BaseInv, TypeInv, HandlersInv, HandlersOK, Row
    <3>3. StateWritten(c, "confirmed") => pc[c] = "write_confirmed"
      BY <3>2, ResultTypes DEF StateWritten, ExecutionResults, RollbackResults
    <3> QED
      BY <2>1, <3>1, <3>3
  <2>4. ASSUME NEW d \in Calls, pc'[d] = "write_confirmed", call'[d].request = r
        PROVE  (Standing(r) \/ Inserting(r))'
    <3>1. CASE d # c
      BY <2>0, <2>1, <2>4, <3>1 DEF OtherHandlersStay
    <3>2. CASE d = c
      <4>1. Moves(c, pc[c], "write_confirmed") /\ call'[c] = call[c]
        BY <2>0, <2>4, <3>2
      <4>2. /\ call[c].operation \in Operations
            /\ pc[c] \in LockSteps => call[c].operation \in LockedOperations
        BY <2>0 DEF BaseInv, TypeInv, HandlersInv
      <4>3. pc[c] = "insert_confirmation"
        BY <4>1, <4>2, OwnSets, StepSets DEF Moves, AfterLedger, AfterLock, ReleaseSteps, Operations, LockedOperations
      <4> QED
        BY <2>2, <2>4, <3>2, <4>1, <4>3 DEF Inserting
    <3> QED
      BY <3>1, <3>2
  <2> QED
    BY <2>3, <2>4
<1>2. ASSUME NEW c \in Calls, Begin(c)
      PROVE  (Standing(r) \/ Inserting(r))'
  <2>1. /\ OtherHandlersStay(c) /\ UNCHANGED <<requests, confirmation>>
        /\ pc[c] = "idle" /\ pc'[c] # "write_confirmed"
    BY <1>2, BeginFacts DEF BaseInv, Begun
  <2> QED
    BY <2>1 DEF OtherHandlersStay, ConfirmInv, Standing, Inserting
<1>3. CASE Environment
  BY <1>3, EnvironmentRows DEF BaseInv, ConfirmInv, Standing, Inserting
<1>4. CASE UNCHANGED vars
  BY <1>4 DEF vars, tables, ConfirmInv, Standing, Inserting
<1> QED
  BY <1>1, <1>2, <1>3, <1>4 DEF Next

\* If no handler dies half way, a confirmed request has a confirmation.
THEOREM ConfirmationsStand ==
    ASSUME "crash" \notin Faults
    PROVE  Spec => []ConfirmedHasConfirmation
<1>1. Init => ConfirmInv
  <2> SUFFICES ASSUME Init PROVE ConfirmInv
    OBVIOUS
  <2>1. \A r \in Requests : requests[r].state = "confirmed" => Standing(r)
    BY DEF Init, NoRow, Standing
  <2> QED
    BY <2>1 DEF Init, ConfirmInv
<1>2. BaseInv /\ ConfirmInv => ConfirmedHasConfirmation
  BY DEF BaseInv, ControlInv, PreparationOwn, ConfirmInv, Standing, Inserting, ConfirmedHasConfirmation
<1>3. BaseInv /\ ConfirmInv /\ [Next]_vars => ConfirmInv'
  BY ConfirmStep
<1> QED
  BY <1>1, <1>2, <1>3, BaseInit, BaseStep, PTL DEF Spec

-------------------------------------------------------------------------------
\* Preparation.  Each stage is handed on: the dry run to the state that asks
\* for a confirmation, this state to the confirming handler, the confirmation
\* to the confirmed state, and that to the handler which read it.

Planned(r) == PlanAllows(requests[r].body) /\ requests[r].dryRun # "none"

Prepared(r) == Planned(r) /\ confirmation[r] # "never"

RowPrepared(r) ==
    /\ requests[r].state = "confirmation_required" => Planned(r)
    /\ requests[r].state = "confirmed" => Prepared(r)
    /\ executions[r] > 0 => Prepared(r)

HandlerPrepared(c) ==
    /\ pc[c] = "write_confirmation_required" => Planned(call[c].request)
    /\ pc[c] # "idle" /\ call[c].operation = "confirm" => Planned(call[c].request)
    /\ pc[c] = "write_confirmed" => Prepared(call[c].request)
    /\ pc[c] \notin {"idle", "read_request"} /\ call[c].operation = "execute" =>
          /\ seen[c].state = "confirmed" => Prepared(call[c].request)
          /\ pc[c] \notin UncheckedSteps => seen[c].state = "confirmed"

PreparedInv ==
    /\ \A r \in Requests : RowPrepared(r)
    /\ \A c \in Calls : HandlerPrepared(c)

\* What was planned and prepared stays so.
PreparationKept ==
    \A r \in Requests : (Planned(r) => Planned(r)') /\ (Prepared(r) => Prepared(r)')

LEMMA KeepsPreparation ==
    ASSUME BaseInv, NEW c \in Calls, Step(c) \/ Abandon(c) \/ FailInsideTry(c)
    PROVE  PreparationKept
<1> SUFFICES ASSUME NEW r \in Requests
             PROVE  (Planned(r) => Planned(r)') /\ (Prepared(r) => Prepared(r)')
  BY DEF PreparationKept
<1>1. confirmation[r] # "never" => confirmation'[r] # "never"
  <2>1. confirmation \in [Requests -> {"never", "cleared", "current", "expired"}]
    BY DEF BaseInv, TypeInv, TablesOK
  <2> QED
    BY <2>1, TableEffects DEF ClearConfirmations, InsertConfirmation
<1>2. Planned(r) => Planned(r)'
  <2>1. Planned(r) => requests[r].state # "absent"
    BY DEF Planned, BaseInv, RowInv
  <2>2. PresentKept
    BY HandlerKeepsRows DEF BaseInv
  <2> QED
    BY <2>1, <2>2 DEF Planned, PlanAllows, PresentKept
<1> QED
  BY <1>1, <1>2 DEF Prepared

\* A handler that does not move stays prepared.
LEMMA OthersPrepared ==
    ASSUME BaseInv, PreparedInv, PreparationKept, NEW d \in Calls,
           pc'[d] = pc[d] /\ call'[d] = call[d] /\ seen'[d].state = seen[d].state
    PROVE  HandlerPrepared(d)'
<1>1. /\ pc[d] # "idle" /\ call[d].operation # "request" => call[d].request \in Requests
      /\ pc[d] = "write_confirmation_required" => call[d].operation = "dry_run"
      /\ pc[d] = "write_confirmed" => call[d].operation = "confirm"
  BY DEF BaseInv, TypeInv, HandlersInv, ControlInv, PreparationOwn
<1>2. PICK r : r = call[d].request
  OBVIOUS
<1>3. r \in Requests => (Planned(r) => Planned(r)') /\ (Prepared(r) => Prepared(r)')
  BY DEF PreparationKept
<1> QED
  BY <1>1, <1>2, <1>3 DEF PreparedInv, HandlerPrepared, Planned, Prepared

\* Nor does the row change under it, except by its own handler.
LEMMA RowsPrepared ==
    ASSUME BaseInv, PreparedInv, PreparationKept, NEW c \in Calls,
           Step(c) \/ Abandon(c) \/ FailInsideTry(c), NEW r \in Requests
    PROVE  RowPrepared(r)'
<1>1. RowPrepared(r) /\ (Planned(r) => Planned(r)') /\ (Prepared(r) => Prepared(r)')
  BY DEF PreparedInv, PreparationKept
<1>2. HandlerPrepared(c) /\ seen[c].body \in Body
  BY DEF PreparedInv, BaseInv, TypeInv, HandlersInv, HandlersOK, Row
<1>3. ASSUME requests'[r].state \in {"confirmation_required", "confirmed"}
      PROVE  \/ requests'[r].state = requests[r].state
             \/ /\ r = call[c].request
                /\ \/ pc[c] = "write_confirmation_required" /\ requests'[r].state = "confirmation_required"
                   \/ pc[c] = "write_confirmed" /\ requests'[r].state = "confirmed"
  BY <1>2, <1>3, StateEffects, ResultTypes DEF StateWritten, ExecutionResults, RollbackResults
<1>4. executions'[r] > 0 => executions[r] > 0 \/ Prepared(r)
  <2>1. CASE executions' = executions
    BY <2>1
  <2>2. CASE InvokeExecute(c) /\ r # call[c].request
    BY <2>2 DEF InvokeExecute, BaseInv, TypeInv, WorldOK
  <2>3. CASE InvokeExecute(c) /\ r = call[c].request
    <3>1. pc[c] = "invoke_execute" /\ call[c].operation = "execute"
      BY <2>3, OwnSets DEF InvokeExecute, BaseInv, ControlInv, OwnSteps
    <3> QED
      BY <1>2, <2>3, <3>1, OwnSets DEF HandlerPrepared, UncheckedSteps
  <2> QED
    BY <2>1, <2>2, <2>3, TableEffects
<1>5. requests'[r].state = "confirmation_required" => Planned(r)
  BY <1>1, <1>2, <1>3 DEF RowPrepared, HandlerPrepared
<1>6. requests'[r].state = "confirmed" => Prepared(r)
  BY <1>1, <1>2, <1>3 DEF RowPrepared, HandlerPrepared
<1> QED
  BY <1>1, <1>4, <1>5, <1>6 DEF RowPrepared

\* The handler that moves: where each thing it is now held to comes from.
LEMMA MoverPrepared ==
    ASSUME BaseInv, PreparedInv, PreparationKept, NEW c \in Calls,
           Step(c) \/ Abandon(c) \/ FailInsideTry(c)
    PROVE  HandlerPrepared(c)'
<1>1. /\ pc[c] # "idle"
      /\ \/ pc'[c] = "idle"
         \/ /\ Moves(c, pc[c], pc'[c])
            /\ call'[c] = call[c]
            /\ seen'[c] = IF pc[c] = "read_request" THEN requests[call[c].request] ELSE seen[c]
  BY HandlerMoves DEF BaseInv
<1>2. CASE pc'[c] = "idle"
  BY <1>2, OwnSets DEF HandlerPrepared, UncheckedSteps
<1>3. CASE pc'[c] # "idle"
  <2> PICK r : r = call[c].request
    OBVIOUS
  <2>1. /\ Moves(c, pc[c], pc'[c]) /\ call'[c] = call[c] /\ call'[c].request = r
        /\ PreparationOwn(c) /\ OwnSteps(c) /\ HandlerPrepared(c) /\ Works(c)
        /\ call[c].operation \in Operations
        /\ pc[c] \in LockSteps => call[c].operation \in LockedOperations
        /\ call[c].operation # "request" => r \in Requests
    BY <1>1, <1>3 DEF BaseInv, ControlInv, RowInv, PreparedInv, TypeInv, HandlersInv
  <2>2. r \in Requests => (Planned(r) => Planned(r)') /\ (Prepared(r) => Prepared(r)')
    BY DEF PreparationKept
  <2>3. pc'[c] = "write_confirmation_required" => Planned(r)'
    <3> SUFFICES ASSUME pc'[c] = "write_confirmation_required" PROVE Planned(r)'
      OBVIOUS
    <3>1. pc[c] = "dry_run"
      BY <2>1, OwnSets DEF Moves, AfterLedger, AfterLock, ReleaseSteps, Operations, LockedOperations, LockSteps
    <3>2. RowWritten(c) /\ requests'[r].dryRun = "fresh" /\ PlanAllows(seen[c].body)
      BY <3>1, DryRunWrites
    <3>3. requests'[r].body = seen[c].body
      BY <2>1, <3>1, <3>2 DEF RowWritten, Works, PreparationOwn
    <3> QED
      BY <3>2, <3>3 DEF Planned
  <2>4. call[c].operation = "confirm" => Planned(r)'
    BY <1>1, <2>1, <2>2 DEF HandlerPrepared
  <2>5. pc'[c] = "write_confirmed" => Prepared(r)'
    <3> SUFFICES ASSUME pc'[c] = "write_confirmed" PROVE Prepared(r)'
      OBVIOUS
    <3>1. pc[c] = "insert_confirmation"
      BY <2>1, OwnSets DEF Moves, AfterLedger, AfterLock, ReleaseSteps, Operations, LockedOperations, LockSteps
    <3>2. InsertConfirmation(c)
      BY <1>3, <3>1, OwnStatement, EndFrame
      DEF Abandon, DuplicateConfirmationThrows, BaseInv, TypeInv, HandlersInv
    <3>3. call[c].operation = "confirm" /\ r \in Requests
      BY <2>1, <3>1 DEF PreparationOwn
    <3>4. confirmation'[r] = "current"
      BY <2>1, <3>2, <3>3 DEF InsertConfirmation, BaseInv, TypeInv, TablesOK
    <3> QED
      BY <2>4, <3>3, <3>4 DEF Prepared
  <2>6. ASSUME call[c].operation = "execute"
        PROVE  /\ seen'[c].state = "confirmed" => Prepared(r)'
               /\ pc'[c] \notin UncheckedSteps => seen'[c].state = "confirmed"
    <3>1. CASE pc[c] = "read_request"
      <4>1. seen'[c] = requests[r] /\ pc'[c] = "read_ledger" /\ r \in Requests
        BY <1>1, <1>3, <2>1, <2>6, <3>1, OwnSets DEF Moves, LockedSteps
      <4> QED
        BY <2>2, <4>1, OwnSets DEF PreparedInv, RowPrepared, UncheckedSteps
    <3>2. CASE pc[c] # "read_request"
      <4>1. seen'[c] = seen[c] /\ r \in Requests
        BY <1>1, <1>3, <2>1, <2>6, <3>2
      <4>2. pc'[c] \notin UncheckedSteps => pc[c] \notin UncheckedSteps \/ seen[c].state = "confirmed"
        BY <1>1, <2>1, <2>6, OwnSets DEF Moves, UncheckedSteps, AfterLedger, LockedSteps
      <4>3. /\ seen[c].state = "confirmed" => Prepared(r)
            /\ pc[c] \notin UncheckedSteps => seen[c].state = "confirmed"
        BY <1>1, <2>1, <2>6, <3>2 DEF HandlerPrepared
      <4> QED
        BY <2>2, <4>1, <4>2, <4>3
    <3> QED
      BY <3>1, <3>2
  <2> QED
    BY <2>1, <2>3, <2>4, <2>5, <2>6 DEF HandlerPrepared, Planned, Prepared
<1> QED
  BY <1>2, <1>3

LEMMA PreparedStep == BaseInv /\ PreparedInv /\ [Next]_vars => PreparedInv'
<1> SUFFICES ASSUME BaseInv, PreparedInv, [Next]_vars PROVE PreparedInv'
  OBVIOUS
<1>1. ASSUME NEW c \in Calls, Step(c) \/ Abandon(c) \/ FailInsideTry(c)
      PROVE  PreparedInv'
  <2>1. PreparationKept /\ OtherHandlersStay(c)
    BY <1>1, KeepsPreparation, HandlerMoves DEF BaseInv
  <2>2. \A d \in Calls \ {c} : HandlerPrepared(d)'
    BY <2>1, OthersPrepared DEF OtherHandlersStay
  <2>3. HandlerPrepared(c)'
    BY <1>1, <2>1, MoverPrepared
  <2>4. \A r \in Requests : RowPrepared(r)'
    BY <1>1, <2>1, RowsPrepared
  <2> QED
    BY <2>2, <2>3, <2>4 DEF PreparedInv
<1>2. ASSUME NEW c \in Calls, Begin(c)
      PROVE  PreparedInv'
  <2>1. /\ OtherHandlersStay(c) /\ UNCHANGED <<requests, confirmation, executions>> /\ Begun(c)
    BY <1>2, BeginFacts DEF BaseInv
  <2>2. PreparationKept
    BY <2>1 DEF PreparationKept, Prepared, Planned
  <2>3. \A d \in Calls \ {c} : HandlerPrepared(d)'
    BY <2>1, <2>2, OthersPrepared DEF OtherHandlersStay
  <2>4. \A r \in Requests : RowPrepared(r)'
    BY <2>1 DEF PreparedInv, RowPrepared, Prepared, Planned
  <2>5. HandlerPrepared(c)'
    BY <2>1, OwnSets DEF Begun, HandlerPrepared, UncheckedSteps, PreparedInv, RowPrepared, Planned
  <2> QED
    BY <2>3, <2>4, <2>5 DEF PreparedInv
<1>3. CASE Environment
  <2>1. PreparationKept /\ UNCHANGED <<pc, call, executions>>
    BY <1>3, EnvironmentRows DEF BaseInv, PreparationKept, Prepared, Planned, PlanAllows
  <2>2. \A d \in Calls : seen'[d].state = seen[d].state
    BY <1>3, EnvironmentRows DEF BaseInv
  <2>3. \A d \in Calls : HandlerPrepared(d)'
    BY <2>1, <2>2, OthersPrepared
  <2>4. \A r \in Requests : requests'[r].state = requests[r].state
    BY <1>3, EnvironmentRows DEF BaseInv
  <2>5. \A r \in Requests : RowPrepared(r)'
    BY <2>1, <2>4 DEF PreparedInv, RowPrepared, PreparationKept
  <2> QED
    BY <2>3, <2>5 DEF PreparedInv
<1>4. CASE UNCHANGED vars
  BY <1>4 DEF vars, tables, world, PreparedInv, RowPrepared, HandlerPrepared, Planned, Prepared
<1> QED
  BY <1>1, <1>2, <1>3, <1>4 DEF Next

\* From an empty table of requests on, nothing is executed without a dry run
\* that found a rollback plan where one is asked for, and a confirmation.
THEOREM ExecutionsWerePrepared ==
    ASSUME StartConfirmed = {}
    PROVE  Spec => []ExecutionWasPrepared
<1>1. Init => PreparedInv
  BY DEF Init, NoRow, PreparedInv, RowPrepared, HandlerPrepared
<1>2. PreparedInv => ExecutionWasPrepared
  BY DEF PreparedInv, RowPrepared, Prepared, Planned, PlanAllows, ExecutionWasPrepared
<1> QED
  BY <1>1, <1>2, BaseInit, BaseStep, PreparedStep, PTL DEF Spec

-------------------------------------------------------------------------------
\* Rollbacks.  A key of a rollback passes the ledger once, so that the row
\* under it is written by one handler and stays when this handler is gone.

RollsBack(c) == call[c].operation = "rollback" /\ pc[c] \notin EarlySteps

Unfinished ==
    {"write_rollback_requested", "acquire_lock", "inspect_lock", "recover_lock",
     "insert_rollback", "invoke_rollback", "update_rollback"}

RollbackTraced(c) ==
    RollsBack(c) =>
        /\ ledger[<<"rollback", call[c].key>>].present
        /\ ledger[<<"rollback", call[c].key>>].hash.request = call[c].request
        /\ pc[c] \in Unfinished => rollbacks[call[c].key] \notin RollbackResults
        /\ pc[c] = "write_rollback_result" => rollbacks[call[c].key] = RollbackResult(seen[c].body)

RollbackInv ==
    /\ \A k \in Keys : ~ledger[<<"rollback", k>>].present => rollbacks[k] = "none"
    /\ \A c \in Calls : RollbackTraced(c)
    /\ \A c, d \in Calls : RollsBack(c) /\ RollsBack(d) /\ call[c].key = call[d].key => c = d
    /\ RollbackIsRecorded

\* What a handler step does to the rollback rows: only its own, unless done.
LEMMA RollbackWrites ==
    ASSUME BaseInv, NEW c \in Calls, Step(c) \/ Abandon(c) \/ FailInsideTry(c), NEW k \in Keys
    PROVE  \/ rollbacks'[k] = rollbacks[k]
           \/ /\ RollsBack(c) /\ k = call[c].key
              /\ \/ pc[c] = "insert_rollback" /\ rollbacks'[k] = "started"
                 \/ pc[c] = "update_rollback" /\ rollbacks'[k] = RollbackResult(seen[c].body)
<1>1. pc[c] \in {"insert_rollback", "update_rollback"} => RollsBack(c)
  BY OwnSets DEF BaseInv, ControlInv, OwnSteps, RollsBack
<1>2. rollbacks \in [Keys -> {"none", "started"} \cup RollbackResults]
  BY DEF BaseInv, TypeInv, TablesOK
<1> QED
  BY <1>1, <1>2, TableEffects DEF InsertRollback, UpdateRollback

\* Where a rollback that is under way comes from.
LEMMA RollbackMoves ==
    ASSUME BaseInv, NEW c \in Calls, Step(c) \/ Abandon(c) \/ FailInsideTry(c), RollsBack(c)'
    PROVE  /\ call'[c] = call[c] /\ seen'[c] = seen[c]
           /\ call[c].operation = "rollback" /\ call[c].key \in Keys /\ LedgerKey(c) = <<"rollback", call[c].key>>
           /\ \/ RollsBack(c) /\ (pc'[c] \in Unfinished => pc[c] \in Unfinished \ {"update_rollback"})
              \/ /\ pc[c] = "insert_ledger" /\ pc'[c] = "write_rollback_requested"
                 /\ ~ledger[LedgerKey(c)].present
           /\ pc'[c] = "write_rollback_result" => pc[c] = "update_rollback"
<1>1. /\ pc[c] # "idle" /\ pc'[c] # "idle"
      /\ Moves(c, pc[c], pc'[c])
      /\ call'[c] = call[c]
      /\ seen'[c] = IF pc[c] = "read_request" THEN requests[call[c].request] ELSE seen[c]
  BY HandlerMoves, OwnSets DEF BaseInv, RollsBack
<1>2. /\ call[c].operation = "rollback" /\ call[c].key \in Keys
      /\ PreparationOwn(c) /\ OwnSteps(c)
  BY <1>1 DEF RollsBack, BaseInv, ControlInv, TypeInv, HandlersInv
<1>3. pc[c] \notin {"read_request", "check_action", "dry_run", "clear_confirmations", "insert_confirmation",
                    "check_confirmation"}
      /\ pc[c] \notin ExecuteLockedSteps \cup CancelLockedSteps
  BY <1>2 DEF PreparationOwn, OwnSteps
<1>4. /\ AfterLedger[call[c].operation] = "write_rollback_requested"
      /\ AfterLock[call[c].operation] = "insert_rollback"
  BY <1>2 DEF AfterLedger, AfterLock
<1> QED
  BY <1>1, <1>2, <1>3, <1>4, OwnSets
  DEF Moves, RollsBack, Unfinished, LedgerKey, ReleaseSteps, LockedSteps

\* The insert that passes the ledger.
LEMMA InsertsLedger ==
    ASSUME BaseInv, NEW c \in Calls, Step(c) \/ Abandon(c) \/ FailInsideTry(c),
           pc[c] = "insert_ledger", pc'[c] # "idle", NEW k \in Keys, LedgerKey(c) = <<"rollback", k>>
    PROVE  /\ ledger'[<<"rollback", k>>].present
           /\ ledger'[<<"rollback", k>>].hash.request = call[c].request
<1>0. HandlersOK
  BY DEF BaseInv, TypeInv, HandlersInv
<1>1. InsertLedger(c)
  <2>1. CASE LedgerStep(c) \/ PreparationStep(c)
    BY <1>0, <2>1, EndFrame DEF LedgerStep, ReplayOrConflict, MissLedger, LoseLedgerRace,
       PreparationStep, InsertRequest, BlockWithoutRollbackPlan, BlockByGate, WriteDryRun,
       WriteConfirmationRequired, CheckAction, ClearConfirmations, InsertConfirmation,
       DuplicateConfirmationThrows, WriteConfirmed
  <2>2. ~(LockStep(c) \/ ExecuteStep(c))
    BY DEF LockStep, LockKeyConflict, InsertLock, MissLock, InspectLock, RecoverLock,
       RecoverNothing, ReleaseLock, ReleaseSteps, ExecuteStep, ReadRequest, CheckConfirmation,
       InsertAttempt, DuplicateAttemptThrows, WriteQueued, WriteStarted, InvokeExecute, UpdateAttempt,
       WriteResult, CompleteExecute
  <2>3. ~(CancelStep(c) \/ RollbackStep(c))
    BY DEF CancelStep, WriteCancelRequested, RefuseCancel, InvokeCancel, WriteCancelled, CompleteCancel,
       RollbackStep, WriteRollbackRequested, InsertRollback, InvokeRollback, UpdateRollback,
       WriteRollbackResult, CompleteRollback
  <2>4. ~Abandon(c)
    BY <1>0, EndFrame DEF Abandon
  <2>5. ~FailInsideTry(c)
    BY DEF FailInsideTry, LockedSteps, ExecuteLockedSteps, CancelLockedSteps, RollbackLockedSteps
  <2> QED
    BY <2>1, <2>2, <2>3, <2>4, <2>5 DEF Step
<1>2. <<"rollback", k>> \in LedgerIndex
  BY DEF LedgerIndex, Operations, LockedOperations
<1> QED
  BY <1>1, <1>2 DEF InsertLedger, RequestHash, BaseInv, TypeInv, TablesOK, LedgerRecord

\* A handler step keeps the keys apart and their rows with them.
LEMMA RollbackHandlerStep ==
    ASSUME BaseInv, RollbackInv, NEW c \in Calls, Step(c) \/ Abandon(c) \/ FailInsideTry(c)
    PROVE  RollbackInv'
<1>1. OtherHandlersStay(c) /\ LedgerGrows(c)
  BY HandlerMoves, LedgerEffects DEF BaseInv
<1>2. ASSUME NEW k \in Keys, ledger[<<"rollback", k>>].present
      PROVE  /\ ledger'[<<"rollback", k>>].present
             /\ ledger'[<<"rollback", k>>].hash = ledger[<<"rollback", k>>].hash
  BY <1>1, <1>2 DEF LedgerGrows, BaseInv, TypeInv, TablesOK
<1>3. ASSUME NEW d \in Calls, RollsBack(d)
      PROVE  /\ call[d].key \in Keys
             /\ ledger[<<"rollback", call[d].key>>].present
             /\ ledger[<<"rollback", call[d].key>>].hash.request = call[d].request
  BY <1>3, OwnSets DEF RollsBack, RollbackInv, RollbackTraced, BaseInv, TypeInv, HandlersInv
<1>4. ASSUME NEW d \in Calls, d # c, RollsBack(d)'
      PROVE  /\ pc'[d] = pc[d] /\ call'[d] = call[d] /\ seen'[d] = seen[d]
             /\ RollsBack(d)
             /\ rollbacks'[call[d].key] = rollbacks[call[d].key]
  <2>1. pc'[d] = pc[d] /\ call'[d] = call[d] /\ seen'[d] = seen[d] /\ RollsBack(d)
    BY <1>1, <1>4 DEF OtherHandlersStay, RollsBack
  <2>2. call[d].key \in Keys /\ ~(RollsBack(c) /\ call[d].key = call[c].key)
    BY <1>3, <1>4, <2>1 DEF RollbackInv
  <2> QED
    BY <2>1, <2>2, RollbackWrites
<1>5. ASSUME NEW k \in Keys, ~ledger'[<<"rollback", k>>].present
      PROVE  rollbacks'[k] = "none"
  <2>1. ~ledger[<<"rollback", k>>].present
    BY <1>2, <1>5
  <2> QED
    BY <1>3, <2>1, RollbackWrites DEF RollbackInv
<1>6. ASSUME NEW d \in Calls, d # c
      PROVE  RollbackTraced(d)'
  <2> SUFFICES ASSUME RollsBack(d)' PROVE RollbackTraced(d)'
    BY DEF RollbackTraced
  <2> QED
    BY <1>2, <1>3, <1>4, <1>6 DEF RollbackTraced, RollbackInv, RollbackResult
<1>7. RollbackTraced(c)'
  <2> SUFFICES ASSUME RollsBack(c)' PROVE RollbackTraced(c)'
    BY DEF RollbackTraced
  <2> PICK k : k = call[c].key
    OBVIOUS
  <2>1. /\ call'[c] = call[c] /\ seen'[c] = seen[c] /\ k \in Keys /\ call'[c].key = k
        /\ LedgerKey(c) = <<"rollback", k>>
        /\ \/ RollsBack(c) /\ (pc'[c] \in Unfinished => pc[c] \in Unfinished \ {"update_rollback"})
           \/ /\ pc[c] = "insert_ledger" /\ pc'[c] = "write_rollback_requested"
              /\ ~ledger[LedgerKey(c)].present
        /\ pc'[c] = "write_rollback_result" => pc[c] = "update_rollback"
    BY RollbackMoves
  <2>2. CASE RollsBack(c) /\ (pc'[c] \in Unfinished => pc[c] \in Unfinished \ {"update_rollback"})
    <3>1. /\ ledger'[<<"rollback", k>>].present
          /\ ledger'[<<"rollback", k>>].hash.request = call[c].request
      BY <1>2, <1>3, <2>1, <2>2
    <3>2. pc'[c] \in Unfinished => rollbacks'[k] \notin RollbackResults
      <4>1. pc'[c] \in Unfinished => rollbacks[k] \notin RollbackResults /\ pc[c] # "update_rollback"
        BY <2>1, <2>2 DEF RollbackInv, RollbackTraced
      <4> QED
        BY <2>1, <4>1, RollbackWrites DEF RollbackResults
    <3>3. pc'[c] = "write_rollback_result" => rollbacks'[k] = RollbackResult(seen[c].body)
      BY <2>1, <2>2, OwnStatement DEF UpdateRollback, BaseInv, TypeInv, TablesOK
    <3> QED
      BY <2>1, <3>1, <3>2, <3>3 DEF RollbackTraced, RollbackResult
  <2>3. CASE /\ pc[c] = "insert_ledger" /\ pc'[c] = "write_rollback_requested"
             /\ ~ledger[LedgerKey(c)].present
    <3>1. rollbacks'[k] = "none"
      <4>1. rollbacks[k] = "none" /\ ~RollsBack(c)
        BY <2>1, <2>3, OwnSets DEF RollbackInv, RollsBack
      <4> QED
        BY <2>1, <4>1, RollbackWrites
    <3>2. /\ ledger'[<<"rollback", k>>].present
          /\ ledger'[<<"rollback", k>>].hash.request = call[c].request
      BY <2>1, <2>3, InsertsLedger
    <3> QED
      BY <2>1, <2>3, <3>1, <3>2 DEF RollbackTraced, RollbackResults
  <2> QED
    BY <2>1, <2>2, <2>3
<1>8. ASSUME NEW d \in Calls, NEW e \in Calls, RollsBack(d)', RollsBack(e)', call'[d].key = call'[e].key
      PROVE  d = e
  <2>1. ASSUME NEW f \in Calls, f # c, RollsBack(f)', RollsBack(c)', call'[f].key = call'[c].key
        PROVE  FALSE
    <3>1. /\ RollsBack(f) /\ call'[f] = call[f] /\ call'[c] = call[c]
          /\ ledger[<<"rollback", call[c].key>>].present
      BY <1>3, <1>4, <2>1, RollbackMoves
    <3>2. RollsBack(c)
      BY <2>1, <3>1, RollbackMoves
    <3> QED
      BY <2>1, <3>1, <3>2 DEF RollbackInv
  <2>2. CASE d # c /\ e # c
    BY <1>4, <1>8, <2>2 DEF RollbackInv
  <2> QED
    BY <1>8, <2>1, <2>2
<1>9. RollbackIsRecorded'
  <2> SUFFICES ASSUME NEW r \in Requests, requests'[r].state \in RollbackResults
               PROVE  \E k \in Keys : /\ rollbacks'[k] = requests'[r].state
                                      /\ ledger'[<<"rollback", k>>].hash.request = r
    BY DEF RollbackIsRecorded
  <2>1. CASE requests'[r].state = requests[r].state
    <3>1. PICK k \in Keys : rollbacks[k] = requests[r].state /\ ledger[<<"rollback", k>>].hash.request = r
      BY <2>1 DEF RollbackInv, RollbackIsRecorded
    <3>2. ledger'[<<"rollback", k>>].hash.request = r
      BY <1>2, <2>1, <3>1 DEF RollbackInv, RollbackResults
    <3>3. rollbacks'[k] = rollbacks[k]
      BY <2>1, <3>1, RollbackWrites DEF RollbackInv, RollbackTraced, Unfinished
    <3> QED
      BY <2>1, <3>1, <3>2, <3>3
  <2>2. CASE r = call[c].request /\ StateWritten(c, requests'[r].state)
    <3>1. pc[c] = "write_rollback_result" /\ requests'[r].state = RollbackResult(seen[c].body)
      <4>1. seen[c].body \in Body
        BY DEF BaseInv, TypeInv, HandlersInv, HandlersOK, Row
      <4> QED
        BY <2>2, <4>1, ResultTypes DEF StateWritten, ExecutionResults, RollbackResults
    <3>2. RollsBack(c)
      BY <3>1, OwnSets DEF BaseInv, ControlInv, OwnSteps, RollsBack
    <3>3. call[c].key \in Keys /\ rollbacks[call[c].key] = requests'[r].state
      BY <1>3, <3>1, <3>2 DEF RollbackInv, RollbackTraced
    <3>4. rollbacks'[call[c].key] = rollbacks[call[c].key]
      BY <3>1, <3>3, RollbackWrites
    <3>5. ledger'[<<"rollback", call[c].key>>].hash.request = r
      BY <1>2, <1>3, <2>2, <3>2
    <3> QED
      BY <3>3, <3>4, <3>5
  <2> QED
    BY <2>1, <2>2, StateEffects DEF RollbackResults
<1> QED
  BY <1>5, <1>6, <1>7, <1>8, <1>9 DEF RollbackInv

LEMMA RollbackInvStep == BaseInv /\ RollbackInv /\ [Next]_vars => RollbackInv'
<1> SUFFICES ASSUME BaseInv, RollbackInv, [Next]_vars PROVE RollbackInv'
  OBVIOUS
<1>1. ASSUME NEW c \in Calls, Begin(c)
      PROVE  RollbackInv'
  <2>1. OtherHandlersStay(c) /\ UNCHANGED <<requests, ledger, rollbacks>> /\ pc[c] = "idle" /\ Begun(c)
    BY <1>1, BeginFacts DEF BaseInv
  <2>2. ~RollsBack(c)'
    BY <2>1, OwnSets DEF Begun, RollsBack
  <2>3. ASSUME NEW d \in Calls, RollsBack(d)'
        PROVE  pc'[d] = pc[d] /\ call'[d] = call[d] /\ seen'[d] = seen[d] /\ RollsBack(d)
    BY <2>1, <2>2, <2>3 DEF OtherHandlersStay, RollsBack
  <2>4. \A d \in Calls : RollbackTraced(d)'
    BY <2>1, <2>3 DEF RollbackInv, RollbackTraced, RollbackResult
  <2>5. \A d, e \in Calls : RollsBack(d)' /\ RollsBack(e)' /\ call'[d].key = call'[e].key => d = e
    BY <2>3 DEF RollbackInv
  <2>6. RollbackIsRecorded'
    BY <2>1 DEF RollbackInv, RollbackIsRecorded
  <2>7. \A k \in Keys : ~ledger'[<<"rollback", k>>].present => rollbacks'[k] = "none"
    BY <2>1 DEF RollbackInv
  <2> QED
    BY <2>4, <2>5, <2>6, <2>7 DEF RollbackInv
<1>2. CASE Environment
  <2>1. /\ UNCHANGED <<pc, call, rollbacks, ledger>>
        /\ \A r \in Requests : requests'[r].state = requests[r].state
        /\ \A d \in Calls : seen'[d].body = seen[d].body
    BY <1>2, EnvironmentRows DEF BaseInv
  <2> QED
    BY <2>1 DEF RollbackInv, RollbackTraced, RollsBack, RollbackResult, RollbackIsRecorded
<1>3. CASE UNCHANGED vars
  BY <1>3 DEF vars, tables, RollbackInv, RollbackTraced, RollsBack, RollbackResult, RollbackIsRecorded
<1> QED
  BY <1>1, <1>2, <1>3, RollbackHandlerStep DEF Next

\* A rollback result in the request row is the outcome of a rollback of it.
THEOREM RollbacksAreRecorded == Spec => []RollbackIsRecorded
<1>1. Init => RollbackInv
  BY OwnSets DEF Init, NoRow, NoCall, RollbackInv, RollbackTraced, RollsBack, RollbackIsRecorded, RollbackResults
<1>2. RollbackInv => RollbackIsRecorded
  BY DEF RollbackInv
<1> QED
  BY <1>1, <1>2, BaseInit, BaseStep, RollbackInvStep, PTL DEF Spec

===============================================================================
