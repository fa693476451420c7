------------------------ MODULE ExecutionBoundaryProofs ------------------------
(***************************************************************************)
(* What TLAPS proves of ExecutionBoundary, for any number of handlers,     *)
(* requests and keys.  The invariants below talk about handlers only       *)
(* through the step they are at, so that each proof is a walk over the     *)
(* actions.                                                                *)
(***************************************************************************)
EXTENDS ExecutionBoundary, TLAPS

\* The steps that only the operations that run under the lock come to.
LockSteps ==
    {"read_request", "check_confirmation", "write_rollback_requested",
     "acquire_lock", "inspect_lock", "recover_lock"}
    \cup LockedSteps \cup ReleaseSteps

LEMMA StepSets ==
    /\ LockSteps =
          {"read_request", "check_confirmation", "write_rollback_requested",
           "acquire_lock", "inspect_lock", "recover_lock",
           "insert_attempt", "write_queued", "write_started", "invoke_execute",
           "update_attempt", "write_result", "complete_execute",
           "write_cancel_requested", "invoke_cancel", "write_cancelled", "complete_cancel",
           "insert_rollback", "invoke_rollback", "update_rollback", "write_rollback_result",
           "complete_rollback", "release_ok", "release_failed"}
    /\ HandlerSteps =
          LockSteps \cup {"idle", "read_ledger", "insert_ledger", "insert_request", "dry_run",
           "write_confirmation_required", "check_action", "clear_confirmations",
           "insert_confirmation", "write_confirmed"}
BY DEF LockSteps, HandlerSteps, LockedSteps, ExecuteLockedSteps, CancelLockedSteps,
     RollbackLockedSteps, ReleaseSteps

\* A handler that is not idle works on one of the operations, under one of the
\* keys, and on one of the requests unless it creates it.
HandlersInv ==
    /\ HandlersOK
    /\ \A c \in Calls : pc[c] # "idle" =>
          /\ call[c].operation \in Operations
          /\ call[c].key \in Keys
          /\ call[c].operation # "request" => call[c].request \in Requests
    /\ \A c \in Calls : pc[c] \in LockSteps => call[c].operation \in LockedOperations

TypeInv == TablesOK /\ WorldOK /\ HandlersInv

LEMMA ResultTypes ==
    ASSUME NEW body \in Body
    PROVE  /\ ExecutionResult(body) \in ExecutionResults
           /\ RollbackResult(body) \in RollbackResults
BY DEF ExecutionResult, ResultOfMode, Body, Modes, RollbackResult, ExecutionResults, RollbackResults

LEMMA EmptyRecords ==
    /\ NoRow \in Row
    /\ NoCall \in CallRecord
    /\ NoRecord \in LedgerRecord
<1>1. NoBody \in Body
  BY DEF NoBody, Body, Modes
<1>2. NoRow \in Row
  BY <1>1 DEF NoRow, Row
<1>3. NoCall \in CallRecord
  BY DEF NoCall, CallRecord
<1>4. NoRecord \in LedgerRecord
  BY <1>2 DEF NoRecord, NoHash, LedgerRecord, StoredResults
<1> QED
  BY <1>2, <1>3, <1>4

LEMMA TypeInit == Init => TypeInv
<1> SUFFICES ASSUME Init PROVE TypeInv
  OBVIOUS
<1> USE EmptyRecords DEF Init
<1>1. requests \in [Requests -> Row]
  <2>1. PICK body \in [Requests -> Bodies] :
          requests = [r \in Requests |->
              IF r \in StartConfirmed
              THEN [state |-> "confirmed", body |-> body[r], actionHash |-> 0, dryRun |-> "fresh"]
              ELSE NoRow]
    OBVIOUS
  <2>2. \A r \in Requests :
          [state |-> "confirmed", body |-> body[r], actionHash |-> 0, dryRun |-> "fresh"] \in Row
    BY ConstantsAssumption DEF Row, ExecutionStates
  <2> QED
    BY <2>1, <2>2
<1>2. TablesOK
  BY <1>1 DEF TablesOK
<1>3. WorldOK
  BY DEF WorldOK
<1>4. HandlersInv
  BY StepSets DEF HandlersInv, HandlersOK
<1> QED
  BY <1>2, <1>3, <1>4 DEF TypeInv

\* What ends, or goes on, keeps the handlers in order.
LEMMA EndHandlers ==
    ASSUME HandlersInv, NEW c \in Calls, End(c)
    PROVE  HandlersInv'
BY EmptyRecords, StepSets DEF HandlersInv, HandlersOK, End

LEMMA ContinueHandlers ==
    ASSUME HandlersInv, NEW c \in Calls, NEW step \in HandlerSteps, pc[c] # "idle",
           step \in LockSteps => call[c].operation \in LockedOperations,
           Continue(c, step)
    PROVE  HandlersInv'
BY DEF HandlersInv, HandlersOK, Continue, Goto

LEMMA LockHandlers ==
    ASSUME HandlersInv, NEW c \in Calls, NEW step \in LockSteps, pc[c] \in LockSteps,
           Continue(c, step)
    PROVE  HandlersInv'
<1>1. step \in HandlerSteps /\ pc[c] # "idle"
  BY DEF LockSteps, HandlerSteps, LockedSteps, ExecuteLockedSteps, CancelLockedSteps,
       RollbackLockedSteps, ReleaseSteps
<1> QED
  BY <1>1, ContinueHandlers DEF HandlersInv

LEMMA ArriveHandlers ==
    ASSUME HandlersInv, NEW c \in Calls,
           NEW op \in Operations, NEW key \in Keys, NEW r \in Requests \cup {NoRequest},
           op # "request" => r \in Requests,
           NEW row \in Row, NEW step \in HandlerSteps,
           step \in LockSteps => op \in LockedOperations,
           action.hash \in Nat, Arrive(c, op, key, r, row, step)
    PROVE  HandlersInv'
BY DEF HandlersInv, HandlersOK, Arrive, CallRecord

\* An UPDATE of a request's state leaves the row a row.
LEMMA UpdateType ==
    ASSUME requests \in [Requests -> Row], NEW r, NEW state \in ExecutionStates,
           UpdateRequestState(r, state)
    PROVE  requests' \in [Requests -> Row]
BY DEF UpdateRequestState, Row

\* So does one that writes the outcome of a dry run as well.
LEMMA UpdateDryRunType ==
    ASSUME requests \in [Requests -> Row], NEW r,
           NEW state \in ExecutionStates, NEW dryRun \in {"none", "fresh", "expired"},
           requests' = [requests EXCEPT ![r].state = state, ![r].dryRun = dryRun]
    PROVE  requests' \in [Requests -> Row]
<1>1. CASE r \notin Requests
  BY <1>1
<1>2. CASE r \in Requests
  <2>1. requests[r] \in Row
    BY <1>2
  <2>2. [[requests[r] EXCEPT !.state = state] EXCEPT !.dryRun = dryRun] \in Row
    BY <2>1 DEF Row
  <2>3. requests' = [requests EXCEPT ![r] = [[requests[r] EXCEPT !.state = state] EXCEPT !.dryRun = dryRun]]
    BY <1>2
  <2> QED
    BY <1>2, <2>2, <2>3
<1> QED
  BY <1>1, <1>2

-------------------------------------------------------------------------------
\* One lemma per group of actions: each step keeps the type invariant.

LEMMA LedgerStepType ==
    ASSUME TypeInv, NEW c \in Calls, LedgerStep(c)
    PROVE  TypeInv'
<1> USE DEF TypeInv
<1>1. pc[c] # "idle" => <<call[c].operation, call[c].key>> \in LedgerIndex /\ call[c] \in CallRecord
  BY DEF HandlersInv, HandlersOK, LedgerIndex
<1>2. CASE ReplayOrConflict(c)
  <2>1. HandlersInv'
    BY <1>2, EndHandlers DEF ReplayOrConflict
  <2>2. ReplayedAnswers(c) \subseteq AnswerRecord
    BY <1>1, <1>2 DEF ReplayOrConflict, ReplayedAnswers, LedgerKey, AnswerRecord, HandlersInv, TablesOK,
         LedgerRecord, CallRecord, StoredResults, ExecutionResults
  <2>3. WorldOK'
    BY <1>2, <2>2 DEF ReplayOrConflict, WorldOK
  <2>4. TablesOK'
    BY <1>2 DEF ReplayOrConflict, tables, TablesOK
  <2> QED
    BY <2>1, <2>3, <2>4
<1>3. CASE MissLedger(c)
  <2>1. HandlersInv'
    BY <1>3, ContinueHandlers, StepSets DEF MissLedger
  <2> QED
    BY <1>3, <2>1 DEF MissLedger, tables, world, TablesOK, WorldOK
<1>4. CASE InsertLedger(c)
  <2>1. /\ AfterLedger[call[c].operation] \in HandlerSteps
        /\ AfterLedger[call[c].operation] \in LockSteps => call[c].operation \in LockedOperations
    BY <1>4, StepSets DEF InsertLedger, HandlersInv, Operations, LockedOperations, AfterLedger
  <2>2. HandlersInv'
    BY <1>4, <2>1, ContinueHandlers DEF InsertLedger
  <2>3. [present |-> TRUE, hash |-> RequestHash(c), stored |-> "none"] \in LedgerRecord
    BY EmptyRecords DEF RequestHash, LedgerRecord, StoredResults, HandlersInv, HandlersOK, CallRecord
  <2>4. ledger' \in [LedgerIndex -> LedgerRecord]
    BY <1>4, <2>3 DEF InsertLedger, TablesOK
  <2> QED
    BY <1>4, <2>2, <2>4 DEF InsertLedger, world, TablesOK, WorldOK
<1>5. CASE LoseLedgerRace(c)
  BY <1>5, EndHandlers DEF LoseLedgerRace, tables, world, TablesOK, WorldOK
<1> QED
  BY <1>2, <1>3, <1>4, <1>5 DEF LedgerStep

LEMMA PreparationStepType ==
    ASSUME TypeInv, NEW c \in Calls, PreparationStep(c)
    PROVE  TypeInv'
<1> USE DEF TypeInv
<1>1. CASE InsertRequest(c)
  <2>1. HandlersInv'
    BY <1>1, EndHandlers DEF InsertRequest
  <2>2. requests' \in [Requests -> Row]
    BY <1>1 DEF InsertRequest, TablesOK, HandlersInv, HandlersOK, Row, ExecutionStates
  <2> QED
    BY <1>1, <2>1, <2>2 DEF InsertRequest, world, TablesOK, WorldOK
<1>2. CASE BlockWithoutRollbackPlan(c)
  <2>1. HandlersInv'
    BY <1>2, EndHandlers DEF BlockWithoutRollbackPlan
  <2>2. requests' \in [Requests -> Row]
    BY <1>2, UpdateDryRunType DEF BlockWithoutRollbackPlan, TablesOK, ExecutionStates
  <2> QED
    BY <1>2, <2>1, <2>2 DEF BlockWithoutRollbackPlan, world, TablesOK, WorldOK
<1>3. CASE BlockByGate(c)
  <2>1. HandlersInv'
    BY <1>3, EndHandlers DEF BlockByGate
  <2>2. requests' \in [Requests -> Row]
    BY <1>3, UpdateType DEF BlockByGate, TablesOK, ExecutionStates
  <2> QED
    BY <1>3, <2>1, <2>2 DEF BlockByGate, world, TablesOK, WorldOK
<1>4. CASE WriteDryRun(c)
  <2>1. HandlersInv'
    BY <1>4, ContinueHandlers, StepSets DEF WriteDryRun
  <2>2. requests' \in [Requests -> Row]
    BY <1>4, UpdateDryRunType DEF WriteDryRun, TablesOK, ExecutionStates
  <2> QED
    BY <1>4, <2>1, <2>2 DEF WriteDryRun, world, TablesOK, WorldOK
<1>5. CASE WriteConfirmationRequired(c)
  <2>1. HandlersInv'
    BY <1>5, EndHandlers DEF WriteConfirmationRequired
  <2>2. requests' \in [Requests -> Row]
    BY <1>5, UpdateType DEF WriteConfirmationRequired, TablesOK, ExecutionStates
  <2> QED
    BY <1>5, <2>1, <2>2 DEF WriteConfirmationRequired, world, TablesOK, WorldOK
<1>6. CASE CheckAction(c)
  <2>1. HandlersInv'
    BY <1>6, EndHandlers, ContinueHandlers, StepSets DEF CheckAction, LockedOperations
  <2> QED
    BY <1>6, <2>1 DEF CheckAction, tables, world, TablesOK, WorldOK
<1>7. CASE ClearConfirmations(c)
  <2>1. HandlersInv'
    BY <1>7, ContinueHandlers, StepSets DEF ClearConfirmations
  <2> QED
    BY <1>7, <2>1 DEF ClearConfirmations, tables, world, TablesOK, WorldOK
<1>8. CASE InsertConfirmation(c)
  <2>1. HandlersInv'
    BY <1>8, ContinueHandlers, StepSets DEF InsertConfirmation
  <2> QED
    BY <1>8, <2>1 DEF InsertConfirmation, tables, world, TablesOK, WorldOK
<1>9. CASE DuplicateConfirmationThrows(c)
  <2>1. HandlersInv'
    BY <1>9, EndHandlers DEF DuplicateConfirmationThrows
  <2> QED
    BY <1>9, <2>1 DEF DuplicateConfirmationThrows, tables, world, TablesOK, WorldOK
<1>10. CASE WriteConfirmed(c)
  <2>1. HandlersInv'
    BY <1>10, EndHandlers DEF WriteConfirmed
  <2>2. requests' \in [Requests -> Row]
    BY <1>10, UpdateType DEF WriteConfirmed, TablesOK, ExecutionStates
  <2> QED
    BY <1>10, <2>1, <2>2 DEF WriteConfirmed, world, TablesOK, WorldOK
<1> QED
  BY <1>1, <1>2, <1>3, <1>4, <1>5, <1>6, <1>7, <1>8, <1>9, <1>10 DEF PreparationStep

LEMMA LockStepType ==
    ASSUME TypeInv, NEW c \in Calls, LockStep(c)
    PROVE  TypeInv'
<1> USE DEF TypeInv
<1>1. ASSUME pc[c] \in LockSteps, EnterLock(c)
      PROVE  HandlersInv'
  <2>1. AfterLock[call[c].operation] \in LockSteps
    BY <1>1, StepSets DEF HandlersInv, LockedOperations, AfterLock
  <2> QED
    BY <1>1, <2>1, LockHandlers DEF EnterLock
<1>2. ASSUME RecordLockKey(c)
      PROVE  ledger' \in [LedgerIndex -> LedgerRecord]
  BY <1>2 DEF RecordLockKey, TablesOK, LedgerRecord
<1>3. CASE LockKeyConflict(c)
  <2>1. HandlersInv'
    BY <1>3, EndHandlers DEF LockKeyConflict
  <2> QED
    BY <1>3, <2>1 DEF LockKeyConflict, tables, world, TablesOK, WorldOK
<1>4. CASE InsertLock(c)
  BY <1>1, <1>2, <1>4, StepSets DEF InsertLock, world, TablesOK, WorldOK
<1>5. CASE MissLock(c)
  <2>1. HandlersInv'
    BY <1>5, StepSets, LockHandlers DEF MissLock
  <2> QED
    BY <1>2, <1>5, <2>1 DEF MissLock, world, TablesOK, WorldOK
<1>6. CASE InspectLock(c)
  <2>1. HandlersInv'
    BY <1>6, StepSets, EndHandlers, LockHandlers DEF InspectLock
  <2> QED
    BY <1>6, <2>1 DEF InspectLock, tables, world, TablesOK, WorldOK
<1>7. CASE RecoverLock(c)
  BY <1>1, <1>7, StepSets DEF RecoverLock, TablesOK, WorldOK
<1>8. CASE RecoverNothing(c)
  <2>1. HandlersInv'
    BY <1>8, EndHandlers DEF RecoverNothing
  <2> QED
    BY <1>8, <2>1 DEF RecoverNothing, tables, world, TablesOK, WorldOK
<1>9. CASE ReleaseLock(c)
  <2>1. HandlersInv'
    BY <1>9, EndHandlers DEF ReleaseLock
  <2>2. /\ call[c] \in CallRecord
        /\ call[c].operation \in Operations
        /\ <<call[c].operation, call[c].key>> \in LedgerIndex
    BY <1>9, StepSets DEF ReleaseLock, HandlersInv, HandlersOK, LedgerIndex, ReleaseSteps
  <2>3. [operation |-> call[c].operation, request |-> call[c].request,
         value |-> ledger[LedgerKey(c)].stored] \in AnswerRecord
    BY <2>2 DEF AnswerRecord, LedgerKey, CallRecord, TablesOK, LedgerRecord
  <2>4. told' \subseteq AnswerRecord
    BY <1>9, <2>3 DEF ReleaseLock, WorldOK
  <2> QED
    BY <1>9, <2>1, <2>4 DEF ReleaseLock, TablesOK, WorldOK
<1> QED
  BY <1>3, <1>4, <1>5, <1>6, <1>7, <1>8, <1>9 DEF LockStep

LEMMA ExecuteStepType ==
    ASSUME TypeInv, NEW c \in Calls, ExecuteStep(c)
    PROVE  TypeInv'
<1> USE DEF TypeInv
<1>0. seen[c].body \in Body
  BY DEF HandlersInv, HandlersOK, Row
<1>1. CASE ReadRequest(c)
  <2>1. requests[call[c].request] \in Row
    BY <1>1, StepSets DEF ReadRequest, TablesOK, HandlersInv, LockedOperations
  <2>2. HandlersInv'
    BY <1>1, <2>1, StepSets DEF ReadRequest, Goto, HandlersInv, HandlersOK
  <2> QED
    BY <1>1, <2>2 DEF ReadRequest, tables, world, TablesOK, WorldOK
<1>2. CASE CheckConfirmation(c)
  <2>1. HandlersInv'
    BY <1>2, StepSets, EndHandlers, LockHandlers DEF CheckConfirmation
  <2> QED
    BY <1>2, <2>1 DEF CheckConfirmation, tables, world, TablesOK, WorldOK
<1>3. CASE InsertAttempt(c)
  <2>1. HandlersInv'
    BY <1>3, StepSets, LockHandlers DEF InsertAttempt
  <2>2. attempts' \in [Requests -> {"none", "started"} \cup ExecutionResults]
    BY <1>3 DEF InsertAttempt, TablesOK
  <2> QED
    BY <1>3, <2>1, <2>2 DEF InsertAttempt, world, TablesOK, WorldOK
<1>4. CASE DuplicateAttemptThrows(c)
  <2>1. HandlersInv'
    BY <1>4, StepSets, LockHandlers DEF DuplicateAttemptThrows
  <2> QED
    BY <1>4, <2>1 DEF DuplicateAttemptThrows, tables, world, TablesOK, WorldOK
<1>5. CASE WriteQueued(c)
  <2>1. HandlersInv'
    BY <1>5, StepSets, LockHandlers DEF WriteQueued
  <2>2. requests' \in [Requests -> Row]
    BY <1>5, UpdateType DEF WriteQueued, TablesOK, ExecutionStates
  <2> QED
    BY <1>5, <2>1, <2>2 DEF WriteQueued, world, TablesOK, WorldOK
<1>6. CASE WriteStarted(c)
  <2>1. HandlersInv'
    BY <1>6, StepSets, LockHandlers DEF WriteStarted
  <2>2. requests' \in [Requests -> Row]
    BY <1>6, UpdateType DEF WriteStarted, TablesOK, ExecutionStates
  <2> QED
    BY <1>6, <2>1, <2>2 DEF WriteStarted, world, TablesOK, WorldOK
<1>7. CASE InvokeExecute(c)
  <2>1. HandlersInv'
    BY <1>7, StepSets, LockHandlers DEF InvokeExecute
  <2>2. executions' \in [Requests -> Nat]
    BY <1>7, StepSets DEF InvokeExecute, WorldOK, HandlersInv, LockedOperations
  <2> QED
    BY <1>7, <2>1, <2>2 DEF InvokeExecute, tables, TablesOK, WorldOK
<1>8. CASE UpdateAttempt(c)
  <2>1. HandlersInv'
    BY <1>8, StepSets, LockHandlers DEF UpdateAttempt
  <2>2. attempts' \in [Requests -> {"none", "started"} \cup ExecutionResults]
    BY <1>8, <1>0, ResultTypes DEF UpdateAttempt, TablesOK
  <2> QED
    BY <1>8, <2>1, <2>2 DEF UpdateAttempt, world, TablesOK, WorldOK
<1>9. CASE WriteResult(c)
  <2>1. HandlersInv'
    BY <1>9, StepSets, LockHandlers DEF WriteResult
  <2>2. requests' \in [Requests -> Row]
    BY <1>9, UpdateType, <1>0, ResultTypes DEF WriteResult, TablesOK, ExecutionStates
  <2> QED
    BY <1>9, <2>1, <2>2 DEF WriteResult, world, TablesOK, WorldOK
<1>10. CASE CompleteExecute(c)
  <2>1. HandlersInv'
    BY <1>10, StepSets, LockHandlers DEF CompleteExecute
  <2>2. ledger' \in [LedgerIndex -> LedgerRecord]
    BY <1>10, <1>0, ResultTypes DEF CompleteExecute, TablesOK, StoreResult, LedgerRecord, StoredResults
  <2> QED
    BY <1>10, <2>1, <2>2 DEF CompleteExecute, world, TablesOK, WorldOK
<1> QED
  BY <1>1, <1>2, <1>3, <1>4, <1>5, <1>6, <1>7, <1>8, <1>9, <1>10 DEF ExecuteStep

LEMMA CancelStepType ==
    ASSUME TypeInv, NEW c \in Calls, CancelStep(c)
    PROVE  TypeInv'
<1> USE DEF TypeInv
<1>1. CASE WriteCancelRequested(c)
  <2>1. HandlersInv'
    BY <1>1, StepSets, LockHandlers DEF WriteCancelRequested
  <2>2. requests' \in [Requests -> Row]
    BY <1>1, UpdateType DEF WriteCancelRequested, TablesOK, ExecutionStates
  <2> QED
    BY <1>1, <2>1, <2>2 DEF WriteCancelRequested, world, TablesOK, WorldOK
<1>2. CASE RefuseCancel(c)
  <2>1. HandlersInv'
    BY <1>2, StepSets, LockHandlers DEF RefuseCancel
  <2> QED
    BY <1>2, <2>1 DEF RefuseCancel, tables, world, TablesOK, WorldOK
<1>3. CASE InvokeCancel(c)
  <2>1. HandlersInv'
    BY <1>3, StepSets, LockHandlers DEF InvokeCancel
  <2> QED
    BY <1>3, <2>1 DEF InvokeCancel, tables, world, TablesOK, WorldOK
<1>4. CASE WriteCancelled(c)
  <2>1. HandlersInv'
    BY <1>4, StepSets, LockHandlers DEF WriteCancelled
  <2>2. requests' \in [Requests -> Row]
    BY <1>4, UpdateType DEF WriteCancelled, TablesOK, ExecutionStates, ExecutionResults
  <2> QED
    BY <1>4, <2>1, <2>2 DEF WriteCancelled, world, TablesOK, WorldOK
<1>5. CASE CompleteCancel(c)
  <2>1. HandlersInv'
    BY <1>5, StepSets, LockHandlers DEF CompleteCancel
  <2>2. ledger' \in [LedgerIndex -> LedgerRecord]
    BY <1>5 DEF CompleteCancel, TablesOK, StoreResult, LedgerRecord, StoredResults, ExecutionResults
  <2> QED
    BY <1>5, <2>1, <2>2 DEF CompleteCancel, world, TablesOK, WorldOK
<1> QED
  BY <1>1, <1>2, <1>3, <1>4, <1>5 DEF CancelStep

LEMMA RollbackStepType ==
    ASSUME TypeInv, NEW c \in Calls, RollbackStep(c)
    PROVE  TypeInv'
<1> USE DEF TypeInv
<1>0. seen[c].body \in Body
  BY DEF HandlersInv, HandlersOK, Row
<1>1. CASE WriteRollbackRequested(c)
  <2>1. HandlersInv'
    BY <1>1, StepSets, LockHandlers DEF WriteRollbackRequested
  <2>2. requests' \in [Requests -> Row]
    BY <1>1, UpdateType DEF WriteRollbackRequested, TablesOK, ExecutionStates
  <2> QED
    BY <1>1, <2>1, <2>2 DEF WriteRollbackRequested, world, TablesOK, WorldOK
<1>2. CASE InsertRollback(c)
  <2>1. HandlersInv'
    BY <1>2, StepSets, LockHandlers DEF InsertRollback
  <2>2. rollbacks' \in [Keys -> {"none", "started"} \cup RollbackResults]
    BY <1>2 DEF InsertRollback, TablesOK
  <2> QED
    BY <1>2, <2>1, <2>2 DEF InsertRollback, world, TablesOK, WorldOK
<1>3. CASE InvokeRollback(c)
  <2>1. HandlersInv'
    BY <1>3, StepSets, LockHandlers DEF InvokeRollback
  <2> QED
    BY <1>3, <2>1 DEF InvokeRollback, tables, world, TablesOK, WorldOK
<1>4. CASE UpdateRollback(c)
  <2>1. HandlersInv'
    BY <1>4, StepSets, LockHandlers DEF UpdateRollback
  <2>2. rollbacks' \in [Keys -> {"none", "started"} \cup RollbackResults]
    BY <1>4, <1>0, ResultTypes DEF UpdateRollback, TablesOK
  <2> QED
    BY <1>4, <2>1, <2>2 DEF UpdateRollback, world, TablesOK, WorldOK
<1>5. CASE WriteRollbackResult(c)
  <2>1. HandlersInv'
    BY <1>5, StepSets, LockHandlers DEF WriteRollbackResult
  <2>2. requests' \in [Requests -> Row]
    BY <1>5, UpdateType, <1>0, ResultTypes DEF WriteRollbackResult, TablesOK, ExecutionStates
  <2> QED
    BY <1>5, <2>1, <2>2 DEF WriteRollbackResult, world, TablesOK, WorldOK
<1>6. CASE CompleteRollback(c)
  <2>1. HandlersInv'
    BY <1>6, StepSets, LockHandlers DEF CompleteRollback
  <2>2. ledger' \in [LedgerIndex -> LedgerRecord]
    BY <1>6, <1>0, ResultTypes DEF CompleteRollback, TablesOK, StoreResult, LedgerRecord, StoredResults
  <2> QED
    BY <1>6, <2>1, <2>2 DEF CompleteRollback, world, TablesOK, WorldOK
<1> QED
  BY <1>1, <1>2, <1>3, <1>4, <1>5, <1>6 DEF RollbackStep

LEMMA BeginType ==
    ASSUME TypeInv, NEW c \in Calls, Begin(c)
    PROVE  TypeInv'
<1> USE DEF TypeInv
<1>1. action.hash \in Nat
  BY DEF TablesOK
<1>2. ASSUME NEW op \in Operations, NEW key \in Keys, NEW r \in Requests \cup {NoRequest},
             op # "request" => r \in Requests,
             NEW row \in Row, NEW step \in HandlerSteps,
             step \in LockSteps => op \in LockedOperations,
             Arrive(c, op, key, r, row, step)
      PROVE  TypeInv'
  <2>1. HandlersInv'
    BY <1>1, <1>2, ArriveHandlers
  <2> QED
    BY <1>2, <2>1 DEF Arrive, tables, world, TablesOK, WorldOK
<1>3. ASSUME NEW op \in DOMAIN KeysFor, NEW key \in KeysFor[op]
      PROVE  op \in Operations /\ key \in Keys
  BY <1>3, ConstantsAssumption DEF Keys
<1>4. ASSUME NEW r \in Requests
      PROVE  requests[r] \in Row
  BY <1>4 DEF TablesOK
<1>5. ASSUME NEW op \in DOMAIN KeysFor, NEW key \in KeysFor[op], NEW r \in Requests,
             \/ op = "dry_run" /\ BeginDryRun(c, key, r)
             \/ op = "confirm" /\ BeginConfirm(c, key, r)
             \/ op = "execute" /\ BeginExecute(c, key, r)
             \/ op = "cancel" /\ BeginCancel(c, key, r)
             \/ op = "rollback" /\ BeginRollback(c, key, r)
      PROVE  TypeInv'
  <2>1. op \in Operations /\ key \in Keys /\ requests[r] \in Row /\ NoRow \in Row
    BY <1>3, <1>4, <1>5, EmptyRecords
  <2>2. CASE op = "dry_run" /\ BeginDryRun(c, key, r)
    BY <1>2, <2>1, <2>2, StepSets DEF BeginDryRun
  <2>3. CASE op = "confirm" /\ BeginConfirm(c, key, r)
    BY <1>2, <2>1, <2>3, StepSets DEF BeginConfirm
  <2>4. CASE op = "execute" /\ BeginExecute(c, key, r)
    BY <1>2, <2>1, <2>4, StepSets DEF BeginExecute, LockedOperations
  <2>5. CASE op = "cancel" /\ BeginCancel(c, key, r)
    BY <1>2, <2>1, <2>5, StepSets DEF BeginCancel
  <2>6. CASE op = "rollback" /\ BeginRollback(c, key, r)
    BY <1>2, <2>1, <2>6, StepSets DEF BeginRollback
  <2> QED
    BY <1>5, <2>2, <2>3, <2>4, <2>5, <2>6
<1>6. ASSUME NEW op \in DOMAIN KeysFor \cap {"request"}, NEW key \in KeysFor[op], NEW body \in Bodies,
             BeginRequest(c, key, body)
      PROVE  TypeInv'
  <2>1. [state |-> "requested", body |-> body, actionHash |-> action.hash, dryRun |-> "none"] \in Row
    BY <1>1, ConstantsAssumption DEF Row, ExecutionStates
  <2>2. "request" \in Operations /\ key \in Keys
    BY <1>3, <1>6
  <2> QED
    BY <1>2, <1>6, <2>1, <2>2, StepSets DEF BeginRequest
<1> QED
  BY <1>5, <1>6 DEF Begin

LEMMA FaultType ==
    ASSUME TypeInv, NEW c \in Calls, Abandon(c) \/ FailInsideTry(c)
    PROVE  TypeInv'
<1> USE DEF TypeInv
<1>1. CASE Abandon(c)
  BY <1>1, EndHandlers DEF Abandon, tables, world, TablesOK, WorldOK
<1>2. CASE FailInsideTry(c)
  <2>1. HandlersInv'
    BY <1>2, StepSets, LockHandlers DEF FailInsideTry, LockSteps
  <2> QED
    BY <1>2, <2>1 DEF FailInsideTry, tables, world, TablesOK, WorldOK
<1> QED
  BY <1>1, <1>2

LEMMA EnvironmentType ==
    ASSUME TypeInv, Environment
    PROVE  TypeInv'
<1> USE DEF TypeInv, world, WorldOK
<1>1. ASSUME UNCHANGED <<pc, call>>, seen' \in [Calls -> Row]
      PROVE  HandlersInv'
  BY <1>1 DEF HandlersInv, HandlersOK
<1>2. seen \in [Calls -> Row]
  BY DEF HandlersInv, HandlersOK
<1>3. CASE ExpireLock
  BY <1>1, <1>2, <1>3 DEF ExpireLock, TablesOK
<1>4. CASE ExpireEvidence
  BY <1>1, <1>2, <1>4 DEF ExpireEvidence, TablesOK
<1>5. CASE ChangeAction
  BY <1>1, <1>2, <1>5 DEF ChangeAction, TablesOK
<1>6. ASSUME NEW r \in Requests, ExpireDryRun(r)
      PROVE  TypeInv'
  <2>1. requests' \in [Requests -> Row]
    BY <1>6 DEF ExpireDryRun, TablesOK, Row
  <2>2. seen' \in [Calls -> Row]
    BY <1>2, <1>6 DEF ExpireDryRun, Row
  <2> QED
    BY <1>1, <1>6, <2>1, <2>2 DEF ExpireDryRun, TablesOK
<1>7. ASSUME NEW r \in Requests, ExpireConfirmation(r)
      PROVE  TypeInv'
  BY <1>1, <1>2, <1>7 DEF ExpireConfirmation, TablesOK
<1> QED
  BY <1>3, <1>4, <1>5, <1>6, <1>7 DEF Environment

LEMMA TypeStep == TypeInv /\ [Next]_vars => TypeInv'
<1> SUFFICES ASSUME TypeInv, [Next]_vars PROVE TypeInv'
  OBVIOUS
<1>1. ASSUME NEW c \in Calls, Begin(c) \/ Step(c) \/ Abandon(c) \/ FailInsideTry(c)
      PROVE  TypeInv'
  BY <1>1, BeginType, FaultType, LedgerStepType, PreparationStepType, LockStepType,
     ExecuteStepType, CancelStepType, RollbackStepType DEF Step
<1>2. CASE UNCHANGED vars
  BY <1>2 DEF vars, tables, world, TypeInv, TablesOK, WorldOK, HandlersInv, HandlersOK
<1> QED
  BY <1>1, <1>2, EnvironmentType DEF Next

\* Columns hold what their CHECK constraints allow, for any instance.
THEOREM TypeCorrect == Spec => []TypeOK
<1>1. TypeInv => TypeOK
  BY DEF TypeInv, TypeOK, HandlersInv
<1> QED
  BY <1>1, TypeInit, TypeStep, PTL DEF Spec

-------------------------------------------------------------------------------
\* What a step of handler c leaves alone.

OtherHandlersStay(c) ==
    \A d \in Calls \ {c} : pc'[d] = pc[d] /\ call'[d] = call[d] /\ seen'[d] = seen[d]

LEMMA EndFrame ==
    ASSUME HandlersOK, NEW c \in Calls, End(c)
    PROVE  pc'[c] = "idle" /\ OtherHandlersStay(c)
BY DEF HandlersOK, End, OtherHandlersStay

LEMMA ContinueFrame ==
    ASSUME HandlersOK, NEW c \in Calls, NEW step, Continue(c, step)
    PROVE  pc'[c] = step /\ call' = call /\ seen' = seen /\ OtherHandlersStay(c)
BY DEF HandlersOK, Continue, Goto, OtherHandlersStay

LEMMA ArriveFrame ==
    ASSUME HandlersOK, NEW c \in Calls, NEW op, NEW key, NEW r, NEW row, NEW step,
           Arrive(c, op, key, r, row, step)
    PROVE  /\ pc[c] = "idle" /\ pc'[c] = step
           /\ call'[c].operation = op /\ call'[c].request = r /\ call'[c].key = key
           /\ OtherHandlersStay(c) /\ UNCHANGED <<tables, world>>
BY DEF HandlersOK, Arrive, OtherHandlersStay

\* Every step of a handler concerns that handler alone.
LEMMA StepFrame ==
    ASSUME HandlersOK, NEW c \in Calls, Step(c) \/ Abandon(c) \/ FailInsideTry(c)
    PROVE  OtherHandlersStay(c)
<1> USE EndFrame, ContinueFrame
<1>1. CASE LedgerStep(c)
  BY <1>1 DEF LedgerStep, ReplayOrConflict, MissLedger, InsertLedger, LoseLedgerRace
<1>2. CASE PreparationStep(c)
  BY <1>2 DEF PreparationStep, InsertRequest, BlockWithoutRollbackPlan, BlockByGate, WriteDryRun,
       WriteConfirmationRequired, CheckAction, ClearConfirmations, InsertConfirmation,
       DuplicateConfirmationThrows, WriteConfirmed
<1>3. CASE LockStep(c)
  BY <1>3 DEF LockStep, LockKeyConflict, InsertLock, MissLock, InspectLock, RecoverLock,
       RecoverNothing, ReleaseLock, EnterLock
<1>4. CASE ReadRequest(c)
  BY <1>4 DEF ReadRequest, HandlersOK, Goto, OtherHandlersStay
<1>5. CASE ExecuteStep(c) /\ ~ReadRequest(c)
  BY <1>5 DEF ExecuteStep, CheckConfirmation, InsertAttempt, DuplicateAttemptThrows, WriteQueued,
       WriteStarted, InvokeExecute, UpdateAttempt, WriteResult, CompleteExecute
<1>6. CASE CancelStep(c)
  BY <1>6 DEF CancelStep, WriteCancelRequested, RefuseCancel, InvokeCancel, WriteCancelled, CompleteCancel
<1>7. CASE RollbackStep(c)
  BY <1>7 DEF RollbackStep, WriteRollbackRequested, InsertRollback, InvokeRollback, UpdateRollback,
       WriteRollbackResult, CompleteRollback
<1>8. CASE Abandon(c) \/ FailInsideTry(c)
  BY <1>8 DEF Abandon, FailInsideTry
<1> QED
  BY <1>1, <1>2, <1>3, <1>4, <1>5, <1>6, <1>7, <1>8 DEF Step

-------------------------------------------------------------------------------
\* Mutual exclusion.  Only the lock steps change the lock row, and only they
\* let a handler in.

LEMMA HolderSets ==
    LockedSteps \cup ReleaseSteps =
        {"insert_attempt", "write_queued", "write_started", "invoke_execute",
         "update_attempt", "write_result", "complete_execute",
         "write_cancel_requested", "invoke_cancel", "write_cancelled", "complete_cancel",
         "insert_rollback", "invoke_rollback", "update_rollback", "write_rollback_result",
         "complete_rollback", "release_ok", "release_failed"}
BY DEF LockedSteps, ExecuteLockedSteps, CancelLockedSteps, RollbackLockedSteps, ReleaseSteps

LEMMA LockUntouched ==
    ASSUME TypeInv, NEW c \in Calls,
           \/ Begin(c) \/ LedgerStep(c) \/ PreparationStep(c) \/ ExecuteStep(c)
           \/ CancelStep(c) \/ RollbackStep(c) \/ Abandon(c) \/ FailInsideTry(c)
    PROVE  /\ UNCHANGED <<lock, overrun>>
           /\ HoldsLock(c)' => HoldsLock(c)
           /\ OtherHandlersStay(c)
<1> USE EndFrame, ContinueFrame, HolderSets DEF TypeInv, HandlersInv, HoldsLock, tables, world
<1>1. CASE Begin(c)
  BY <1>1 DEF Begin, BeginRequest, BeginDryRun, BeginConfirm, BeginExecute, BeginCancel,
       BeginRollback, Arrive, HandlersOK, OtherHandlersStay
<1>2. CASE LedgerStep(c)
  <2>1. CASE InsertLedger(c)
    <3>1. AfterLedger[call[c].operation] \notin LockedSteps \cup ReleaseSteps
      BY <2>1 DEF InsertLedger, AfterLedger, Operations, LockedOperations
    <3> QED
      BY <2>1, <3>1 DEF InsertLedger
  <2> QED
    BY <1>2, <2>1 DEF LedgerStep, ReplayOrConflict, MissLedger, LoseLedgerRace
<1>3. CASE PreparationStep(c)
  BY <1>3 DEF PreparationStep, InsertRequest, BlockWithoutRollbackPlan, BlockByGate, WriteDryRun,
       WriteConfirmationRequired, CheckAction, ClearConfirmations, InsertConfirmation,
       DuplicateConfirmationThrows, WriteConfirmed
<1>4. CASE ExecuteStep(c)
  <2>1. CASE ReadRequest(c)
    BY <2>1 DEF ReadRequest, HandlersOK, Goto, OtherHandlersStay
  <2> QED
    BY <1>4, <2>1 DEF ExecuteStep, CheckConfirmation, InsertAttempt, DuplicateAttemptThrows,
         WriteQueued, WriteStarted, InvokeExecute, UpdateAttempt, WriteResult, CompleteExecute
<1>5. CASE CancelStep(c)
  BY <1>5 DEF CancelStep, WriteCancelRequested, RefuseCancel, InvokeCancel, WriteCancelled, CompleteCancel
<1>6. CASE RollbackStep(c)
  BY <1>6 DEF RollbackStep, WriteRollbackRequested, InsertRollback, InvokeRollback, UpdateRollback,
       WriteRollbackResult, CompleteRollback
<1>7. CASE Abandon(c)
  BY <1>7 DEF Abandon
<1>8. CASE FailInsideTry(c)
  BY <1>8 DEF FailInsideTry
<1> QED
  BY <1>1, <1>2, <1>3, <1>4, <1>5, <1>6, <1>7, <1>8

\* Without the lock steps nobody enters, so exclusion stays.
LEMMA ExclusionFrame ==
    ASSUME LockExcludes, NEW c \in Calls, UNCHANGED <<lock, overrun>>,
           HoldsLock(c)' => HoldsLock(c), OtherHandlersStay(c)
    PROVE  LockExcludes'
BY DEF LockExcludes, HoldsLock, OtherHandlersStay

LEMMA ExclusionLockStep ==
    ASSUME TypeInv, LockExcludes, NEW c \in Calls, LockStep(c)
    PROVE  LockExcludes'
<1> USE EndFrame, ContinueFrame, HolderSets DEF TypeInv, HandlersInv
<1>1. CASE LockKeyConflict(c) \/ InspectLock(c) \/ RecoverNothing(c)
  BY <1>1, ExclusionFrame DEF LockKeyConflict, InspectLock, RecoverNothing, tables, world, HoldsLock
<1>2. CASE InsertLock(c)
  BY <1>2 DEF InsertLock, EnterLock, LockExcludes, HoldsLock, OtherHandlersStay, world
<1>3. CASE MissLock(c)
  BY <1>3 DEF MissLock, LockExcludes, HoldsLock, OtherHandlersStay, world
<1>4. CASE RecoverLock(c)
  BY <1>4 DEF RecoverLock, EnterLock, LockExcludes, HoldsLock, OtherHandlersStay
<1>5. CASE ReleaseLock(c)
  BY <1>5 DEF ReleaseLock, LockExcludes, HoldsLock, OtherHandlersStay
<1> QED
  BY <1>1, <1>2, <1>3, <1>4, <1>5 DEF LockStep

\* Two handlers hold the lock together only after a take-over from a running
\* handler, and while one holds it the row is there.
THEOREM MutualExclusion == Spec => []LockExcludes
<1>1. Init => LockExcludes
  BY HolderSets DEF Init, LockExcludes, HoldsLock
<1>2. TypeInv /\ LockExcludes /\ [Next]_vars => LockExcludes'
  <2> SUFFICES ASSUME TypeInv, LockExcludes, [Next]_vars PROVE LockExcludes'
    OBVIOUS
  <2>1. ASSUME NEW c \in Calls, Begin(c) \/ Step(c) \/ Abandon(c) \/ FailInsideTry(c)
        PROVE  LockExcludes'
    BY <2>1, LockUntouched, ExclusionFrame, ExclusionLockStep DEF Step
  <2>2. CASE Environment
    BY <2>2 DEF Environment, ExpireLock, ExpireEvidence, ChangeAction, ExpireDryRun,
         ExpireConfirmation, world, LockExcludes, HoldsLock
  <2>3. CASE UNCHANGED vars
    BY <2>3 DEF vars, tables, world, LockExcludes, HoldsLock
  <2> QED
    BY <2>1, <2>2, <2>3 DEF Next
<1> QED
  BY <1>1, <1>2, TypeInit, TypeStep, PTL DEF Spec

-------------------------------------------------------------------------------
\* At most one execution.  AtMostOneExecution alone is not inductive: it takes
\* that the handler which inserted the attempt row is the only one on its way
\* to the adapter, and that the row is there before the adapter has run.

AttemptSteps == {"write_queued", "write_started", "invoke_execute", "update_attempt"}

AttemptInv ==
    /\ \A r \in Requests :
          /\ executions[r] \in {0, 1}
          /\ attempts[r] = "none" => executions[r] = 0
    /\ \A c \in Calls : pc[c] \in AttemptSteps =>
          /\ attempts[call[c].request] = "started"
          /\ executions[call[c].request] = IF pc[c] = "update_attempt" THEN 1 ELSE 0
    /\ \A c, d \in Calls :
          /\ pc[c] \in AttemptSteps /\ pc[d] \in AttemptSteps
          /\ call[c].request = call[d].request
          => c = d

\* The steps that neither touch an attempt nor are on the way to the adapter.
LEMMA AttemptUntouched ==
    ASSUME TypeInv, NEW c \in Calls,
           \/ Begin(c) \/ LedgerStep(c) \/ PreparationStep(c) \/ LockStep(c)
           \/ ReadRequest(c) \/ CheckConfirmation(c) \/ DuplicateAttemptThrows(c)
           \/ WriteResult(c) \/ CompleteExecute(c)
           \/ CancelStep(c) \/ RollbackStep(c) \/ Abandon(c) \/ FailInsideTry(c)
    PROVE  /\ UNCHANGED <<attempts, executions>>
           /\ pc'[c] \notin AttemptSteps
           /\ OtherHandlersStay(c)
<1> USE EndFrame, ContinueFrame DEF TypeInv, HandlersInv, AttemptSteps, tables, world
<1>1. CASE Begin(c)
  BY <1>1 DEF Begin, BeginRequest, BeginDryRun, BeginConfirm, BeginExecute, BeginCancel,
       BeginRollback, Arrive, HandlersOK, OtherHandlersStay
<1>2. CASE LedgerStep(c)
  <2>1. CASE InsertLedger(c)
    <3>1. AfterLedger[call[c].operation] \notin AttemptSteps
      BY <2>1 DEF InsertLedger, AfterLedger, Operations, LockedOperations
    <3> QED
      BY <2>1, <3>1 DEF InsertLedger
  <2> QED
    BY <1>2, <2>1 DEF LedgerStep, ReplayOrConflict, MissLedger, LoseLedgerRace
<1>3. CASE PreparationStep(c)
  BY <1>3 DEF PreparationStep, InsertRequest, BlockWithoutRollbackPlan, BlockByGate, WriteDryRun,
       WriteConfirmationRequired, CheckAction, ClearConfirmations, InsertConfirmation,
       DuplicateConfirmationThrows, WriteConfirmed
<1>4. CASE LockStep(c)
  <2>1. pc[c] \in LockSteps => AfterLock[call[c].operation] \notin AttemptSteps
    BY DEF AfterLock, LockedOperations
  <2> QED
    BY <1>4, <2>1, StepSets DEF LockStep, LockKeyConflict, InsertLock, MissLock, InspectLock,
         RecoverLock, RecoverNothing, ReleaseLock, EnterLock
<1>5. CASE ReadRequest(c)
  BY <1>5 DEF ReadRequest, HandlersOK, Goto, OtherHandlersStay
<1>6. CASE CheckConfirmation(c) \/ DuplicateAttemptThrows(c) \/ WriteResult(c) \/ CompleteExecute(c)
  BY <1>6 DEF CheckConfirmation, DuplicateAttemptThrows, WriteResult, CompleteExecute
<1>7. CASE CancelStep(c)
  BY <1>7 DEF CancelStep, WriteCancelRequested, RefuseCancel, InvokeCancel, WriteCancelled, CompleteCancel
<1>8. CASE RollbackStep(c)
  BY <1>8 DEF RollbackStep, WriteRollbackRequested, InsertRollback, InvokeRollback, UpdateRollback,
       WriteRollbackResult, CompleteRollback
<1>9. CASE Abandon(c)
  BY <1>9 DEF Abandon
<1>10. CASE FailInsideTry(c)
  BY <1>10 DEF FailInsideTry
<1> QED
  BY <1>1, <1>2, <1>3, <1>4, <1>5, <1>6, <1>7, <1>8, <1>9, <1>10

LEMMA AttemptFrame ==
    ASSUME AttemptInv, NEW c \in Calls, UNCHANGED <<attempts, executions>>,
           pc'[c] \notin AttemptSteps, OtherHandlersStay(c)
    PROVE  AttemptInv'
BY DEF AttemptInv, OtherHandlersStay

LEMMA AttemptInit == Init => AttemptInv
BY DEF Init, AttemptInv, AttemptSteps

LEMMA AttemptStep == TypeInv /\ AttemptInv /\ [Next]_vars => AttemptInv'
<1> SUFFICES ASSUME TypeInv, AttemptInv, [Next]_vars PROVE AttemptInv'
  OBVIOUS
<1>1. ASSUME NEW c \in Calls, ExecuteStep(c)
      PROVE  AttemptInv'
  <2> USE ContinueFrame DEF TypeInv, HandlersInv, TablesOK, WorldOK
  <2>0. pc[c] \in LockSteps => call[c].request \in Requests
    BY StepSets DEF LockedOperations
  <2>1. CASE InsertAttempt(c)
    <3>1. call[c].request \in Requests
      BY <2>0, <2>1, StepSets DEF InsertAttempt
    <3> QED
      BY <2>1, <3>1 DEF InsertAttempt, AttemptInv, AttemptSteps, OtherHandlersStay, world
  <2>2. CASE WriteQueued(c) \/ WriteStarted(c)
    BY <2>2 DEF WriteQueued, WriteStarted, AttemptInv, AttemptSteps, OtherHandlersStay, world
  <2>3. CASE InvokeExecute(c)
    <3>1. call[c].request \in Requests
      BY <2>0, <2>3, StepSets DEF InvokeExecute
    <3> QED
      BY <2>3, <3>1 DEF InvokeExecute, AttemptInv, AttemptSteps, OtherHandlersStay, tables
  <2>4. CASE UpdateAttempt(c)
    <3>1. call[c].request \in Requests /\ ExecutionResult(seen[c].body) # "none"
      BY <2>0, <2>4, StepSets, ResultTypes DEF UpdateAttempt, HandlersOK, Row, ExecutionResults
    <3> QED
      BY <2>4, <3>1 DEF UpdateAttempt, AttemptInv, AttemptSteps, OtherHandlersStay, world
  <2> QED
    BY <1>1, <2>1, <2>2, <2>3, <2>4, AttemptUntouched, AttemptFrame DEF ExecuteStep
<1>2. ASSUME NEW c \in Calls, Begin(c) \/ Step(c) \/ Abandon(c) \/ FailInsideTry(c)
      PROVE  AttemptInv'
  BY <1>1, <1>2, AttemptUntouched, AttemptFrame DEF Step
<1>3. CASE Environment
  BY <1>3 DEF Environment, ExpireLock, ExpireEvidence, ChangeAction, ExpireDryRun,
       ExpireConfirmation, world, AttemptInv
<1>4. CASE UNCHANGED vars
  BY <1>4 DEF vars, tables, world, AttemptInv
<1> QED
  BY <1>2, <1>3, <1>4 DEF Next

\* The adapter executes a request at most once, however many handlers try.
THEOREM SingleExecution == Spec => []AtMostOneExecution
<1>1. AttemptInv => AtMostOneExecution
  BY DEF AttemptInv, AtMostOneExecution
<1> QED
  BY <1>1, TypeInit, TypeStep, AttemptInit, AttemptStep, PTL DEF Spec

===============================================================================
