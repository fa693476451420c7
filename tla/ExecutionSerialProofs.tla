------------------------- MODULE ExecutionSerialProofs --------------------------
(***************************************************************************)
(* What TLAPS proves of ExecutionBoundary when handlers do not meet, when  *)
(* nothing fails, and when locks outlast their holders: the documented     *)
(* table is followed, an execution under way has a handler that works on   *)
(* it, and one lock is active.  Each of these properties is false of the   *)
(* boundary as a whole; the theorems say what it takes to make it true.    *)
(***************************************************************************)
EXTENDS ExecutionRowProofs

-------------------------------------------------------------------------------
\* What a handler was asked for fits the state it has read, and keeps fitting.

AskedOf(c) ==
    /\ call[c].operation = "dry_run" => seen[c].state = "requested"
    /\ call[c].operation = "confirm" => seen[c].state = "confirmation_required"
    /\ call[c].operation = "rollback" => seen[c].state \in {"failed", "partial_succeeded"}
    /\ call[c].operation = "execute" /\ pc[c] \notin UncheckedSteps \cup ReleaseSteps =>
           seen[c].state = "confirmed"

AskedInv == \A c \in Calls : pc[c] # "idle" => AskedOf(c)

LEMMA BeginAsked ==
    ASSUME HandlersOK, NEW c \in Calls, Begin(c)
    PROVE  AskedOf(c)'
<1>1. ASSUME NEW key, NEW r \in Requests, BeginDryRun(c, key, r) PROVE AskedOf(c)'
  <2>1. Arrived(c, "dry_run", key, r, requests[r], "read_ledger")
    BY <1>1, ArriveFacts DEF BeginDryRun
  <2> QED
    BY <1>1, <2>1 DEF BeginDryRun, Arrived, AskedOf
<1>2. ASSUME NEW key, NEW r \in Requests, BeginConfirm(c, key, r) PROVE AskedOf(c)'
  <2>1. Arrived(c, "confirm", key, r, requests[r], "check_action")
    BY <1>2, ArriveFacts DEF BeginConfirm
  <2> QED
    BY <1>2, <2>1 DEF BeginConfirm, Arrived, AskedOf
<1>3. ASSUME NEW key, NEW r \in Requests, BeginExecute(c, key, r) PROVE AskedOf(c)'
  <2>1. Arrived(c, "execute", key, r, NoRow, "read_request")
    BY <1>3, ArriveFacts DEF BeginExecute
  <2> QED
    BY <2>1, OwnSets DEF Arrived, AskedOf, UncheckedSteps
<1>4. ASSUME NEW key, NEW r \in Requests, BeginCancel(c, key, r) PROVE AskedOf(c)'
  <2>1. Arrived(c, "cancel", key, r, requests[r], "read_ledger")
    BY <1>4, ArriveFacts DEF BeginCancel
  <2> QED
    BY <2>1 DEF Arrived, AskedOf
<1>5. ASSUME NEW key, NEW r \in Requests, BeginRollback(c, key, r) PROVE AskedOf(c)'
  <2>1. Arrived(c, "rollback", key, r, requests[r], "read_ledger")
    BY <1>5, ArriveFacts DEF BeginRollback
  <2> QED
    BY <1>5, <2>1 DEF BeginRollback, Arrived, AskedOf
<1>6. ASSUME NEW key, NEW body, BeginRequest(c, key, body) PROVE AskedOf(c)'
  <2>1. Arrived(c, "request", key, NoRequest,
               [state |-> "requested", body |-> body, actionHash |-> action.hash, dryRun |-> "none"],
               "read_ledger")
    BY <1>6, ArriveFacts DEF BeginRequest
  <2> QED
    BY <2>1 DEF Arrived, AskedOf
<1> QED
  BY <1>1, <1>2, <1>3, <1>4, <1>5, <1>6 DEF Begin

LEMMA AskedStep == BaseInv /\ AskedInv /\ [Next]_vars => AskedInv'
<1> SUFFICES ASSUME BaseInv, AskedInv, [Next]_vars PROVE AskedInv'
  OBVIOUS
<1>0. HandlersOK
  BY DEF BaseInv, TypeInv, HandlersInv
<1>1. ASSUME NEW c \in Calls, OtherHandlersStay(c), pc'[c] # "idle" => AskedOf(c)'
      PROVE  AskedInv'
  BY <1>1 DEF AskedInv, AskedOf, OtherHandlersStay
<1>2. ASSUME NEW c \in Calls, Begin(c)
      PROVE  AskedInv'
  <2>1. OtherHandlersStay(c)
    BY <1>2, BeginFacts DEF BaseInv
  <2> QED
    BY <1>0, <1>1, <1>2, <2>1, BeginAsked
<1>3. ASSUME NEW c \in Calls, Step(c) \/ Abandon(c) \/ FailInsideTry(c)
      PROVE  AskedInv'
  <2>1. /\ OtherHandlersStay(c)
        /\ pc[c] # "idle"
        /\ \/ pc'[c] = "idle"
           \/ /\ Moves(c, pc[c], pc'[c])
              /\ call'[c] = call[c]
              /\ seen'[c] = IF pc[c] = "read_request" THEN requests[call[c].request] ELSE seen[c]
    BY <1>3, HandlerMoves DEF BaseInv
  <2>2. ASSUME pc'[c] # "idle" PROVE AskedOf(c)'
    <3>1. AskedOf(c) /\ PreparationOwn(c) /\ OwnSteps(c) /\ call[c].operation \in Operations
      BY <2>1 DEF AskedInv, BaseInv, TypeInv, HandlersInv, ControlInv
    <3>2. pc[c] \in LockSteps => call[c].operation \in LockedOperations
      BY DEF BaseInv, TypeInv, HandlersInv
    <3>3. CASE pc[c] = "read_request"
      <4>1. call[c].operation = "execute" /\ pc'[c] = "read_ledger"
        BY <2>1, <2>2, <3>1, <3>3, OwnSets, StepSets DEF PreparationOwn, Moves, LockedSteps
      <4> QED
        BY <2>1, <2>2, <4>1, OwnSets DEF AskedOf, UncheckedSteps
    <3>4. CASE pc[c] # "read_request"
      <4>1. \/ call[c].operation # "execute"
            \/ pc'[c] \in UncheckedSteps \cup ReleaseSteps
            \/ pc[c] = "check_action" /\ seen[c].state = "confirmed"
            \/ pc[c] \notin UncheckedSteps \cup ReleaseSteps
        BY <2>1, <2>2, <3>1, <3>4, OwnSets DEF Moves, UncheckedSteps, AfterLedger, AfterLock, LockedSteps, ReleaseSteps
      <4> QED
        BY <2>1, <2>2, <3>1, <3>4, <4>1 DEF AskedOf
    <3> QED
      BY <3>3, <3>4
  <2> QED
    BY <1>1, <2>1, <2>2
<1>4. CASE Environment
  BY <1>4, EnvironmentRows DEF BaseInv, AskedInv, AskedOf
<1>5. CASE UNCHANGED vars
  BY <1>5 DEF vars, AskedInv, AskedOf
<1> QED
  BY <1>2, <1>3, <1>4, <1>5 DEF Next

LEMMA AskedInit == Init => AskedInv
BY DEF Init, AskedInv

-------------------------------------------------------------------------------
\* When handlers do not meet on a request, its row is as the handler left it.

\* Two handlers never work on the same request at the same time.  Handlers of
\* different requests meet as they like, at the action's lock as elsewhere.
Alone ==
    \A c, d \in Calls :
        /\ pc[c] # "idle" /\ pc[d] # "idle"
        /\ call[c].request = call[d].request /\ call[c].request # NoRequest
        => c = d

WaitSteps == {"acquire_lock", "inspect_lock", "recover_lock"}

\* The handler has written nothing to the row since it read it.
Unwritten(c) ==
    \/ pc[c] \in {"read_ledger", "insert_ledger", "dry_run", "check_action", "clear_confirmations",
                  "insert_confirmation", "write_confirmed", "check_confirmation",
                  "write_rollback_requested", "insert_attempt", "write_queued", "write_cancel_requested"}
    \/ pc[c] \in WaitSteps /\ call[c].operation # "rollback"

AsLeft(c) ==
    LET shown == requests[call[c].request].state IN
    /\ Unwritten(c) => shown = seen[c].state
    /\ pc[c] = "write_confirmation_required" => shown = "dry_run_succeeded"
    /\ pc[c] = "write_started" => shown = "queued"
    /\ pc[c] \in {"invoke_execute", "update_attempt", "write_result"} => shown = "started"
    /\ pc[c] \in {"invoke_cancel", "write_cancelled"} => shown = "cancel_requested"
    /\ \/ pc[c] \in WaitSteps /\ call[c].operation = "rollback"
       \/ pc[c] \in {"insert_rollback", "invoke_rollback", "update_rollback", "write_rollback_result"}
       => shown = "rollback_requested"

SerialInv == \A c \in Calls : pc[c] # "idle" /\ call[c].operation # "request" => AsLeft(c)

\* One handler's own step.  What it writes is what the next step expects.
LEMMA OwnRowStep ==
    ASSUME BaseInv, NEW c \in Calls, call[c].operation # "request", AsLeft(c),
           Step(c) \/ Abandon(c) \/ FailInsideTry(c), pc'[c] # "idle"
    PROVE  AsLeft(c)'
<1> DEFINE r == call[c].request
<1>0. /\ HandlersOK /\ pc[c] # "idle" /\ r \in Requests /\ OtherHandlersStay(c)
      /\ requests \in [Requests -> Row]
      /\ PreparationOwn(c) /\ OwnSteps(c)
      /\ call'[c] = call[c]
      /\ seen'[c] = IF pc[c] = "read_request" THEN requests[r] ELSE seen[c]
      /\ pc[c] \in LockSteps => call[c].operation \in LockedOperations
  BY HandlerMoves DEF BaseInv, TypeInv, TablesOK, HandlersInv, ControlInv
<1>1. ASSUME NEW step, Continue(c, step) PROVE pc'[c] = step
  BY <1>0, <1>1, ContinueFrame
<1>2. ASSUME End(c) PROVE FALSE
  BY <1>0, <1>2, EndFrame
<1>3. ASSUME NEW state, UpdateRequestState(r, state) PROVE requests'[r].state = state
  BY <1>0, <1>3 DEF UpdateRequestState, Row
<1>4. CASE LedgerStep(c)
  <2>1. \/ pc[c] = "read_ledger" /\ pc'[c] = "insert_ledger" /\ UNCHANGED requests
        \/ pc[c] = "insert_ledger" /\ pc'[c] = AfterLedger[call[c].operation] /\ UNCHANGED requests
    BY <1>1, <1>2, <1>4 DEF LedgerStep, ReplayOrConflict, MissLedger, InsertLedger, LoseLedgerRace, tables
  <2>2. call[c].operation \in Operations
    BY <1>0 DEF BaseInv, TypeInv, HandlersInv
  <2> QED
    BY <1>0, <2>1, <2>2 DEF AsLeft, Unwritten, WaitSteps, AfterLedger, Operations, LockedOperations
<1>5. CASE PreparationStep(c)
  <2>1. CASE WriteDryRun(c)
    <3>1. pc'[c] = "write_confirmation_required" /\ requests'[r].state = "dry_run_succeeded"
      BY <1>0, <1>1, <2>1 DEF WriteDryRun, Row
    <3> QED
      BY <1>0, <3>1 DEF AsLeft, Unwritten, WaitSteps
  <2>2. CASE CheckAction(c)
    <3>1. pc'[c] \in {"check_confirmation", "read_ledger"} /\ pc[c] = "check_action" /\ UNCHANGED requests
      BY <1>1, <1>2, <2>2 DEF CheckAction, tables
    <3> QED
      BY <1>0, <3>1 DEF AsLeft, Unwritten, WaitSteps
  <2>3. CASE ClearConfirmations(c) \/ InsertConfirmation(c)
    <3>1. /\ pc[c] \in {"clear_confirmations", "insert_confirmation"}
          /\ pc'[c] \in {"insert_confirmation", "write_confirmed"}
          /\ UNCHANGED requests
      BY <1>1, <2>3 DEF ClearConfirmations, InsertConfirmation
    <3> QED
      BY <1>0, <3>1 DEF AsLeft, Unwritten, WaitSteps
  <2> QED
    BY <1>2, <1>5, <2>1, <2>2, <2>3 DEF PreparationStep, InsertRequest, BlockWithoutRollbackPlan, BlockByGate,
         WriteConfirmationRequired, DuplicateConfirmationThrows, WriteConfirmed
<1>6. CASE LockStep(c)
  <2>1. /\ UNCHANGED requests
        /\ pc[c] \in WaitSteps
        /\ pc'[c] \in {"inspect_lock", "recover_lock", AfterLock[call[c].operation]}
    BY <1>1, <1>2, <1>6 DEF LockStep, LockKeyConflict, InsertLock, MissLock, InspectLock, RecoverLock,
         RecoverNothing, ReleaseLock, EnterLock, WaitSteps, tables
  <2>2. call[c].operation \in LockedOperations
    BY <1>0, <2>1, StepSets DEF WaitSteps
  <2> QED
    BY <1>0, <2>1, <2>2 DEF AsLeft, Unwritten, WaitSteps, AfterLock, LockedOperations
<1>7. CASE ExecuteStep(c)
  <2>1. CASE ReadRequest(c)
    <3>1. pc'[c] = "read_ledger" /\ pc[c] = "read_request" /\ UNCHANGED requests
      BY <1>0, <2>1 DEF ReadRequest, Goto, HandlersOK, tables
    <3> QED
      BY <1>0, <3>1 DEF AsLeft, Unwritten, WaitSteps
  <2>2. CASE CheckConfirmation(c) \/ InsertAttempt(c) \/ DuplicateAttemptThrows(c)
    <3>1. /\ UNCHANGED requests
          /\ \/ pc[c] = "check_confirmation" /\ pc'[c] = "acquire_lock"
             \/ pc[c] = "insert_attempt" /\ pc'[c] \in {"write_queued", "release_failed"}
      BY <1>1, <1>2, <2>2 DEF CheckConfirmation, InsertAttempt, DuplicateAttemptThrows, tables
    <3> QED
      BY <1>0, <3>1 DEF AsLeft, Unwritten, WaitSteps, PreparationOwn
  <2>3. CASE WriteQueued(c) \/ WriteStarted(c) \/ WriteResult(c)
    <3>1. \/ pc'[c] = "write_started" /\ requests'[r].state = "queued"
          \/ pc'[c] = "invoke_execute" /\ requests'[r].state = "started"
          \/ pc'[c] = "complete_execute"
      BY <1>1, <1>3, <2>3 DEF WriteQueued, WriteStarted, WriteResult
    <3> QED
      BY <1>0, <3>1 DEF AsLeft, Unwritten, WaitSteps
  <2>4. CASE InvokeExecute(c) \/ UpdateAttempt(c) \/ CompleteExecute(c)
    <3>1. /\ UNCHANGED requests
          /\ \/ pc[c] = "invoke_execute" /\ pc'[c] = "update_attempt"
             \/ pc[c] = "update_attempt" /\ pc'[c] = "write_result"
             \/ pc'[c] = "release_ok"
      BY <1>1, <2>4 DEF InvokeExecute, UpdateAttempt, CompleteExecute, tables
    <3> QED
      BY <1>0, <3>1 DEF AsLeft, Unwritten, WaitSteps
  <2> QED
    BY <1>7, <2>1, <2>2, <2>3, <2>4 DEF ExecuteStep
<1>8. CASE CancelStep(c)
  <2>1. \/ pc'[c] \in {"invoke_cancel", "write_cancelled"} /\ requests'[r].state = "cancel_requested"
        \/ pc[c] = "invoke_cancel" /\ pc'[c] = "write_cancelled" /\ UNCHANGED requests
        \/ pc'[c] \in {"complete_cancel", "release_ok", "release_failed"}
    BY <1>1, <1>3, <1>8 DEF CancelStep, WriteCancelRequested, RefuseCancel, InvokeCancel, WriteCancelled,
         CompleteCancel, tables
  <2> QED
    BY <1>0, <2>1 DEF AsLeft, Unwritten, WaitSteps
<1>9. CASE RollbackStep(c)
  <2>1. \/ pc'[c] = "acquire_lock" /\ requests'[r].state = "rollback_requested" /\ call[c].operation = "rollback"
        \/ /\ pc[c] \in {"insert_rollback", "invoke_rollback", "update_rollback"}
           /\ pc'[c] \in {"invoke_rollback", "update_rollback", "write_rollback_result"}
           /\ UNCHANGED requests
        \/ pc'[c] \in {"complete_rollback", "release_ok"}
    BY <1>0, <1>1, <1>3, <1>9 DEF RollbackStep, WriteRollbackRequested, InsertRollback, InvokeRollback,
         UpdateRollback, WriteRollbackResult, CompleteRollback, tables, OwnSteps
  <2> QED
    BY <1>0, <2>1 DEF AsLeft, Unwritten, WaitSteps
<1>10. CASE Abandon(c)
  BY <1>2, <1>10 DEF Abandon
<1>11. CASE FailInsideTry(c)
  <2>1. pc'[c] = "release_failed"
    BY <1>1, <1>11 DEF FailInsideTry
  <2> QED
    BY <2>1 DEF AsLeft, Unwritten, WaitSteps
<1> QED
  BY <1>4, <1>5, <1>6, <1>7, <1>8, <1>9, <1>10, <1>11 DEF Step

\* Steps that write to no row but that of their request leave other handlers'
\* rows as they were.
LEMMA OthersRowStep ==
    ASSUME BaseInv, Alone, NEW c \in Calls, Step(c) \/ Abandon(c) \/ FailInsideTry(c),
           NEW d \in Calls, d # c, pc[d] # "idle", call[d].operation # "request"
    PROVE  requests'[call[d].request].state = requests[call[d].request].state
<1>0. /\ pc[c] # "idle" /\ call[d].request \in Requests
      /\ requests[call[d].request].state # "absent"
      /\ requests \in [Requests -> Row]
  BY HandlerMoves DEF BaseInv, TypeInv, TablesOK, HandlersInv, RowInv, Works
<1>1. call[d].request # NoRequest
  BY <1>0, ConstantsAssumption
<1>2. call[c].request # call[d].request
  BY <1>0, <1>1 DEF Alone
<1>3. CASE InsertRequest(c)
  BY <1>0, <1>3 DEF InsertRequest
<1> QED
  BY <1>0, <1>2, <1>3, RowEffects DEF BaseInv, RowWritten

LEMMA SerialStep == BaseInv /\ SerialInv /\ Alone /\ [Next]_vars => SerialInv'
<1> SUFFICES ASSUME BaseInv, SerialInv, Alone, [Next]_vars PROVE SerialInv'
  OBVIOUS
<1>1. ASSUME NEW c \in Calls, Step(c) \/ Abandon(c) \/ FailInsideTry(c)
      PROVE  SerialInv'
  <2>1. /\ OtherHandlersStay(c) /\ pc[c] # "idle"
        /\ pc'[c] # "idle" => call'[c] = call[c]
    BY <1>1, HandlerMoves DEF BaseInv
  <2>2. ASSUME NEW d \in Calls, d # c, pc'[d] # "idle", call'[d].operation # "request"
        PROVE  AsLeft(d)'
    <3>1. pc'[d] = pc[d] /\ call'[d] = call[d] /\ seen'[d] = seen[d]
      BY <2>1, <2>2 DEF OtherHandlersStay
    <3>2. AsLeft(d) /\ requests'[call[d].request].state = requests[call[d].request].state
      BY <1>1, <2>2, <3>1, OthersRowStep DEF SerialInv
    <3> QED
      BY <3>1, <3>2 DEF AsLeft, Unwritten
  <2>3. ASSUME pc'[c] # "idle", call'[c].operation # "request" PROVE AsLeft(c)'
    BY <1>1, <2>1, <2>3, OwnRowStep DEF SerialInv
  <2> QED
    BY <2>2, <2>3 DEF SerialInv
<1>2. ASSUME NEW c \in Calls, Begin(c)
      PROVE  SerialInv'
  <2>1. OtherHandlersStay(c) /\ UNCHANGED requests /\ Begun(c)
    BY <1>2, BeginFacts DEF BaseInv
  <2>2. call'[c].operation # "request" => AsLeft(c)'
    BY <2>1 DEF Begun, AsLeft, Unwritten, WaitSteps
  <2>3. ASSUME NEW d \in Calls, d # c, pc'[d] # "idle", call'[d].operation # "request"
        PROVE  AsLeft(d)'
    BY <2>1, <2>3 DEF OtherHandlersStay, SerialInv, AsLeft, Unwritten
  <2> QED
    BY <2>2, <2>3 DEF SerialInv
<1>3. CASE Environment
  <2>1. ASSUME NEW d \in Calls, pc[d] # "idle", call[d].operation # "request"
        PROVE  call[d].request \in Requests
    BY <2>1 DEF BaseInv, TypeInv, HandlersInv
  <2> QED
    BY <1>3, <2>1, EnvironmentRows DEF BaseInv, SerialInv, AsLeft, Unwritten
<1>4. CASE UNCHANGED vars
  BY <1>4 DEF vars, tables, SerialInv, AsLeft, Unwritten
<1> QED
  BY <1>1, <1>2, <1>3, <1>4 DEF Next

LEMMA SerialInit == Init => SerialInv
BY DEF Init, SerialInv

-------------------------------------------------------------------------------
\* What rows ask for is what operators may ask for.

BodiesInv ==
    /\ \A r \in Requests : requests[r].state # "absent" => requests[r].body \in Bodies
    /\ \A c \in Calls : pc[c] # "idle" /\ call[c].operation = "request" => seen[c].body \in Bodies

LEMMA BodiesInit == Init => BodiesInv
<1> SUFFICES ASSUME Init PROVE BodiesInv
  OBVIOUS
<1>1. PICK body \in [Requests -> Bodies] :
          requests = [r \in Requests |->
              IF r \in StartConfirmed
              THEN [state |-> "confirmed", body |-> body[r], actionHash |-> 0, dryRun |-> "fresh"]
              ELSE NoRow]
  BY DEF Init
<1> QED
  BY <1>1 DEF Init, BodiesInv, NoRow

LEMMA BodiesStep == BaseInv /\ BodiesInv /\ [Next]_vars => BodiesInv'
<1> SUFFICES ASSUME BaseInv, BodiesInv, [Next]_vars PROVE BodiesInv'
  OBVIOUS
<1>0. requests \in [Requests -> Row] /\ HandlersOK
  BY DEF BaseInv, TypeInv, TablesOK, HandlersInv
<1>1. ASSUME NEW c \in Calls, Step(c) \/ Abandon(c) \/ FailInsideTry(c)
      PROVE  BodiesInv'
  <2>1. /\ OtherHandlersStay(c) /\ pc[c] # "idle" /\ PreparationOwn(c)
        /\ pc'[c] # "idle" =>
              /\ call'[c] = call[c]
              /\ seen'[c] = IF pc[c] = "read_request" THEN requests[call[c].request] ELSE seen[c]
    BY <1>1, HandlerMoves DEF BaseInv, ControlInv
  <2>2. ASSUME NEW d \in Calls, pc'[d] # "idle", call'[d].operation = "request"
        PROVE  seen'[d].body \in Bodies
    <3>1. seen'[d] = seen[d] /\ call'[d] = call[d] /\ pc[d] # "idle"
      BY <2>1, <2>2 DEF OtherHandlersStay, PreparationOwn
    <3> QED
      BY <2>2, <3>1 DEF BodiesInv
  <2>3. ASSUME NEW r \in Requests, requests'[r].state # "absent"
        PROVE  requests'[r].body \in Bodies
    <3>1. CASE requests[r].state # "absent"
      BY <1>1, <3>1, HandlerKeepsRows DEF BaseInv, PresentKept, BodiesInv
    <3>2. CASE InsertRequest(c) /\ requests[r].state = "absent"
      <4>1. call[c].operation = "request" /\ requests'[r] = seen[c]
        BY <1>0, <2>1, <2>3, <3>2 DEF InsertRequest, PreparationOwn
      <4> QED
        BY <2>1, <4>1 DEF BodiesInv
    <3>3. ASSUME RowWritten(c), r = call[c].request PROVE requests[r].state # "absent"
      BY <2>1, <3>3, OwnRequest DEF BaseInv, RowInv, Works, RowWritten, StateWritten, LockSteps, LockedSteps,
         ExecuteLockedSteps, CancelLockedSteps, RollbackLockedSteps
    <3> QED
      BY <1>1, <2>3, <3>1, <3>2, <3>3, RowEffects DEF BaseInv, RowWritten
  <2> QED
    BY <2>2, <2>3 DEF BodiesInv
<1>2. ASSUME NEW c \in Calls, Begin(c)
      PROVE  BodiesInv'
  <2>1. OtherHandlersStay(c) /\ UNCHANGED requests
    BY <1>2, BeginFacts DEF BaseInv
  <2>2. ASSUME call'[c].operation = "request" PROVE seen'[c].body \in Bodies
    <3>1. ASSUME NEW key, NEW r \in Requests,
                 BeginDryRun(c, key, r) \/ BeginConfirm(c, key, r) \/ BeginExecute(c, key, r)
                     \/ BeginCancel(c, key, r) \/ BeginRollback(c, key, r)
          PROVE  FALSE
      <4>1. call'[c].operation \in {"dry_run", "confirm", "execute", "cancel", "rollback"}
        BY <1>0, <3>1 DEF BeginDryRun, BeginConfirm, BeginExecute, BeginCancel, BeginRollback, Arrive, HandlersOK
      <4> QED
        BY <2>2, <4>1
    <3>2. \E body \in Bodies : \E key : BeginRequest(c, key, body)
      BY <1>2, <3>1 DEF Begin
    <3>. PICK body \in Bodies : \E key : BeginRequest(c, key, body)
      BY <3>2
    <3>. PICK key : BeginRequest(c, key, body)
      OBVIOUS
    <3>3. Arrived(c, "request", key, NoRequest,
                  [state |-> "requested", body |-> body, actionHash |-> action.hash, dryRun |-> "none"],
                  "read_ledger")
      BY <1>0, ArriveFacts DEF BeginRequest
    <3> QED
      BY <3>3 DEF Arrived
  <2>3. ASSUME NEW d \in Calls, d # c, pc'[d] # "idle", call'[d].operation = "request"
        PROVE  seen'[d].body \in Bodies
    BY <2>1, <2>3 DEF OtherHandlersStay, BodiesInv
  <2> QED
    BY <2>1, <2>2, <2>3 DEF BodiesInv
<1>3. CASE Environment
  BY <1>3, EnvironmentRows DEF BaseInv, BodiesInv
<1>4. CASE UNCHANGED vars
  BY <1>4 DEF vars, tables, BodiesInv
<1> QED
  BY <1>1, <1>2, <1>3, <1>4 DEF Next

-------------------------------------------------------------------------------
\* Every write is a move of the table.

\* The adapter's cancel modes write started, then cancelled, for which the
\* table has no row.
NoCancelModes == \A body \in Bodies : body.mode # "cancel"

LEMMA WriteIsMove ==
    ASSUME NoCancelModes, BaseInv, AskedInv, BodiesInv, SerialInv, NEW c \in Calls,
           Step(c) \/ Abandon(c) \/ FailInsideTry(c), RowWritten(c)
    PROVE  LET r == call[c].request IN
           \/ requests'[r].state = requests[r].state
           \/ IsValidExecutionTransition(requests[r].state, requests'[r].state)
<1> DEFINE r == call[c].request
           from == requests[r].state
           to == requests'[r].state
<1>0. /\ pc[c] # "idle" /\ r \in Requests /\ StateWritten(c, to)
      /\ call[c].operation # "request"
      /\ PreparationOwn(c) /\ OwnSteps(c)
  BY HandlerMoves, OwnRequest DEF BaseInv, ControlInv, RowWritten, StateWritten, LockSteps, LockedSteps,
     ExecuteLockedSteps, CancelLockedSteps, RollbackLockedSteps
<1>1. AskedOf(c) /\ AsLeft(c)
  BY <1>0 DEF AskedInv, SerialInv
<1>2. seen[c].body \in Body
  BY DEF BaseInv, TypeInv, HandlersInv, HandlersOK, Row
<1>3. CASE pc[c] \in {"dry_run", "write_confirmation_required", "write_confirmed"}
  BY <1>0, <1>1, <1>3 DEF StateWritten, AskedOf, AsLeft, Unwritten, PreparationOwn,
     IsValidExecutionTransition, ValidExecutionTransitions
<1>4. CASE pc[c] \in {"write_queued", "write_started"}
  BY <1>0, <1>1, <1>4, OwnSets DEF StateWritten, AskedOf, AsLeft, Unwritten, OwnSteps, UncheckedSteps,
     ReleaseSteps, IsValidExecutionTransition, ValidExecutionTransitions
<1>5. CASE pc[c] = "write_result"
  <2>1. seen[c].body \in Bodies
    BY <1>0, <1>5 DEF BodiesInv, BaseInv, RowInv, Works
  <2>2. ExecutionResult(seen[c].body) \in {"succeeded", "partial_succeeded", "failed", "timeout"}
    BY <1>2, <2>1 DEF NoCancelModes, ExecutionResult, ResultOfMode, Body, Modes
  <2> QED
    BY <1>0, <1>1, <1>5, <2>2 DEF StateWritten, AsLeft, IsValidExecutionTransition, ValidExecutionTransitions
<1>6. CASE pc[c] = "write_cancel_requested"
  <2>1. from = seen[c].state /\ to = "cancel_requested"
    BY <1>0, <1>1, <1>6 DEF StateWritten, AsLeft, Unwritten
  <2>2. CASE from \in {"confirmed", "queued", "started"}
    BY <2>1, <2>2 DEF IsValidExecutionTransition, ValidExecutionTransitions
  <2>3. CASE from \notin {"confirmed", "queued", "started"} /\ from # to
    <3>1. RefuseCancel(c) \/ Abandon(c) \/ FailInsideTry(c)
      <4>1. ~LedgerStep(c) /\ ~PreparationStep(c)
        BY <1>6 DEF LedgerStep, ReplayOrConflict, MissLedger, InsertLedger, LoseLedgerRace,
           PreparationStep, InsertRequest, BlockWithoutRollbackPlan, BlockByGate, WriteDryRun,
           WriteConfirmationRequired, CheckAction, ClearConfirmations, InsertConfirmation,
           DuplicateConfirmationThrows, WriteConfirmed
      <4>2. ~LockStep(c) /\ ~ExecuteStep(c)
        BY <1>6 DEF LockStep, LockKeyConflict, InsertLock, MissLock, InspectLock, RecoverLock,
           RecoverNothing, ReleaseLock, ReleaseSteps, ExecuteStep, ReadRequest, CheckConfirmation,
           InsertAttempt, DuplicateAttemptThrows, WriteQueued, WriteStarted, InvokeExecute, UpdateAttempt,
           WriteResult, CompleteExecute
      <4>3. ~RollbackStep(c)
        BY <1>6 DEF RollbackStep, WriteRollbackRequested, InsertRollback, InvokeRollback,
           UpdateRollback, WriteRollbackResult, CompleteRollback
      <4>4. CancelStep(c) => RefuseCancel(c)
        BY <1>6, <2>1, <2>3 DEF CancelStep, WriteCancelRequested, InvokeCancel, WriteCancelled, CompleteCancel
      <4> QED
        BY <4>1, <4>2, <4>3, <4>4 DEF Step
    <3>2. UNCHANGED requests
      BY <3>1 DEF RefuseCancel, Abandon, FailInsideTry, tables
    <3> QED
      BY <2>3, <3>2
  <2> QED
    BY <2>2, <2>3
<1>7. CASE pc[c] = "write_cancelled"
  BY <1>0, <1>1, <1>7 DEF StateWritten, AsLeft, IsValidExecutionTransition, ValidExecutionTransitions
<1>8. CASE pc[c] = "write_rollback_requested"
  BY <1>0, <1>1, <1>8 DEF StateWritten, AskedOf, AsLeft, Unwritten, OwnSteps,
     IsValidExecutionTransition, ValidExecutionTransitions
<1>9. CASE pc[c] = "write_rollback_result"
  <2>1. RollbackResult(seen[c].body) \in RollbackResults
    BY <1>2, ResultTypes
  <2> QED
    BY <1>0, <1>1, <1>9, <2>1 DEF StateWritten, AsLeft, IsValidExecutionTransition, ValidExecutionTransitions
<1> QED
  BY <1>0, <1>3, <1>4, <1>5, <1>6, <1>7, <1>8, <1>9 DEF StateWritten

\* The abstract specification has the boundary's own states and table.
LEMMA SameTable ==
    /\ Lifecycle!ExecutionStates = ExecutionStates
    /\ \A from, to : Lifecycle!IsValidExecutionTransition(from, to) <=> IsValidExecutionTransition(from, to)
BY DEF Lifecycle!ExecutionStates, ExecutionStates, Lifecycle!ExecutionResults, ExecutionResults,
   Lifecycle!RollbackResults, RollbackResults, Lifecycle!IsValidExecutionTransition, IsValidExecutionTransition,
   Lifecycle!ValidExecutionTransitions, ValidExecutionTransitions

\* When handlers do not meet on a request, each of its steps moves the state
\* column along the table or leaves it alone.
LEMMA SoloMoves ==
    ASSUME NoCancelModes, BaseInv, AskedInv, BodiesInv, SerialInv, [Next]_vars
    PROVE  [Lifecycle!Next]_[r \in Requests |-> requests[r].state]
<1> DEFINE shown == [r \in Requests |-> requests[r].state]
<1>0. requests \in [Requests -> Row] /\ requests' \in [Requests -> Row]
  BY TypeStep DEF BaseInv, TypeInv, TablesOK
<1>1. ASSUME \A r \in Requests : requests'[r].state = requests[r].state
      PROVE  UNCHANGED shown
  BY <1>1
<1>2. ASSUME NEW r \in Requests, \A q \in Requests \ {r} : requests'[q].state = requests[q].state
      PROVE  shown' = [shown EXCEPT ![r] = requests'[r].state]
  BY <1>2
<1>3. ASSUME NEW c \in Calls, InsertRequest(c) PROVE [Lifecycle!Next]_shown
  <2>1. PICK r \in Requests : requests[r].state = "absent" /\ requests' = [requests EXCEPT ![r] = seen[c]]
    BY <1>3 DEF InsertRequest
  <2>2. requests'[r].state = requests[r].state \/ requests'[r].state = "requested"
    BY <1>3, CreatedRow
  <2>3. \A q \in Requests \ {r} : requests'[q].state = requests[q].state
    BY <1>0, <2>1
  <2>4. CASE requests'[r].state = requests[r].state
    BY <1>1, <2>3, <2>4
  <2>5. CASE requests'[r].state = "requested"
    <3>1. shown' = [shown EXCEPT ![r] = "requested"] /\ shown[r] = "absent"
      BY <1>2, <2>1, <2>3, <2>5
    <3> QED
      BY <3>1 DEF Lifecycle!Next, Lifecycle!Create
  <2> QED
    BY <2>2, <2>4, <2>5
<1>4. ASSUME NEW c \in Calls, Step(c) \/ Abandon(c) \/ FailInsideTry(c), RowWritten(c)
      PROVE  [Lifecycle!Next]_shown
  <2> DEFINE r == call[c].request
  <2>1. r \in Requests /\ \A q \in Requests \ {r} : requests'[q].state = requests[q].state
    BY <1>4 DEF RowWritten
  <2>2. CASE requests'[r].state = requests[r].state
    BY <1>1, <2>1, <2>2
  <2>3. CASE IsValidExecutionTransition(requests[r].state, requests'[r].state)
    <3>1. shown' = [shown EXCEPT ![r] = requests'[r].state] /\ shown[r] = requests[r].state
      BY <1>2, <2>1
    <3>2. requests[r].state # "absent" /\ requests'[r].state \in ExecutionStates
      <4>1. requests'[r].state # "absent"
        BY <1>4, WrittenStates DEF BaseInv, RowWritten
      <4>2. pc[c] # "idle" /\ call[c].operation # "request"
        BY <1>4, HandlerMoves, OwnRequest DEF BaseInv, RowWritten, StateWritten, LockSteps, LockedSteps,
           ExecuteLockedSteps, CancelLockedSteps, RollbackLockedSteps
      <4> QED
        BY <1>0, <2>1, <4>1, <4>2 DEF BaseInv, RowInv, Works, Row
    <3> QED
      BY <2>1, <2>3, <3>1, <3>2, SameTable DEF Lifecycle!Next, Lifecycle!Move
  <2> QED
    BY <1>4, <2>2, <2>3, WriteIsMove
<1>5. ASSUME NEW c \in Calls, Step(c) \/ Abandon(c) \/ FailInsideTry(c)
      PROVE  [Lifecycle!Next]_shown
  <2>1. UNCHANGED requests => UNCHANGED shown
    OBVIOUS
  <2> QED
    BY <1>3, <1>4, <1>5, <2>1, RowEffects DEF BaseInv
<1>6. ASSUME NEW c \in Calls, Begin(c) PROVE UNCHANGED shown
  BY <1>6, BeginFacts DEF BaseInv
<1>7. CASE Environment
  BY <1>1, <1>7, EnvironmentRows DEF BaseInv
<1>8. CASE UNCHANGED vars
  BY <1>8 DEF vars, tables
<1> QED
  BY <1>5, <1>6, <1>7, <1>8 DEF Next

\* The documented table is followed as long as no two handlers work on one
\* request at a time, whatever they do to other requests of the action and
\* whatever is abandoned or fails: overlap on a request, and the adapter's
\* cancel modes, are all that leads a row off the table.
THEOREM SoloFollowsLifecycle ==
    ASSUME NoCancelModes
    PROVE  Spec /\ []Alone => FollowsLifecycle
<1>1. Init => Lifecycle!Init
  <2>1. Init => requests \in [Requests -> Row]
    BY TypeInit DEF TypeInv, TablesOK
  <2> QED
    BY <2>1, SameTable DEF Lifecycle!Init, Row
<1>2. BaseInv /\ AskedInv /\ BodiesInv /\ SerialInv /\ [Next]_vars =>
          [Lifecycle!Next]_[r \in Requests |-> requests[r].state]
  BY SoloMoves
<1>3. Spec /\ []Alone => [](BaseInv /\ AskedInv /\ BodiesInv /\ SerialInv)
  BY BaseInit, BaseStep, AskedInit, AskedStep, BodiesInit, BodiesStep, SerialInit, SerialStep, PTL DEF Spec
<1>4. Spec /\ []Alone => [][Lifecycle!Next]_[r \in Requests |-> requests[r].state]
  BY <1>2, <1>3, PTL DEF Spec
<1>5. Spec => Lifecycle!Init
  BY <1>1, PTL DEF Spec
<1> QED
  BY <1>4, <1>5, PTL DEF FollowsLifecycle, Lifecycle!Spec

\* In particular it is followed when one handler at a time is all there is.
THEOREM SerialFollowsLifecycle ==
    ASSUME NoCancelModes, \A c, d \in Calls : c = d
    PROVE  Spec => FollowsLifecycle
<1>1. Alone
  BY DEF Alone
<1> QED
  BY <1>1, SoloFollowsLifecycle, PTL

-------------------------------------------------------------------------------
\* When nothing fails, an execution under way has a handler that works on it.

RunSteps == {"write_started", "invoke_execute", "update_attempt", "write_result"}

AtWork(r) == \E c \in Calls : pc[c] \in RunSteps /\ call[c].request = r

\* A request that shows queued or started is being executed by somebody.
StartedHasHandler == \A r \in Requests : requests[r].state \in {"queued", "started"} => AtWork(r)

NothingFails == "crash" \notin Faults /\ "error" \notin Faults /\ "gate" \notin Faults

LEMMA RunStatement ==
    ASSUME HandlersOK, NEW c \in Calls, Step(c), pc[c] \in RunSteps \cup {"write_queued"}
    PROVE  \/ pc[c] = "write_queued" /\ pc'[c] = "write_started"
           \/ pc[c] = "write_started" /\ pc'[c] = "invoke_execute"
           \/ pc[c] = "invoke_execute" /\ pc'[c] = "update_attempt"
           \/ pc[c] = "update_attempt" /\ pc'[c] = "write_result"
           \/ WriteResult(c)
<1>1. ~LedgerStep(c) /\ ~PreparationStep(c)
  BY DEF RunSteps, LedgerStep, ReplayOrConflict, MissLedger, InsertLedger, LoseLedgerRace,
     PreparationStep, InsertRequest, BlockWithoutRollbackPlan, BlockByGate, WriteDryRun,
     WriteConfirmationRequired, CheckAction, ClearConfirmations, InsertConfirmation,
     DuplicateConfirmationThrows, WriteConfirmed
<1>2. ~LockStep(c)
  BY DEF RunSteps, LockStep, LockKeyConflict, InsertLock, MissLock, InspectLock, RecoverLock,
     RecoverNothing, ReleaseLock, ReleaseSteps
<1>3. ~CancelStep(c) /\ ~RollbackStep(c)
  BY DEF RunSteps, CancelStep, WriteCancelRequested, RefuseCancel, InvokeCancel, WriteCancelled, CompleteCancel,
     RollbackStep, WriteRollbackRequested, InsertRollback, InvokeRollback,
     UpdateRollback, WriteRollbackResult, CompleteRollback
<1>4. ExecuteStep(c)
  BY <1>1, <1>2, <1>3 DEF Step
<1>5. ASSUME NEW step, Continue(c, step) PROVE pc'[c] = step
  BY <1>5, ContinueFrame
<1> QED
  BY <1>4, <1>5 DEF RunSteps, ExecuteStep, ReadRequest, CheckConfirmation, InsertAttempt, DuplicateAttemptThrows,
     WriteQueued, WriteStarted, InvokeExecute, UpdateAttempt, CompleteExecute

LEMMA AtWorkStep ==
    ASSUME NothingFails
    PROVE  BaseInv /\ StartedHasHandler /\ [Next]_vars => StartedHasHandler'
<1> SUFFICES ASSUME BaseInv, StartedHasHandler, [Next]_vars, NEW r \in Requests,
                    requests'[r].state \in {"queued", "started"}
             PROVE  AtWork(r)'
  BY DEF StartedHasHandler
<1>0. HandlersOK /\ requests \in [Requests -> Row]
  BY DEF BaseInv, TypeInv, HandlersInv, TablesOK
<1>1. ASSUME NEW c \in Calls, Step(c) \/ Abandon(c) \/ FailInsideTry(c)
      PROVE  AtWork(r)'
  <2>1. Step(c)
    BY <1>1 DEF NothingFails, Abandon, FailInsideTry
  <2>2. /\ OtherHandlersStay(c)
        /\ pc'[c] # "idle" => call'[c] = call[c]
    BY <1>1, HandlerMoves DEF BaseInv
  <2>3. ASSUME WriteResult(c) PROVE r # call[c].request
    <3>1. requests'[call[c].request].state = ExecutionResult(seen[c].body) \/ call[c].request \notin Requests
      BY <1>0, <2>3 DEF WriteResult, UpdateRequestState
    <3>2. ExecutionResult(seen[c].body) \in ExecutionResults
      BY <1>0, ResultTypes DEF HandlersOK, Row
    <3> QED
      BY <3>1, <3>2 DEF ExecutionResults
  <2>4. ASSUME pc[c] \in RunSteps \cup {"write_queued"}, call[c].request = r PROVE AtWork(r)'
    BY <1>0, <2>1, <2>2, <2>3, <2>4, RunStatement DEF AtWork, RunSteps
  <2>5. CASE requests'[r].state = requests[r].state
    <3>1. PICK d \in Calls : pc[d] \in RunSteps /\ call[d].request = r
      BY <2>5 DEF StartedHasHandler, AtWork
    <3>2. CASE d # c
      BY <2>2, <3>1, <3>2 DEF OtherHandlersStay, AtWork
    <3> QED
      BY <2>4, <3>1, <3>2
  <2>6. CASE r = call[c].request /\ StateWritten(c, requests'[r].state)
    <3>1. RollbackResult(seen[c].body) \in RollbackResults /\ ExecutionResult(seen[c].body) \in ExecutionResults
      BY <1>0, ResultTypes DEF HandlersOK, Row
    <3>2. pc[c] \in {"write_queued", "write_started"}
      BY <2>6, <3>1 DEF StateWritten, RollbackResults, ExecutionResults
    <3> QED
      BY <2>4, <2>6, <3>2 DEF RunSteps
  <2> QED
    BY <1>1, <2>5, <2>6, StateEffects
<1>2. ASSUME requests'[r].state = requests[r].state,
             \A c \in Calls : pc[c] \in RunSteps => pc'[c] = pc[c] /\ call'[c] = call[c]
      PROVE  AtWork(r)'
  BY <1>2 DEF StartedHasHandler, AtWork
<1>3. ASSUME NEW c \in Calls, Begin(c) PROVE AtWork(r)'
  BY <1>2, <1>3, BeginFacts DEF BaseInv, OtherHandlersStay, RunSteps
<1>4. CASE Environment
  BY <1>2, <1>4, EnvironmentRows DEF BaseInv
<1>5. CASE UNCHANGED vars
  BY <1>2, <1>5 DEF vars, tables
<1> QED
  BY <1>1, <1>3, <1>4, <1>5 DEF Next

\* What StartedSettles rests on: as long as nothing fails, no request shows
\* queued or started without a handler that is about to write its outcome.
\* Cancellations that race with the execution change nothing about that.
THEOREM StartedIsAtWork ==
    ASSUME NothingFails
    PROVE  Spec => []StartedHasHandler
<1>1. Init => StartedHasHandler
  BY DEF Init, NoRow, StartedHasHandler
<1>2. BaseInv /\ StartedHasHandler /\ [Next]_vars => StartedHasHandler'
  BY AtWorkStep
<1> QED
  BY <1>1, <1>2, BaseInit, BaseStep, PTL DEF Spec

-------------------------------------------------------------------------------
\* A lock that outlasts its holders excludes.

LockLasts ==
    /\ lock # "expired"
    /\ ~overrun
    /\ \A c \in Calls : pc[c] # "recover_lock"

LEMMA LockLastsStep ==
    ASSUME "lock" \notin Expirable
    PROVE  BaseInv /\ LockLasts /\ [Next]_vars => LockLasts'
<1> SUFFICES ASSUME BaseInv, LockLasts, [Next]_vars PROVE LockLasts'
  OBVIOUS
<1>0. TypeInv /\ HandlersOK
  BY DEF BaseInv, TypeInv, HandlersInv
<1>1. ASSUME NEW c \in Calls, Begin(c) PROVE LockLasts'
  <2>1. OtherHandlersStay(c) /\ UNCHANGED <<lock, overrun>> /\ pc'[c] # "recover_lock"
    BY <1>1, BeginFacts DEF BaseInv, Begun
  <2> QED
    BY <2>1 DEF LockLasts, OtherHandlersStay
<1>2. ASSUME NEW c \in Calls, Step(c) \/ Abandon(c) \/ FailInsideTry(c) PROVE LockLasts'
  <2>1. /\ OtherHandlersStay(c) /\ pc[c] # "idle"
        /\ pc'[c] = "idle" \/ Moves(c, pc[c], pc'[c])
    BY <1>0, <1>2, HandlerMoves
  <2>2. pc'[c] = "recover_lock" => pc[c] = "inspect_lock"
    <3>1. /\ call[c].operation \in Operations
          /\ pc[c] \in {"acquire_lock", "recover_lock"} => call[c].operation \in LockedOperations
      BY <1>0, <2>1, StepSets DEF TypeInv, HandlersInv
    <3> QED
      BY <2>1, <3>1, OwnSets DEF Moves, AfterLedger, AfterLock, ReleaseSteps, Operations, LockedOperations
  <2>3. CASE LockStep(c)
    <3>1. ~RecoverLock(c)
      BY DEF LockLasts, RecoverLock
    <3>2. /\ lock' # "expired" /\ UNCHANGED overrun
          /\ pc[c] = "inspect_lock" => pc'[c] = "idle"
      BY <1>0, <2>3, <3>1, EndFrame DEF LockStep, LockKeyConflict, InsertLock, MissLock, InspectLock, RecoverNothing,
         ReleaseLock, ReleaseSteps, LockLasts, tables, world
    <3> QED
      BY <2>1, <2>2, <3>2 DEF LockLasts, OtherHandlersStay
  <2>4. CASE pc[c] = "inspect_lock" /\ ~LockStep(c)
    <3>1. Abandon(c) \/ FailInsideTry(c)
      BY <1>2, <2>4 DEF Step, LedgerStep, ReplayOrConflict, MissLedger, InsertLedger, LoseLedgerRace,
         PreparationStep, InsertRequest, BlockWithoutRollbackPlan, BlockByGate, WriteDryRun,
         WriteConfirmationRequired, CheckAction, ClearConfirmations, InsertConfirmation,
         DuplicateConfirmationThrows, WriteConfirmed, ExecuteStep, ReadRequest, CheckConfirmation, InsertAttempt,
         DuplicateAttemptThrows, WriteQueued, WriteStarted, InvokeExecute, UpdateAttempt, WriteResult,
         CompleteExecute, CancelStep, WriteCancelRequested, RefuseCancel, InvokeCancel, WriteCancelled,
         CompleteCancel, RollbackStep, WriteRollbackRequested, InsertRollback, InvokeRollback,
         UpdateRollback, WriteRollbackResult, CompleteRollback
    <3>2. pc'[c] \in {"idle", "release_failed"} /\ UNCHANGED <<lock, overrun>>
      BY <1>0, <3>1, EndFrame, ContinueFrame DEF Abandon, FailInsideTry, tables, world
    <3> QED
      BY <2>1, <3>2 DEF LockLasts, OtherHandlersStay
  <2>5. CASE pc[c] # "inspect_lock" /\ ~LockStep(c)
    <3>1. UNCHANGED <<lock, overrun>>
      BY <1>0, <1>2, <2>5, LockUntouched DEF Step
    <3> QED
      BY <2>1, <2>2, <2>5, <3>1 DEF LockLasts, OtherHandlersStay
  <2> QED
    BY <2>3, <2>4, <2>5
<1>3. CASE Environment
  BY <1>3 DEF Environment, ExpireLock, ExpireEvidence, ChangeAction, ExpireDryRun,
     ExpireConfirmation, world, LockLasts
<1>4. CASE UNCHANGED vars
  BY <1>4 DEF vars, tables, world, LockLasts
<1> QED
  BY <1>1, <1>2, <1>3, <1>4 DEF Next

LEMMA LockLastsInit == Init => LockLasts
BY DEF Init, LockLasts

\* With a lock that does not run out under its holder, whatever crashes and
\* fails, two handlers never hold it together, and a held lock has its row:
\* the exclusion of LockExcludes without its reservation.
THEOREM LastingLockExcludes ==
    ASSUME "lock" \notin Expirable
    PROVE  Spec => [](/\ \A c, d \in Calls : HoldsLock(c) /\ HoldsLock(d) => c = d
                      /\ (\E c \in Calls : HoldsLock(c)) => lock = "live")
<1>1. TypeInv /\ LockLasts /\ LockExcludes =>
          /\ \A c, d \in Calls : HoldsLock(c) /\ HoldsLock(d) => c = d
          /\ (\E c \in Calls : HoldsLock(c)) => lock = "live"
  BY DEF TypeInv, TablesOK, LockLasts, LockExcludes
<1>2. BaseInv /\ LockLasts /\ [Next]_vars => LockLasts'
  BY LockLastsStep
<1>3. BaseInv => TypeInv
  BY DEF BaseInv
<1> QED
  BY <1>1, <1>2, <1>3, BaseInit, BaseStep, LockLastsInit, MutualExclusion, PTL DEF Spec

\* With such a lock nobody else gets it while its row is live: what the
\* documentation calls one active lock, and what the run lock_takeover finds
\* violated, fails only through the take-over of an expired row.
THEOREM LastingLockIsOne ==
    ASSUME "lock" \notin Expirable
    PROVE  Spec => OneActiveLock
<1> DEFINE Entry == \A c \in Calls : lock = "live" /\ HoldsLock(c)' => HoldsLock(c)
<1>1. BaseInv /\ LockLasts /\ [Next]_vars => [Entry]_<<lock, pc>>
  <2> SUFFICES ASSUME BaseInv, LockLasts, [Next]_vars PROVE Entry \/ UNCHANGED <<lock, pc>>
    OBVIOUS
  <2>0. TypeInv /\ HandlersOK
    BY DEF BaseInv, TypeInv, HandlersInv
  <2>1. ASSUME NEW c \in Calls, OtherHandlersStay(c), lock = "live" /\ HoldsLock(c)' => HoldsLock(c)
        PROVE  Entry
    BY <2>1 DEF OtherHandlersStay, HoldsLock
  <2>2. ASSUME NEW c \in Calls, Begin(c) \/ Step(c) \/ Abandon(c) \/ FailInsideTry(c), ~LockStep(c)
        PROVE  Entry
    BY <2>0, <2>1, <2>2, LockUntouched DEF Step
  <2>3. ASSUME NEW c \in Calls, LockStep(c)
        PROVE  Entry
    <3>1. ~RecoverLock(c)
      BY DEF LockLasts, RecoverLock
    <3>2. lock = "live" => ~HoldsLock(c)'
      BY <2>0, <2>3, <3>1, EndFrame, ContinueFrame, HolderSets DEF LockStep, LockKeyConflict, InsertLock, MissLock,
         InspectLock, RecoverNothing, ReleaseLock, HoldsLock
    <3>3. OtherHandlersStay(c)
      BY <2>0, <2>3, HandlerMoves DEF Step
    <3> QED
      BY <2>1, <3>2, <3>3
  <2>4. CASE Environment
    BY <2>4, EnvironmentRows DEF BaseInv, HoldsLock
  <2>5. CASE UNCHANGED vars
    BY <2>5 DEF vars, tables
  <2> QED
    BY <2>2, <2>3, <2>4, <2>5 DEF Next
<1>2. BaseInv /\ LockLasts /\ [Next]_vars => LockLasts'
  BY LockLastsStep
<1> QED
  BY <1>1, <1>2, BaseInit, BaseStep, LockLastsInit, PTL DEF Spec, OneActiveLock

===============================================================================
