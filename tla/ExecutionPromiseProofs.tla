------------------------ MODULE ExecutionPromiseProofs -------------------------
(***************************************************************************)
(* The execution boundary keeps its promise to the world: proof that       *)
(* ExecutionBoundary implements ExecutionPromise.                          *)
(***************************************************************************)
EXTENDS ExecutionBoundaryProofs

\* A handler that has passed the ledger.
EarlySteps == {"idle", "read_request", "read_ledger", "insert_ledger"}

\* The locked part of each operation is that operation's own.
OwnSteps(c) ==
    /\ pc[c] \in ExecuteLockedSteps => call[c].operation = "execute"
    /\ pc[c] \in CancelLockedSteps => call[c].operation = "cancel"
    /\ pc[c] \in RollbackLockedSteps \cup {"write_rollback_requested"} => call[c].operation = "rollback"

\* An execution that has passed the ledger owns a record of its request there;
\* once the attempt is recorded the handler and the row agree on the result;
\* and once the ledger record is completed it holds a result.
Traced(c) ==
    /\ OwnSteps(c)
    /\ pc[c] \in {"write_result", "complete_execute"} =>
          attempts[call[c].request] = ExecutionResult(seen[c].body)
    /\ call[c].operation = "execute" /\ pc[c] \notin EarlySteps =>
          /\ ledger[LedgerKey(c)].present
          /\ ledger[LedgerKey(c)].hash.request = call[c].request
    /\ call[c].operation = "execute" /\ pc[c] = "release_ok" =>
          ledger[LedgerKey(c)].stored # "none"

\* What the ledger stores for a key is the result of the attempt of the request
\* that the key was used for.
StoredIsRecorded ==
    \A k \in Keys : LET record == ledger[<<"execute", k>>] IN
        record.stored # "none" =>
            /\ record.present
            /\ record.hash.request \in Requests
            /\ record.stored \in ExecutionResults
            /\ attempts[record.hash.request] = record.stored

ToldIsRecorded ==
    \A a \in told : a.operation = "execute" =>
        /\ a.request \in Requests
        /\ a.value \in ExecutionResults
        /\ attempts[a.request] = a.value

RecordInv ==
    /\ \A c \in Calls : Traced(c)
    /\ StoredIsRecorded
    /\ ToldIsRecorded

FinalAttempts ==
    \A r \in Requests : attempts[r] \in ExecutionResults => attempts'[r] = attempts[r]

\* Ledger records are never replaced, and results of executions only added.
LedgerKept ==
    /\ \A i \in LedgerIndex : ledger[i].present =>
          ledger'[i].present /\ ledger'[i].hash = ledger[i].hash
    /\ \A k \in Keys : LET i == <<"execute", k>> IN
          /\ ledger[i].present => ledger'[i].stored = ledger[i].stored
          /\ ledger'[i].stored \in {"none", ledger[i].stored}

\* Attempts change only from "none" to "started" and from there to a result.
LEMMA AttemptsFinal == TypeInv /\ AttemptInv /\ [Next]_vars => FinalAttempts
<1> SUFFICES ASSUME TypeInv, AttemptInv, [Next]_vars PROVE FinalAttempts
  OBVIOUS
<1> USE DEF FinalAttempts
<1>1. ASSUME NEW c \in Calls, InsertAttempt(c) \/ UpdateAttempt(c)
      PROVE  FinalAttempts
  BY <1>1 DEF InsertAttempt, UpdateAttempt, AttemptInv, AttemptSteps, TypeInv, TablesOK, ExecutionResults
<1>2. ASSUME NEW c \in Calls, WriteQueued(c) \/ WriteStarted(c) \/ InvokeExecute(c)
      PROVE  FinalAttempts
  BY <1>2 DEF WriteQueued, WriteStarted, InvokeExecute, tables
<1>3. ASSUME NEW c \in Calls, Begin(c) \/ Step(c) \/ Abandon(c) \/ FailInsideTry(c)
      PROVE  FinalAttempts
  BY <1>1, <1>2, <1>3, AttemptUntouched DEF Step, ExecuteStep
<1>4. CASE Environment
  BY <1>4 DEF Environment, ExpireLock, ExpireEvidence, ChangeAction, ExpireDryRun, ExpireConfirmation
<1>5. CASE UNCHANGED vars
  BY <1>5 DEF vars, tables
<1> QED
  BY <1>3, <1>4, <1>5 DEF Next

\* The result of an attempt stays whatever happens to the request later.
THEOREM ResultIsFinal == Spec => AttemptResultIsFinal
<1>1. FinalAttempts => [\A r \in Requests : attempts[r] \in ExecutionResults => attempts'[r] = attempts[r]]_attempts
  BY DEF FinalAttempts
<1> QED
  BY <1>1, TypeInit, TypeStep, AttemptInit, AttemptStep, AttemptsFinal, PTL DEF Spec, AttemptResultIsFinal

\* A step of c that keeps attempts and ledger as they must be kept concerns
\* nobody else's record.
LEMMA RecordFrame ==
    ASSUME TypeInv, RecordInv, NEW c \in Calls, OtherHandlersStay(c),
           FinalAttempts, LedgerKept, UNCHANGED told, Traced(c)'
    PROVE  RecordInv'
<1>1. ASSUME NEW d \in Calls, d # c
      PROVE  Traced(d)'
  <2>1. pc'[d] = pc[d] /\ call'[d] = call[d] /\ seen'[d] = seen[d] /\ Traced(d)
    BY <1>1 DEF OtherHandlersStay, RecordInv
  <2>2. pc[d] \in {"write_result", "complete_execute"} =>
            attempts'[call[d].request] = ExecutionResult(seen[d].body)
    <3>1. pc[d] \in {"write_result", "complete_execute"} =>
              call[d].request \in Requests /\ ExecutionResult(seen[d].body) \in ExecutionResults
      BY StepSets, ResultTypes DEF TypeInv, HandlersInv, HandlersOK, Row, LockedOperations
    <3> QED
      BY <2>1, <3>1 DEF Traced, FinalAttempts
  <2>3. call[d].operation = "execute" /\ pc[d] \notin EarlySteps =>
            /\ LedgerKey(d)' = LedgerKey(d)
            /\ ledger'[LedgerKey(d)].present
            /\ ledger'[LedgerKey(d)].hash.request = call[d].request
            /\ ledger'[LedgerKey(d)].stored = ledger[LedgerKey(d)].stored
    <3>1. call[d].operation = "execute" /\ pc[d] \notin EarlySteps =>
              call[d].key \in Keys /\ LedgerKey(d) = <<"execute", call[d].key>> /\ LedgerKey(d) \in LedgerIndex
      BY DEF TypeInv, HandlersInv, EarlySteps, LedgerKey, LedgerIndex
    <3> QED
      BY <2>1, <3>1 DEF Traced, LedgerKept, LedgerKey
  <2> QED
    BY <2>1, <2>2, <2>3 DEF Traced, OwnSteps, EarlySteps
<1>2. StoredIsRecorded'
  <2> SUFFICES ASSUME NEW k \in Keys, ledger'[<<"execute", k>>].stored # "none"
               PROVE  LET record == ledger'[<<"execute", k>>] IN
                        /\ record.present
                        /\ record.hash.request \in Requests
                        /\ record.stored \in ExecutionResults
                        /\ attempts'[record.hash.request] = record.stored
    BY DEF StoredIsRecorded
  <2>1. <<"execute", k>> \in LedgerIndex
    BY DEF LedgerIndex, Operations, LockedOperations
  <2> QED
    BY <2>1 DEF RecordInv, StoredIsRecorded, LedgerKept, FinalAttempts
<1>3. ToldIsRecorded'
  BY DEF RecordInv, ToldIsRecorded, FinalAttempts
<1> QED
  BY <1>1, <1>2, <1>3 DEF RecordInv

-------------------------------------------------------------------------------
LEMMA OwnSets ==
    /\ ExecuteLockedSteps =
          {"insert_attempt", "write_queued", "write_started", "invoke_execute",
           "update_attempt", "write_result", "complete_execute"}
    /\ CancelLockedSteps = {"write_cancel_requested", "invoke_cancel", "write_cancelled", "complete_cancel"}
    /\ RollbackLockedSteps = {"insert_rollback", "invoke_rollback", "update_rollback",
                              "write_rollback_result", "complete_rollback"}
    /\ EarlySteps = {"idle", "read_request", "read_ledger", "insert_ledger"}
BY DEF ExecuteLockedSteps, CancelLockedSteps, RollbackLockedSteps, EarlySteps

LEMMA KeptLedger ==
    ASSUME UNCHANGED ledger
    PROVE  LedgerKept
BY DEF LedgerKept

LEMMA EndTraced ==
    ASSUME TypeInv, NEW c \in Calls, End(c)
    PROVE  Traced(c)'
BY EndFrame, OwnSets DEF TypeInv, HandlersInv, Traced, OwnSteps

\* Going on to a step that asks for nothing new.
LEMMA ContinueTraced ==
    ASSUME TypeInv, NEW c \in Calls, Traced(c), LedgerKept, NEW step, Continue(c, step),
           pc[c] \notin EarlySteps, step \notin {"write_result", "complete_execute", "release_ok"},
           step \in ExecuteLockedSteps => call[c].operation = "execute",
           step \in CancelLockedSteps => call[c].operation = "cancel",
           step \in RollbackLockedSteps \cup {"write_rollback_requested"} => call[c].operation = "rollback"
    PROVE  Traced(c)'
<1>1. call[c].operation = "execute" => LedgerKey(c) \in LedgerIndex
  BY OwnSets DEF TypeInv, HandlersInv, LedgerKey, LedgerIndex
<1>2. pc'[c] = step /\ call' = call
  BY ContinueFrame DEF TypeInv, HandlersInv
<1> QED
  BY <1>1, <1>2 DEF Traced, OwnSteps, LedgerKey, LedgerKept

\* The steps that leave ledger and answers alone, up to recording an attempt.
LEMMA PlainRecord ==
    ASSUME TypeInv, RecordInv, FinalAttempts, NEW c \in Calls, OtherHandlersStay(c),
           UNCHANGED <<ledger, told>>, Traced(c)'
    PROVE  RecordInv'
BY KeptLedger, RecordFrame

LEMMA BeginRecord ==
    ASSUME TypeInv, RecordInv, FinalAttempts, NEW c \in Calls, Begin(c)
    PROVE  RecordInv'
<1> USE ArriveFrame DEF TypeInv, HandlersInv, tables, world
<1>1. /\ OtherHandlersStay(c) /\ UNCHANGED <<ledger, told>>
      /\ \/ pc'[c] \in {"read_ledger", "read_request"}
         \/ pc'[c] = "check_action" /\ call'[c].operation = "confirm"
  <2>1. ASSUME NEW key, NEW r, BeginDryRun(c, key, r) \/ BeginExecute(c, key, r) \/ BeginCancel(c, key, r)
        PROVE  /\ OtherHandlersStay(c) /\ UNCHANGED <<ledger, told>>
               /\ pc'[c] \in {"read_ledger", "read_request"}
    BY <2>1 DEF BeginDryRun, BeginExecute, BeginCancel
  <2>2. ASSUME NEW key, NEW r, BeginConfirm(c, key, r)
        PROVE  /\ OtherHandlersStay(c) /\ UNCHANGED <<ledger, told>>
               /\ pc'[c] = "check_action" /\ call'[c].operation = "confirm"
    BY <2>2 DEF BeginConfirm
  <2>3. ASSUME NEW key, NEW r, BeginRollback(c, key, r)
        PROVE  /\ OtherHandlersStay(c) /\ UNCHANGED <<ledger, told>>
               /\ pc'[c] = "read_ledger"
    BY <2>3 DEF BeginRollback
  <2>4. ASSUME NEW key, NEW body, BeginRequest(c, key, body)
        PROVE  /\ OtherHandlersStay(c) /\ UNCHANGED <<ledger, told>>
               /\ pc'[c] = "read_ledger"
    BY <2>4 DEF BeginRequest
  <2> QED
    BY <2>1, <2>2, <2>3, <2>4 DEF Begin
<1>2. Traced(c)'
  BY <1>1, OwnSets DEF Traced, OwnSteps
<1> QED
  BY <1>1, <1>2, PlainRecord

\* What a replay reports of an execution is recorded.
LEMMA ReplayedIsRecorded ==
    ASSUME TypeInv, RecordInv, NEW c \in Calls, ReplayOrConflict(c),
           NEW a \in ReplayedAnswers(c), a.operation = "execute"
    PROVE  /\ a.request \in Requests
           /\ a.value \in ExecutionResults
           /\ attempts[a.request] = a.value
<1>1. /\ a.request = call[c].request
      /\ call[c].operation = "execute"
      /\ a.value = ledger[LedgerKey(c)].stored /\ a.value # "none"
      /\ ledger[LedgerKey(c)].hash = RequestHash(c)
  BY DEF ReplayedAnswers, SameRequest
<1>2. ledger[LedgerKey(c)].hash.request = call[c].request /\ call[c].key \in Keys
  BY <1>1 DEF RequestHash, ReplayOrConflict, TypeInv, HandlersInv
<1> QED
  BY <1>1, <1>2 DEF RecordInv, StoredIsRecorded, LedgerKey

\* So is what a call reports that ran to its end.
LEMMA CompletedIsRecorded ==
    ASSUME TypeInv, RecordInv, NEW c \in Calls, pc[c] = "release_ok", call[c].operation = "execute"
    PROVE  /\ call[c].request \in Requests
           /\ ledger[LedgerKey(c)].stored \in ExecutionResults
           /\ attempts[call[c].request] = ledger[LedgerKey(c)].stored
<1>1. call[c].key \in Keys /\ call[c].request \in Requests
  BY DEF TypeInv, HandlersInv
<1>2. /\ ledger[LedgerKey(c)].stored # "none"
      /\ ledger[LedgerKey(c)].hash.request = call[c].request
  BY OwnSets DEF RecordInv, Traced
<1> QED
  BY <1>1, <1>2 DEF RecordInv, StoredIsRecorded, LedgerKey

LEMMA LedgerRecordStep ==
    ASSUME TypeInv, RecordInv, FinalAttempts, NEW c \in Calls, LedgerStep(c)
    PROVE  RecordInv'
<1> USE DEF TypeInv, HandlersInv
<1>0. Traced(c)
  BY DEF RecordInv
<1>1. CASE ReplayOrConflict(c)
  <2>1. /\ OtherHandlersStay(c) /\ UNCHANGED <<ledger, attempts>> /\ Traced(c)'
    BY <1>1, EndFrame, EndTraced DEF ReplayOrConflict, tables
  <2>2. ASSUME NEW a \in ReplayedAnswers(c), a.operation = "execute"
        PROVE  /\ a.request \in Requests
               /\ a.value \in ExecutionResults
               /\ attempts[a.request] = a.value
    BY <1>1, <2>2, ReplayedIsRecorded
  <2>3. ToldIsRecorded'
    BY <1>1, <2>1, <2>2 DEF ReplayOrConflict, RecordInv, ToldIsRecorded
  <2>4. \A d \in Calls : Traced(d)'
    BY <2>1 DEF RecordInv, Traced, OwnSteps, OtherHandlersStay, LedgerKey
  <2> QED
    BY <2>1, <2>3, <2>4 DEF RecordInv, StoredIsRecorded
<1>2. CASE MissLedger(c)
  <2>1. /\ OtherHandlersStay(c) /\ UNCHANGED <<ledger, told>> /\ pc'[c] = "insert_ledger"
    BY <1>2, ContinueFrame DEF MissLedger, tables, world
  <2>2. Traced(c)'
    BY <2>1, OwnSets DEF Traced, OwnSteps
  <2> QED
    BY <2>1, <2>2, PlainRecord
<1>3. CASE InsertLedger(c)
  <2> DEFINE i == LedgerKey(c)
  <2>1. i \in LedgerIndex /\ call[c].operation \in Operations
    BY <1>3 DEF InsertLedger, LedgerKey, LedgerIndex
  <2>2. /\ ledger' = [ledger EXCEPT ![i] = [present |-> TRUE, hash |-> RequestHash(c), stored |-> "none"]]
        /\ ~ledger[i].present
        /\ UNCHANGED told
        /\ OtherHandlersStay(c) /\ call' = call /\ seen' = seen
        /\ pc'[c] = AfterLedger[call[c].operation]
    BY <1>3, ContinueFrame DEF InsertLedger, world
  <2>3. LedgerKept
    BY <2>2 DEF LedgerKept, TablesOK, LedgerIndex, Operations, LockedOperations
  <2>4. /\ AfterLedger[call[c].operation] \notin
               {"write_result", "complete_execute", "release_ok"} \cup ExecuteLockedSteps
               \cup CancelLockedSteps \cup RollbackLockedSteps
        /\ AfterLedger[call[c].operation] = "write_rollback_requested" => call[c].operation = "rollback"
    BY <2>1, OwnSets DEF AfterLedger, Operations, LockedOperations
  <2>5. ledger'[i].present /\ ledger'[i].hash.request = call[c].request
    BY <2>1, <2>2 DEF RequestHash, TablesOK
  <2>6. Traced(c)'
    BY <2>2, <2>4, <2>5 DEF Traced, OwnSteps, LedgerKey
  <2> QED
    BY <2>2, <2>3, <2>6, RecordFrame
<1>4. CASE LoseLedgerRace(c)
  BY <1>4, EndFrame, EndTraced, PlainRecord DEF LoseLedgerRace, tables, world
<1> QED
  BY <1>1, <1>2, <1>3, <1>4 DEF LedgerStep

LEMMA PreparationRecord ==
    ASSUME TypeInv, RecordInv, FinalAttempts, NEW c \in Calls, PreparationStep(c)
    PROVE  RecordInv'
<1> USE DEF TypeInv, HandlersInv
<1>1. Traced(c)
  BY DEF RecordInv
<1>2. CASE CheckAction(c)
  <2>1. OtherHandlersStay(c) /\ UNCHANGED <<ledger, told>>
    BY <1>2, EndFrame, ContinueFrame DEF CheckAction, tables, world
  <2>2. Traced(c)'
    <3>1. CASE End(c)
      BY <3>1, EndTraced
    <3>2. CASE call[c].operation = "execute" /\ Continue(c, "check_confirmation")
      BY <1>1, <1>2, <2>1, <3>2, KeptLedger, ContinueTraced, OwnSets DEF CheckAction
    <3>3. CASE call[c].operation # "execute" /\ Continue(c, "read_ledger")
      BY <3>3, ContinueFrame, OwnSets DEF Traced, OwnSteps
    <3> QED
      BY <1>2, <3>1, <3>2, <3>3 DEF CheckAction
  <2> QED
    BY <2>1, <2>2, PlainRecord
<1>3. ASSUME \/ InsertRequest(c) \/ BlockWithoutRollbackPlan(c) \/ BlockByGate(c)
             \/ WriteConfirmationRequired(c) \/ DuplicateConfirmationThrows(c) \/ WriteConfirmed(c)
      PROVE  RecordInv'
  <2>1. End(c) /\ UNCHANGED <<ledger, told>>
    BY <1>3 DEF InsertRequest, BlockWithoutRollbackPlan, BlockByGate, WriteConfirmationRequired,
         DuplicateConfirmationThrows, WriteConfirmed, tables, world
  <2> QED
    BY <2>1, EndFrame, EndTraced, PlainRecord
<1>4. ASSUME WriteDryRun(c) \/ ClearConfirmations(c) \/ InsertConfirmation(c)
      PROVE  RecordInv'
  <2>1. PICK step \in {"write_confirmation_required", "insert_confirmation", "write_confirmed"} :
            Continue(c, step) /\ pc[c] \notin EarlySteps /\ UNCHANGED <<ledger, told>>
    BY <1>4, OwnSets DEF WriteDryRun, ClearConfirmations, InsertConfirmation, world
  <2>2. Traced(c)'
    BY <1>1, <2>1, KeptLedger, ContinueTraced, OwnSets
  <2> QED
    BY <2>1, <2>2, ContinueFrame, PlainRecord
<1> QED
  BY <1>2, <1>3, <1>4 DEF PreparationStep

LEMMA LockRecord ==
    ASSUME TypeInv, RecordInv, FinalAttempts, NEW c \in Calls, LockStep(c)
    PROVE  RecordInv'
<1> USE DEF TypeInv, HandlersInv
<1>1. Traced(c)
  BY DEF RecordInv
<1>2. ASSUME RecordLockKey(c)
      PROVE  LedgerKept
  BY <1>2 DEF RecordLockKey, LedgerKept, LockLedgerKey, TablesOK
<1>3. ASSUME LedgerKept, UNCHANGED told, pc[c] \in LockSteps, pc[c] \notin EarlySteps, EnterLock(c)
      PROVE  RecordInv'
  <2>1. call[c].operation \in LockedOperations
    BY <1>3
  <2>2. /\ AfterLock[call[c].operation] \notin {"write_result", "complete_execute", "release_ok",
                                               "write_rollback_requested"}
        /\ AfterLock[call[c].operation] \in ExecuteLockedSteps => call[c].operation = "execute"
        /\ AfterLock[call[c].operation] \in CancelLockedSteps => call[c].operation = "cancel"
        /\ AfterLock[call[c].operation] \in RollbackLockedSteps => call[c].operation = "rollback"
    BY <2>1, OwnSets DEF AfterLock, LockedOperations
  <2>3. Traced(c)'
    BY <1>1, <1>3, <2>2, ContinueTraced DEF EnterLock
  <2> QED
    BY <1>3, <2>3, ContinueFrame, RecordFrame DEF EnterLock
<1>4. CASE LockKeyConflict(c) \/ RecoverNothing(c)
  <2>1. End(c) /\ UNCHANGED <<ledger, told>>
    BY <1>4 DEF LockKeyConflict, RecoverNothing, tables, world
  <2> QED
    BY <2>1, EndFrame, EndTraced, PlainRecord
<1>5. CASE InsertLock(c)
  BY <1>2, <1>3, <1>5, StepSets, OwnSets DEF InsertLock, world
<1>6. CASE MissLock(c)
  <2>1. LedgerKept /\ Continue(c, "inspect_lock") /\ UNCHANGED told /\ pc[c] \notin EarlySteps
    BY <1>2, <1>6, OwnSets DEF MissLock, world
  <2>2. Traced(c)'
    BY <1>1, <2>1, ContinueTraced, OwnSets
  <2> QED
    BY <2>1, <2>2, ContinueFrame, RecordFrame
<1>7. CASE InspectLock(c)
  <2>1. UNCHANGED <<ledger, told>> /\ pc[c] \notin EarlySteps
    BY <1>7, OwnSets DEF InspectLock, tables, world
  <2>2. CASE End(c)
    BY <2>1, <2>2, EndFrame, EndTraced, PlainRecord
  <2>3. CASE Continue(c, "recover_lock")
    <3>1. Traced(c)'
      BY <1>1, <2>1, <2>3, KeptLedger, ContinueTraced, OwnSets
    <3> QED
      BY <2>1, <2>3, <3>1, ContinueFrame, PlainRecord
  <2> QED
    BY <1>7, <2>2, <2>3 DEF InspectLock
<1>8. CASE RecoverLock(c)
  BY <1>3, <1>8, KeptLedger, StepSets, OwnSets DEF RecoverLock
<1>9. CASE ReleaseLock(c)
  <2> DEFINE reply == [operation |-> call[c].operation, request |-> call[c].request,
                       value |-> ledger[LedgerKey(c)].stored]
  <2>1. /\ OtherHandlersStay(c) /\ UNCHANGED <<ledger, attempts>> /\ Traced(c)'
        /\ told' = told \/ (pc[c] = "release_ok" /\ told' = told \cup {reply})
    BY <1>9, EndFrame, EndTraced DEF ReleaseLock
  <2>2. ASSUME pc[c] = "release_ok", call[c].operation = "execute"
        PROVE  /\ call[c].request \in Requests
               /\ ledger[LedgerKey(c)].stored \in ExecutionResults
               /\ attempts[call[c].request] = ledger[LedgerKey(c)].stored
    BY <2>2, CompletedIsRecorded
  <2>3. ToldIsRecorded'
    BY <2>1, <2>2 DEF RecordInv, ToldIsRecorded
  <2>4. \A d \in Calls : Traced(d)'
    BY <2>1 DEF RecordInv, Traced, OwnSteps, OtherHandlersStay, LedgerKey
  <2> QED
    BY <2>1, <2>3, <2>4 DEF RecordInv, StoredIsRecorded
<1> QED
  BY <1>4, <1>5, <1>6, <1>7, <1>8, <1>9 DEF LockStep

LEMMA ExecuteRecord ==
    ASSUME TypeInv, RecordInv, FinalAttempts, NEW c \in Calls, ExecuteStep(c)
    PROVE  RecordInv'
<1> USE DEF TypeInv, HandlersInv
<1>1. Traced(c)
  BY DEF RecordInv
<1>2. CASE ReadRequest(c)
  <2>1. OtherHandlersStay(c) /\ UNCHANGED <<ledger, told>> /\ pc'[c] = "read_ledger"
    BY <1>2 DEF ReadRequest, HandlersOK, Goto, OtherHandlersStay, tables, world
  <2>2. Traced(c)'
    BY <2>1, OwnSets DEF Traced, OwnSteps
  <2> QED
    BY <2>1, <2>2, PlainRecord
<1>3. CASE CheckConfirmation(c) /\ End(c)
  BY <1>3, EndFrame, EndTraced, PlainRecord DEF CheckConfirmation, tables, world
<1>4. ASSUME \/ CheckConfirmation(c) /\ ~End(c)
             \/ InsertAttempt(c) \/ DuplicateAttemptThrows(c)
             \/ WriteQueued(c) \/ WriteStarted(c) \/ InvokeExecute(c)
      PROVE  RecordInv'
  <2>1. PICK step \in {"acquire_lock", "write_queued", "release_failed", "write_started",
                       "invoke_execute", "update_attempt"} :
            /\ Continue(c, step) /\ UNCHANGED <<ledger, told>> /\ pc[c] \notin EarlySteps
            /\ step \in ExecuteLockedSteps => pc[c] \in ExecuteLockedSteps
    BY <1>4, OwnSets DEF CheckConfirmation, InsertAttempt, DuplicateAttemptThrows, WriteQueued,
         WriteStarted, InvokeExecute, tables, world
  <2>2. Traced(c)'
    BY <1>1, <2>1, KeptLedger, ContinueTraced, OwnSets DEF Traced, OwnSteps
  <2> QED
    BY <2>1, <2>2, ContinueFrame, PlainRecord
<1>5. CASE UpdateAttempt(c) \/ WriteResult(c)
  <2>1. call[c].request \in Requests /\ call[c].operation = "execute"
    BY <1>1, <1>5, OwnSets DEF UpdateAttempt, WriteResult, Traced, OwnSteps
  <2>2. /\ OtherHandlersStay(c) /\ UNCHANGED <<ledger, told>> /\ call' = call /\ seen' = seen
        /\ pc[c] \notin EarlySteps
        /\ pc'[c] \in {"write_result", "complete_execute"}
        /\ attempts'[call[c].request] = ExecutionResult(seen[c].body)
    BY <1>1, <1>5, <2>1, ContinueFrame, OwnSets
    DEF UpdateAttempt, WriteResult, Traced, TablesOK, world
  <2>3. Traced(c)'
    BY <1>1, <2>1, <2>2, OwnSets DEF Traced, OwnSteps, LedgerKey
  <2> QED
    BY <2>2, <2>3, PlainRecord
<1>6. CASE CompleteExecute(c)
  <2> DEFINE i == LedgerKey(c)
             result == ExecutionResult(seen[c].body)
  <2>1. /\ call[c].operation = "execute" /\ call[c].request \in Requests /\ call[c].key \in Keys
        /\ ledger[i].present /\ ledger[i].hash.request = call[c].request
        /\ attempts[call[c].request] = result
    BY <1>1, <1>6, OwnSets DEF CompleteExecute, Traced, OwnSteps
  <2>2. i = <<"execute", call[c].key>> /\ i \in LedgerIndex
    BY <2>1 DEF LedgerKey, LedgerIndex, Operations, LockedOperations
  <2>3. result \in ExecutionResults /\ result # "none"
    BY ResultTypes DEF HandlersOK, Row, ExecutionResults
  <2>4. /\ ledger' = [ledger EXCEPT ![i].stored = result]
        /\ UNCHANGED <<attempts, told>>
        /\ OtherHandlersStay(c) /\ call' = call /\ seen' = seen /\ pc'[c] = "release_ok"
        /\ pc[c] \notin EarlySteps
    BY <1>6, ContinueFrame, OwnSets DEF CompleteExecute, StoreResult, world
  <2>5. \A j \in LedgerIndex :
          /\ ledger'[j].present = ledger[j].present /\ ledger'[j].hash = ledger[j].hash
          /\ ledger'[j].stored = IF j = i THEN result ELSE ledger[j].stored
    BY <2>2, <2>4 DEF TablesOK, LedgerRecord
  <2>6. StoredIsRecorded'
    <3> SUFFICES ASSUME NEW k \in Keys, ledger'[<<"execute", k>>].stored # "none"
                 PROVE  LET record == ledger'[<<"execute", k>>] IN
                          /\ record.present
                          /\ record.hash.request \in Requests
                          /\ record.stored \in ExecutionResults
                          /\ attempts'[record.hash.request] = record.stored
      BY DEF StoredIsRecorded
    <3>1. <<"execute", k>> \in LedgerIndex
      BY DEF LedgerIndex, Operations, LockedOperations
    <3> QED
      BY <2>1, <2>2, <2>3, <2>4, <2>5, <3>1 DEF RecordInv, StoredIsRecorded
  <2>7. ASSUME NEW d \in Calls
        PROVE  Traced(d)'
    <3>1. Traced(d) /\ call'[d] = call[d] /\ seen'[d] = seen[d] /\ (d # c => pc'[d] = pc[d])
      BY <2>4 DEF RecordInv, OtherHandlersStay
    <3>2. call[d].operation = "execute" /\ pc[d] \notin EarlySteps => LedgerKey(d) \in LedgerIndex
      BY OwnSets DEF LedgerKey, LedgerIndex
    <3>3. CASE d = c
      BY <2>1, <2>2, <2>3, <2>4, <2>5, <3>1, <3>3, OwnSets DEF Traced, OwnSteps, LedgerKey
    <3>4. CASE d # c
      BY <2>3, <2>4, <2>5, <3>1, <3>2, <3>4, OwnSets DEF Traced, OwnSteps, LedgerKey
    <3> QED
      BY <3>3, <3>4
  <2> QED
    BY <2>4, <2>6, <2>7 DEF RecordInv, ToldIsRecorded
<1> QED
  BY <1>2, <1>3, <1>4, <1>5, <1>6 DEF ExecuteStep

\* Cancellations and rollbacks complete ledger records of their own.
LEMMA OtherLockedRecord ==
    ASSUME TypeInv, RecordInv, FinalAttempts, NEW c \in Calls, CancelStep(c) \/ RollbackStep(c)
    PROVE  RecordInv'
<1> USE DEF TypeInv, HandlersInv
<1>1. Traced(c)
  BY DEF RecordInv
<1>2. ASSUME \/ WriteCancelRequested(c) \/ RefuseCancel(c) \/ InvokeCancel(c) \/ WriteCancelled(c)
             \/ WriteRollbackRequested(c) \/ InsertRollback(c) \/ InvokeRollback(c)
             \/ UpdateRollback(c) \/ WriteRollbackResult(c)
      PROVE  RecordInv'
  <2>1. PICK step \in CancelLockedSteps \cup RollbackLockedSteps \cup {"acquire_lock", "release_failed"} :
            /\ Continue(c, step) /\ UNCHANGED <<ledger, told>> /\ pc[c] \notin EarlySteps
            /\ step \in CancelLockedSteps => pc[c] \in CancelLockedSteps
            /\ step \in RollbackLockedSteps => pc[c] \in RollbackLockedSteps
    <3>1. CASE WriteCancelRequested(c) \/ RefuseCancel(c) \/ InvokeCancel(c) \/ WriteCancelled(c)
      BY <3>1, OwnSets DEF WriteCancelRequested, RefuseCancel, InvokeCancel, WriteCancelled, tables, world
    <3>2. CASE WriteRollbackRequested(c) \/ InsertRollback(c) \/ InvokeRollback(c)
               \/ UpdateRollback(c) \/ WriteRollbackResult(c)
      BY <3>2, OwnSets DEF WriteRollbackRequested, InsertRollback, InvokeRollback, UpdateRollback,
           WriteRollbackResult, tables, world
    <3> QED
      BY <1>2, <3>1, <3>2
  <2>2. Traced(c)'
    BY <1>1, <2>1, KeptLedger, ContinueTraced, OwnSets DEF Traced, OwnSteps
  <2> QED
    BY <2>1, <2>2, ContinueFrame, PlainRecord
<1>3. CASE CompleteCancel(c) \/ CompleteRollback(c)
  <2>1. call[c].operation # "execute"
    BY <1>1, <1>3, OwnSets DEF CompleteCancel, CompleteRollback, Traced, OwnSteps
  <2>2. PICK value :
          /\ ledger' = [ledger EXCEPT ![LedgerKey(c)].stored = value]
          /\ UNCHANGED told /\ Continue(c, "release_ok")
    BY <1>3 DEF CompleteCancel, CompleteRollback, StoreResult, world
  <2>3. LedgerKept
    BY <2>1, <2>2 DEF LedgerKept, LedgerKey, TablesOK
  <2>4. Traced(c)'
    BY <2>1, <2>2, ContinueFrame, OwnSets DEF Traced, OwnSteps
  <2> QED
    BY <2>2, <2>3, <2>4, ContinueFrame, RecordFrame
<1> QED
  BY <1>2, <1>3 DEF CancelStep, RollbackStep

LEMMA FaultRecord ==
    ASSUME TypeInv, RecordInv, FinalAttempts, NEW c \in Calls, Abandon(c) \/ FailInsideTry(c)
    PROVE  RecordInv'
<1> USE DEF TypeInv, HandlersInv
<1>1. CASE Abandon(c)
  BY <1>1, EndFrame, EndTraced, PlainRecord DEF Abandon, tables, world
<1>2. CASE FailInsideTry(c)
  <2>1. Continue(c, "release_failed") /\ UNCHANGED <<ledger, told>> /\ pc[c] \notin EarlySteps
    BY <1>2, OwnSets DEF FailInsideTry, LockedSteps, tables, world
  <2>2. Traced(c)'
    BY <2>1, KeptLedger, ContinueTraced, OwnSets DEF RecordInv
  <2> QED
    BY <2>1, <2>2, ContinueFrame, PlainRecord
<1> QED
  BY <1>1, <1>2

LEMMA EnvironmentRecord ==
    ASSUME TypeInv, RecordInv, Environment
    PROVE  RecordInv'
<1>1. /\ UNCHANGED <<attempts, ledger, told, pc, call>>
      /\ \A c \in Calls : seen'[c].body = seen[c].body
  <2>1. CASE \E r \in Requests : ExpireDryRun(r)
    <3>1. \A c \in Calls : seen[c] \in [state : ExecutionStates \cup {"absent"}, body : Body,
                                       actionHash : Nat, dryRun : {"none", "fresh", "expired"}]
      BY DEF TypeInv, HandlersInv, HandlersOK, Row
    <3> QED
      BY <2>1, <3>1 DEF ExpireDryRun, world
  <2>2. CASE \E r \in Requests : ExpireConfirmation(r)
    BY <2>2 DEF ExpireConfirmation, world
  <2>3. CASE ExpireLock \/ ExpireEvidence \/ ChangeAction
    BY <2>3 DEF ExpireLock, ExpireEvidence, ChangeAction, world
  <2> QED
    BY <2>1, <2>2, <2>3 DEF Environment
<1>2. \A c \in Calls : ExecutionResult(seen[c].body)' = ExecutionResult(seen[c].body)
  BY <1>1 DEF ExecutionResult
<1> QED
  BY <1>1, <1>2 DEF RecordInv, Traced, OwnSteps, LedgerKey, StoredIsRecorded, ToldIsRecorded

LEMMA RecordInit == Init => RecordInv
<1> SUFFICES ASSUME Init PROVE RecordInv
  OBVIOUS
<1>1. \A c \in Calls : Traced(c)
  BY OwnSets DEF Init, Traced, OwnSteps
<1>2. StoredIsRecorded
  BY DEF Init, StoredIsRecorded, NoRecord, LedgerIndex, Operations, LockedOperations
<1>3. ToldIsRecorded
  BY DEF Init, ToldIsRecorded
<1> QED
  BY <1>1, <1>2, <1>3 DEF RecordInv

LEMMA RecordStep == TypeInv /\ AttemptInv /\ RecordInv /\ [Next]_vars => RecordInv'
<1> SUFFICES ASSUME TypeInv, AttemptInv, RecordInv, [Next]_vars PROVE RecordInv'
  OBVIOUS
<1>1. FinalAttempts
  BY AttemptsFinal
<1>2. ASSUME NEW c \in Calls, Begin(c) \/ Step(c) \/ Abandon(c) \/ FailInsideTry(c)
      PROVE  RecordInv'
  BY <1>1, <1>2, BeginRecord, LedgerRecordStep, PreparationRecord, LockRecord, ExecuteRecord,
     OtherLockedRecord, FaultRecord DEF Step
<1>3. CASE UNCHANGED vars
  BY <1>3 DEF vars, tables, world, RecordInv, Traced, OwnSteps, LedgerKey, ExecutionResult,
     StoredIsRecorded, ToldIsRecorded
<1> QED
  BY <1>2, <1>3, EnvironmentRecord DEF Next

\* Nobody is told another result than the one the attempt row holds.
THEOREM RecordedAnswers == Spec => []AnswersAreRecorded
<1>1. RecordInv => AnswersAreRecorded
  BY DEF RecordInv, ToldIsRecorded, AnswersAreRecorded
<1> QED
  BY <1>1, TypeInit, TypeStep, AttemptInit, AttemptStep, RecordInit, RecordStep, PTL DEF Spec

-------------------------------------------------------------------------------
\* Refinement of ExecutionPromise.

Answers == {<<a.request, a.value>> : a \in {b \in told : b.operation = "execute"}}

\* Answers come from a replay or from the end of a call, and nowhere else.
LEMMA AnswersUntouched ==
    ASSUME NEW c \in Calls,
           \/ Begin(c) \/ MissLedger(c) \/ InsertLedger(c) \/ LoseLedgerRace(c)
           \/ PreparationStep(c) \/ (LockStep(c) /\ ~ReleaseLock(c)) \/ ExecuteStep(c)
           \/ CancelStep(c) \/ RollbackStep(c) \/ Abandon(c) \/ FailInsideTry(c)
    PROVE  UNCHANGED told
<1> USE DEF world
<1>1. CASE Begin(c)
  BY <1>1 DEF Begin, BeginRequest, BeginDryRun, BeginConfirm, BeginExecute, BeginCancel,
       BeginRollback, Arrive
<1>2. CASE MissLedger(c) \/ InsertLedger(c) \/ LoseLedgerRace(c)
  BY <1>2 DEF MissLedger, InsertLedger, LoseLedgerRace
<1>3. CASE PreparationStep(c)
  BY <1>3 DEF PreparationStep, InsertRequest, BlockWithoutRollbackPlan, BlockByGate, WriteDryRun,
       WriteConfirmationRequired, CheckAction, ClearConfirmations, InsertConfirmation,
       DuplicateConfirmationThrows, WriteConfirmed
<1>4. CASE LockStep(c) /\ ~ReleaseLock(c)
  BY <1>4 DEF LockStep, LockKeyConflict, InsertLock, MissLock, InspectLock, RecoverLock, RecoverNothing
<1>5. CASE ExecuteStep(c)
  BY <1>5 DEF ExecuteStep, ReadRequest, CheckConfirmation, InsertAttempt, DuplicateAttemptThrows,
       WriteQueued, WriteStarted, InvokeExecute, UpdateAttempt, WriteResult, CompleteExecute
<1>6. CASE CancelStep(c)
  BY <1>6 DEF CancelStep, WriteCancelRequested, RefuseCancel, InvokeCancel, WriteCancelled, CompleteCancel
<1>7. CASE RollbackStep(c)
  BY <1>7 DEF RollbackStep, WriteRollbackRequested, InsertRollback, InvokeRollback, UpdateRollback,
       WriteRollbackResult, CompleteRollback
<1>8. CASE Abandon(c) \/ FailInsideTry(c)
  BY <1>8 DEF Abandon, FailInsideTry
<1> QED
  BY <1>1, <1>2, <1>3, <1>4, <1>5, <1>6, <1>7, <1>8

LEMMA PromiseStutter ==
    ASSUME UNCHANGED <<attempts, executions, told>>
    PROVE  UNCHANGED Promise!vars
BY DEF Promise!vars

\* A step that adds at most one answer about c's request, the one in the record.
LEMMA PromiseAnswer ==
    ASSUME UNCHANGED <<attempts, executions>>, NEW reply,
           told' = told \/ told' = told \cup {reply},
           reply.operation = "execute" =>
               reply.request \in Requests /\ reply.value = attempts[reply.request]
                   /\ reply.value \in ExecutionResults
    PROVE  [Promise!Next]_(Promise!vars)
<1>1. CASE told' = told
  BY <1>1, PromiseStutter
<1>2. CASE told' = told \cup {reply} /\ reply.operation # "execute"
  <2>1. Answers' = Answers
    BY <1>2 DEF Answers
  <2> QED
    BY <2>1 DEF Promise!vars, Answers
<1>3. CASE told' = told \cup {reply} /\ reply.operation = "execute"
  <2>1. Answers' = Answers \cup {<<reply.request, attempts[reply.request]>>}
    BY <1>3 DEF Answers
  <2>2. Promise!Answer(reply.request)
    BY <1>3, <2>1 DEF Promise!Answer, Answers
  <2> QED
    BY <1>3, <2>2 DEF Promise!Next
<1> QED
  BY <1>1, <1>2, <1>3

LEMMA PromiseInit == Init => Promise!Init
BY DEF Init, Promise!Init

\* The four steps of an execution that the promise sees.
LEMMA PromiseExecute ==
    ASSUME TypeInv, AttemptInv, NEW c \in Calls,
           \/ InsertAttempt(c) \/ WriteQueued(c) \/ WriteStarted(c) \/ InvokeExecute(c) \/ UpdateAttempt(c)
    PROVE  [Promise!Next]_(Promise!vars)
<1> USE DEF TypeInv, HandlersInv
<1> DEFINE r == call[c].request
<1>1. r \in Requests
  BY StepSets DEF InsertAttempt, WriteQueued, WriteStarted, InvokeExecute, UpdateAttempt, LockedOperations
<1>2. CASE InsertAttempt(c)
  <2>1. Promise!Claim(r)
    BY <1>2 DEF InsertAttempt, Promise!Claim, world
  <2> QED
    BY <1>1, <2>1 DEF Promise!Next
<1>3. CASE WriteQueued(c) \/ WriteStarted(c)
  BY <1>3, PromiseStutter DEF WriteQueued, WriteStarted, world
<1>4. CASE InvokeExecute(c)
  <2>1. attempts[r] = "started" /\ executions[r] = 0
    BY <1>1, <1>4 DEF InvokeExecute, AttemptInv, AttemptSteps
  <2>2. executions' = [executions EXCEPT ![r] = 1]
    BY <1>1, <1>4, <2>1 DEF InvokeExecute, WorldOK
  <2>3. Promise!RunAdapter(r)
    BY <1>4, <2>1, <2>2 DEF InvokeExecute, Promise!RunAdapter, tables
  <2> QED
    BY <1>1, <2>3 DEF Promise!Next
<1>5. CASE UpdateAttempt(c)
  <2>1. attempts[r] = "started" /\ executions[r] = 1
    BY <1>1, <1>5 DEF UpdateAttempt, AttemptInv, AttemptSteps
  <2>2. ExecutionResult(seen[c].body) \in ExecutionResults
    BY ResultTypes DEF HandlersOK, Row
  <2>3. Promise!Record(r, ExecutionResult(seen[c].body))
    BY <1>5, <2>1 DEF UpdateAttempt, Promise!Record, world
  <2> QED
    BY <1>1, <2>2, <2>3 DEF Promise!Next
<1> QED
  BY <1>2, <1>3, <1>4, <1>5

\* The two steps that answer an operator.
LEMMA PromiseAnswers ==
    ASSUME TypeInv, RecordInv, NEW c \in Calls, ReplayOrConflict(c) \/ ReleaseLock(c)
    PROVE  [Promise!Next]_(Promise!vars)
<1>1. UNCHANGED <<attempts, executions>>
  BY DEF ReplayOrConflict, ReleaseLock, tables
<1>2. CASE ReplayOrConflict(c) /\ ReplayedAnswers(c) = {}
  BY <1>1, <1>2, PromiseStutter DEF ReplayOrConflict
<1>3. CASE ReplayOrConflict(c) /\ ReplayedAnswers(c) # {}
  <2>1. PICK reply \in ReplayedAnswers(c) : ReplayedAnswers(c) = {reply}
    BY <1>3 DEF ReplayedAnswers
  <2>2. told' = told \cup {reply}
    BY <1>3, <2>1 DEF ReplayOrConflict
  <2> QED
    BY <1>1, <1>3, <2>1, <2>2, ReplayedIsRecorded, PromiseAnswer
<1>4. CASE ReleaseLock(c)
  <2> DEFINE reply == [operation |-> call[c].operation, request |-> call[c].request,
                       value |-> ledger[LedgerKey(c)].stored]
  <2>1. told' = told \/ (pc[c] = "release_ok" /\ told' = told \cup {reply})
    BY <1>4 DEF ReleaseLock
  <2>2. CASE told' = told
    BY <1>1, <2>2, PromiseStutter
  <2>3. CASE pc[c] = "release_ok" /\ told' = told \cup {reply}
    <3>1. reply.operation = "execute" =>
              reply.request \in Requests /\ reply.value = attempts[reply.request]
                  /\ reply.value \in ExecutionResults
      BY <2>3, CompletedIsRecorded
    <3> QED
      BY <1>1, <2>3, <3>1, PromiseAnswer
  <2> QED
    BY <2>1, <2>2, <2>3
<1> QED
  BY <1>2, <1>3, <1>4

LEMMA PromiseStep ==
    TypeInv /\ AttemptInv /\ RecordInv /\ [Next]_vars => [Promise!Next]_(Promise!vars)
<1> SUFFICES ASSUME TypeInv, AttemptInv, RecordInv, [Next]_vars
             PROVE  [Promise!Next]_(Promise!vars)
  OBVIOUS
<1>1. ASSUME NEW c \in Calls,
             \/ Begin(c) \/ MissLedger(c) \/ InsertLedger(c) \/ LoseLedgerRace(c)
             \/ PreparationStep(c) \/ (LockStep(c) /\ ~ReleaseLock(c))
             \/ ReadRequest(c) \/ CheckConfirmation(c) \/ DuplicateAttemptThrows(c)
             \/ WriteResult(c) \/ CompleteExecute(c)
             \/ CancelStep(c) \/ RollbackStep(c) \/ Abandon(c) \/ FailInsideTry(c)
      PROVE  [Promise!Next]_(Promise!vars)
  BY <1>1, AttemptUntouched, AnswersUntouched, PromiseStutter DEF LedgerStep, ExecuteStep
<1>2. ASSUME NEW c \in Calls, Begin(c) \/ Step(c) \/ Abandon(c) \/ FailInsideTry(c)
      PROVE  [Promise!Next]_(Promise!vars)
  BY <1>1, <1>2, PromiseExecute, PromiseAnswers DEF Step, LedgerStep, ExecuteStep, LockStep
<1>3. CASE Environment
  BY <1>3, PromiseStutter DEF Environment, ExpireLock, ExpireEvidence, ChangeAction, ExpireDryRun,
       ExpireConfirmation, world
<1>4. CASE UNCHANGED vars
  BY <1>4, PromiseStutter DEF vars, tables, world
<1> QED
  BY <1>2, <1>3, <1>4 DEF Next

\* The boundary implements its promise: every step of it is a claim, a run of
\* the adapter, a record, an answer, or nothing to the world outside.
THEOREM ImplementsPromise == Spec => KeepsPromise
BY TypeInit, TypeStep, AttemptInit, AttemptStep, RecordInit, RecordStep, PromiseInit, PromiseStep, PTL
DEF Spec, KeepsPromise, Promise!Spec

===============================================================================
