--------------------------- MODULE ExecutionBoundary ---------------------------
(***************************************************************************)
(* The governed execution boundary of one approved action                  *)
(* (src/lib/actions/execution/ and its routes).                            *)
(*                                                                         *)
(* Every call is an HTTP request served by a handler of its own.  Handlers *)
(* share nothing but the database, each database statement is atomic, and  *)
(* there is no transaction around several of them: a step below is one     *)
(* statement, or one adapter call, with the local computation that follows *)
(* it.  What a handler read earlier it keeps in seen[c], however stale.    *)
(* Audit and step rows, which nothing reads back, are left out; a failure  *)
(* to write one is a failure of the statement before or after it.          *)
(***************************************************************************)
EXTENDS Naturals, FiniteSets, ExecutionTransitions

CONSTANTS
    Calls,              \* the handlers that may be running at the same time
    Requests,           \* ids of the execution requests of the action
    NoRequest,          \* the id of no request
    Bodies,             \* what a request may ask for, a subset of Body
    KeysFor,            \* operation -> the idempotency keys clients send with it; its domain is enabled
    NoKey,              \* the key of no call
    StartConfirmed,     \* requests that are already confirmed at the start
    MaxActionChanges,   \* bound: how often the action row is rewritten
    Expirable,          \* which clocks run out: "lock", "dry_run", "confirmation", "evidence"
    Faults              \* which faults occur: "crash", "error", "gate"

LockedOperations == {"execute", "cancel", "rollback"}

Operations == {"request", "dry_run", "confirm"} \cup LockedOperations

\* The mock adapter's modes, up to what the handlers can tell apart.
Modes == {"success", "partial_success", "failure", "timeout", "cancel", "rollback_failure"}

Body == [mode : Modes, irreversible : BOOLEAN, rollbackPlan : BOOLEAN]

Keys == UNION {KeysFor[op] : op \in DOMAIN KeysFor}

ASSUME ConstantsAssumption ==
    /\ NoRequest \notin Requests
    /\ Bodies \subseteq Body
    /\ DOMAIN KeysFor \subseteq Operations
    /\ NoKey \notin Keys
    /\ StartConfirmed \subseteq Requests
    /\ MaxActionChanges \in Nat

-------------------------------------------------------------------------------
VARIABLES
    action,         \* action_actions_v1: executable (approved at L4, evidence unexpired), state hash
    requests,       \* action_execution_requests_v1, by id
    confirmation,   \* action_execution_confirmations_v1, by request
    attempts,       \* action_execution_attempts_v1: status of the attempt with index 1, by request
    rollbacks,      \* action_execution_rollbacks_v1: state, by the key of the rollback call
    lock,           \* action_execution_locks_v1: "free" (no row), "live" or "expired"
    ledger,         \* action_execution_idempotency_v1, by operation type and key
    executions,     \* outside world: how often the adapter executed each request
    told,           \* the ok answers operators have received
    overrun,        \* history: a lock was taken over while its holder was still running
    pc,             \* the next statement of each handler
    call,           \* what each handler was asked to do
    seen            \* the request row each handler works from

tables == <<action, requests, confirmation, attempts, rollbacks, lock, ledger>>
world == <<executions, told, overrun>>
vars == <<tables, world, pc, call, seen>>

NoBody == [mode |-> "success", irreversible |-> FALSE, rollbackPlan |-> FALSE]
NoRow == [state |-> "absent", body |-> NoBody, actionHash |-> 0, dryRun |-> "none"]
NoCall == [operation |-> "none", key |-> NoKey, request |-> NoRequest, at |-> 0]
NoHash == [request |-> NoRequest, row |-> NoRow]
NoRecord == [present |-> FALSE, hash |-> NoHash, stored |-> "none"]

Row == [state : ExecutionStates \cup {"absent"}, body : Body, actionHash : Nat,
        dryRun : {"none", "fresh", "expired"}]

LedgerIndex == (Operations \cup {"lock_acquire"}) \X Keys

\* The state the adapter's answer leads to; both depend on the body alone.
ResultOfMode ==
    [success |-> "succeeded", partial_success |-> "partial_succeeded", failure |-> "failed",
     timeout |-> "timeout", cancel |-> "cancelled", rollback_failure |-> "failed"]

ExecutionResult(body) == ResultOfMode[body.mode]

RollbackResult(body) ==
    IF body.mode = "rollback_failure" THEN "rollback_failed" ELSE "rolled_back"

Init ==
    /\ action = [executable |-> TRUE, hash |-> 0]
    /\ \E body \in [Requests -> Bodies] :
          requests = [r \in Requests |->
              IF r \in StartConfirmed
              THEN [state |-> "confirmed", body |-> body[r], actionHash |-> 0, dryRun |-> "fresh"]
              ELSE NoRow]
    /\ confirmation = [r \in Requests |-> IF r \in StartConfirmed THEN "current" ELSE "never"]
    /\ attempts = [r \in Requests |-> "none"]
    /\ rollbacks = [k \in Keys |-> "none"]
    /\ lock = "free"
    /\ ledger = [i \in LedgerIndex |-> NoRecord]
    /\ executions = [r \in Requests |-> 0]
    /\ told = {}
    /\ overrun = FALSE
    /\ pc = [c \in Calls |-> "idle"]
    /\ call = [c \in Calls |-> NoCall]
    /\ seen = [c \in Calls |-> NoRow]

-------------------------------------------------------------------------------
\* Helpers of the steps.

Goto(c, step) == pc' = [pc EXCEPT ![c] = step]

\* The handler answers, or dies, and its memory is gone.
End(c) ==
    /\ pc' = [pc EXCEPT ![c] = "idle"]
    /\ call' = [call EXCEPT ![c] = NoCall]
    /\ seen' = [seen EXCEPT ![c] = NoRow]

Continue(c, step) ==
    /\ Goto(c, step)
    /\ UNCHANGED <<call, seen>>

\* updateExecutionRequestState: an UPDATE by id, whatever the row says now.
UpdateRequestState(r, state) ==
    requests' = [requests EXCEPT ![r].state = state]

Arrive(c, op, key, r, row, step) ==
    /\ pc[c] = "idle"
    /\ pc' = [pc EXCEPT ![c] = step]
    /\ call' = [call EXCEPT ![c] = [operation |-> op, key |-> key, request |-> r, at |-> action.hash]]
    /\ seen' = [seen EXCEPT ![c] = row]
    /\ UNCHANGED <<tables, world>>

\* Handler steps at which the execution lock is held.
ExecuteLockedSteps ==
    {"insert_attempt", "write_queued", "write_started", "invoke_execute",
     "update_attempt", "write_result", "complete_execute"}
CancelLockedSteps ==
    {"write_cancel_requested", "invoke_cancel", "write_cancelled", "complete_cancel"}
RollbackLockedSteps ==
    {"insert_rollback", "invoke_rollback", "update_rollback", "write_rollback_result",
     "complete_rollback"}
LockedSteps == ExecuteLockedSteps \cup CancelLockedSteps \cup RollbackLockedSteps
ReleaseSteps == {"release_ok", "release_failed"}
HoldsLock(c) == pc[c] \in LockedSteps \cup ReleaseSteps

-------------------------------------------------------------------------------
\* Arrivals: the statements and checks before the ledger.  A call whose checks
\* fail here answers an error and leaves no trace, so it is no step.

\* createExecutionRequest: the action is read, and the row to insert is built.
BeginRequest(c, key, body) ==
    /\ action.executable
    /\ Arrive(c, "request", key, NoRequest,
              [state |-> "requested", body |-> body, actionHash |-> action.hash, dryRun |-> "none"],
              "read_ledger")

\* runExecutionDryRun
BeginDryRun(c, key, r) ==
    /\ requests[r].state = "requested"
    /\ Arrive(c, "dry_run", key, r, requests[r], "read_ledger")

\* confirmExecutionRequest
BeginConfirm(c, key, r) ==
    /\ requests[r].state = "confirmation_required"
    /\ requests[r].dryRun = "fresh"
    /\ Arrive(c, "confirm", key, r, requests[r], "check_action")

\* The execute route's own look at the request; orchestrateExecutionAttempt
\* reads it again.
BeginExecute(c, key, r) ==
    /\ requests[r].state \notin {"absent", "requested", "dry_run_succeeded", "confirmation_required"}
    /\ Arrive(c, "execute", key, r, NoRow, "read_request")

\* orchestrateCancellation: any state gets as far as the lock.
BeginCancel(c, key, r) ==
    /\ requests[r].state # "absent"
    /\ Arrive(c, "cancel", key, r, requests[r], "read_ledger")

\* Variant the runs must reject: a rollback whatever the outcome was.
BeginRollbackAlways(c, key, r) ==
    /\ requests[r].state # "absent"
    /\ Arrive(c, "rollback", key, r, requests[r], "read_ledger")

\* orchestrateRollback
BeginRollback(c, key, r) ==
    /\ requests[r].state \in {"failed", "partial_succeeded"}
    /\ ~requests[r].body.irreversible
    /\ Arrive(c, "rollback", key, r, requests[r], "read_ledger")

Begin(c) ==
    \/ \E op \in DOMAIN KeysFor : \E key \in KeysFor[op] : \E r \in Requests :
          \/ op = "dry_run" /\ BeginDryRun(c, key, r)
          \/ op = "confirm" /\ BeginConfirm(c, key, r)
          \/ op = "execute" /\ BeginExecute(c, key, r)
          \/ op = "cancel" /\ BeginCancel(c, key, r)
          \/ op = "rollback" /\ BeginRollback(c, key, r)
    \/ \E op \in DOMAIN KeysFor \cap {"request"} : \E key \in KeysFor[op] : \E body \in Bodies :
          BeginRequest(c, key, body)

ReadRequest(c) ==
    /\ pc[c] = "read_request"
    /\ seen' = [seen EXCEPT ![c] = requests[call[c].request]]
    /\ Goto(c, "read_ledger")
    /\ UNCHANGED <<tables, world, call>>

-------------------------------------------------------------------------------
\* upsertIdempotencyRecord: SELECT, then INSERT under a unique index.

LedgerKey(c) == <<call[c].operation, call[c].key>>

\* The request hash.  A creation hashes its whole row; the other operations
\* hash the request and columns of it that never change.
RequestHash(c) ==
    [request |-> call[c].request,
     row |-> IF call[c].operation = "request" THEN seen[c] ELSE NoRow]

\* The hash of a confirmation contains its expiry to the millisecond, so that
\* no other call computes the same one.
SameRequest(c) ==
    /\ call[c].operation # "confirm"
    /\ ledger[LedgerKey(c)].hash = RequestHash(c)

AfterLedger == [request |-> "insert_request", dry_run |-> "dry_run",
                confirm |-> "clear_confirmations", execute |-> "check_action",
                cancel |-> "acquire_lock", rollback |-> "write_rollback_requested"]

\* Variant the runs must reject: the stored result without a look at the hash.
ReplayedForAnyRequest(c) ==
    {[operation |-> call[c].operation, request |-> call[c].request,
      value |-> ledger[LedgerKey(c)].stored]}

\* What a replayed call reports: a cancellation always the same answer, an
\* execution or a rollback the stored result or else a conflict.  The answers
\* to the other operations name no result.
ReplayedAnswers(c) ==
    LET values == IF call[c].operation = "cancel"
                  THEN {"cancelled"}
                  ELSE {ledger[LedgerKey(c)].stored} \ {"none"}
    IN  {[operation |-> call[c].operation, request |-> call[c].request, value |-> value] :
             value \in {v \in values : SameRequest(c)}}

ReplayOrConflict(c) ==
    /\ pc[c] = "read_ledger"
    /\ ledger[LedgerKey(c)].present
    /\ told' = told \cup ReplayedAnswers(c)
    /\ End(c)
    /\ UNCHANGED <<tables, executions, overrun>>

MissLedger(c) ==
    /\ pc[c] = "read_ledger"
    /\ ~ledger[LedgerKey(c)].present
    /\ Continue(c, "insert_ledger")
    /\ UNCHANGED <<tables, world>>

InsertLedger(c) ==
    /\ pc[c] = "insert_ledger"
    /\ ~ledger[LedgerKey(c)].present
    /\ ledger' = [ledger EXCEPT ![LedgerKey(c)] =
                      [present |-> TRUE, hash |-> RequestHash(c), stored |-> "none"]]
    /\ Continue(c, AfterLedger[call[c].operation])
    /\ UNCHANGED <<action, requests, confirmation, attempts, rollbacks, lock, world>>

\* Another call with the same key got in between; the insert throws.
LoseLedgerRace(c) ==
    /\ pc[c] = "insert_ledger"
    /\ ledger[LedgerKey(c)].present
    /\ End(c)
    /\ UNCHANGED <<tables, world>>

\* completeIdempotencyRecord, which only the locked operations reach.
StoreResult(c, value) ==
    ledger' = [ledger EXCEPT ![LedgerKey(c)].stored = value]

-------------------------------------------------------------------------------
\* Creation.  The key is new to the ledger here, hence to the unique index
\* (action_id, idempotency_key) of the requests as well.

InsertRequest(c) ==
    /\ pc[c] = "insert_request"
    /\ \E r \in Requests :
          /\ requests[r].state = "absent"
          /\ requests' = [requests EXCEPT ![r] = seen[c]]
    /\ End(c)
    /\ UNCHANGED <<action, confirmation, attempts, rollbacks, lock, ledger, world>>

-------------------------------------------------------------------------------
\* Dry run.

\* No rollback plan: blocked, with an already expired stub of a dry run.
BlockWithoutRollbackPlan(c) ==
    /\ pc[c] = "dry_run"
    /\ ~seen[c].body.irreversible /\ ~seen[c].body.rollbackPlan
    /\ requests' = [requests EXCEPT ![call[c].request].state = "blocked",
                                    ![call[c].request].dryRun = "expired"]
    /\ End(c)
    /\ UNCHANGED <<action, confirmation, attempts, rollbacks, lock, ledger, world>>

\* adapter.validate or adapter.dryRun refuses: a kill switch is off, or the
\* payload names no mode of the adapter.
BlockByGate(c) ==
    /\ "gate" \in Faults
    /\ pc[c] = "dry_run"
    /\ seen[c].body.irreversible \/ seen[c].body.rollbackPlan
    /\ UpdateRequestState(call[c].request, "blocked")
    /\ End(c)
    /\ UNCHANGED <<action, confirmation, attempts, rollbacks, lock, ledger, world>>

\* Variant the runs must reject: a missing rollback plan goes unnoticed.
WriteDryRunWithoutPlan(c) ==
    /\ pc[c] = "dry_run"
    /\ requests' = [requests EXCEPT ![call[c].request].state = "dry_run_succeeded",
                                    ![call[c].request].dryRun = "fresh"]
    /\ Continue(c, "write_confirmation_required")
    /\ UNCHANGED <<action, confirmation, attempts, rollbacks, lock, ledger, world>>

WriteDryRun(c) ==
    /\ pc[c] = "dry_run"
    /\ seen[c].body.irreversible \/ seen[c].body.rollbackPlan
    /\ requests' = [requests EXCEPT ![call[c].request].state = "dry_run_succeeded",
                                    ![call[c].request].dryRun = "fresh"]
    /\ Continue(c, "write_confirmation_required")
    /\ UNCHANGED <<action, confirmation, attempts, rollbacks, lock, ledger, world>>

WriteConfirmationRequired(c) ==
    /\ pc[c] = "write_confirmation_required"
    /\ UpdateRequestState(call[c].request, "confirmation_required")
    /\ End(c)
    /\ UNCHANGED <<action, confirmation, attempts, rollbacks, lock, ledger, world>>

-------------------------------------------------------------------------------
\* Confirmation.

\* Variant the runs must reject: the action's state hash is not compared.
CheckActionStatusOnly(c) ==
    /\ pc[c] = "check_action"
    /\ IF action.executable
       THEN Continue(c, IF call[c].operation = "execute" THEN "check_confirmation" ELSE "read_ledger")
       ELSE End(c)
    /\ UNCHANGED <<tables, world>>

\* getAction, for a confirmation and for an execution.  The execution looks at
\* the state and the dry run it read earlier as well; that it compares the
\* action's hash only after reading the confirmation changes no outcome.
CheckAction(c) ==
    /\ pc[c] = "check_action"
    /\ IF /\ action.executable
          /\ action.hash = seen[c].actionHash
          /\ call[c].operation = "execute" =>
                 seen[c].state = "confirmed" /\ seen[c].dryRun = "fresh"
       THEN Continue(c, IF call[c].operation = "execute" THEN "check_confirmation" ELSE "read_ledger")
       ELSE End(c)
    /\ UNCHANGED <<tables, world>>

\* Variant the runs must reject: no new confirmation replaces the cleared ones.
ClearConfirmationsOnly(c) ==
    /\ pc[c] = "clear_confirmations"
    /\ confirmation' = [confirmation EXCEPT ![call[c].request] = IF @ = "never" THEN @ ELSE "cleared"]
    /\ Continue(c, "write_confirmed")
    /\ UNCHANGED <<action, requests, attempts, rollbacks, lock, ledger, world>>

ClearConfirmations(c) ==
    /\ pc[c] = "clear_confirmations"
    /\ confirmation' = [confirmation EXCEPT ![call[c].request] = IF @ = "never" THEN @ ELSE "cleared"]
    /\ Continue(c, "insert_confirmation")
    /\ UNCHANGED <<action, requests, attempts, rollbacks, lock, ledger, world>>

\* The partial unique index allows one current row per request.
InsertConfirmation(c) ==
    /\ pc[c] = "insert_confirmation"
    /\ confirmation[call[c].request] \in {"never", "cleared"}
    /\ confirmation' = [confirmation EXCEPT ![call[c].request] = "current"]
    /\ Continue(c, "write_confirmed")
    /\ UNCHANGED <<action, requests, attempts, rollbacks, lock, ledger, world>>

DuplicateConfirmationThrows(c) ==
    /\ pc[c] = "insert_confirmation"
    /\ confirmation[call[c].request] \in {"current", "expired"}
    /\ End(c)
    /\ UNCHANGED <<tables, world>>

WriteConfirmed(c) ==
    /\ pc[c] = "write_confirmed"
    /\ UpdateRequestState(call[c].request, "confirmed")
    /\ End(c)
    /\ UNCHANGED <<action, confirmation, attempts, rollbacks, lock, ledger, world>>

-------------------------------------------------------------------------------
\* The execution lock: one row per action.

AfterLock == [execute |-> "insert_attempt", cancel |-> "write_cancel_requested",
              rollback |-> "insert_rollback"]

EnterLock(c) == Continue(c, AfterLock[call[c].operation])

LockLedgerKey(c) == <<"lock_acquire", call[c].key>>

\* acquireExecutionLock.  The hash of its ledger record contains the expiry, so
\* a record under the same key, left by another operation, is a conflict.
LockKeyConflict(c) ==
    /\ pc[c] = "acquire_lock"
    /\ ledger[LockLedgerKey(c)].present
    /\ End(c)
    /\ UNCHANGED <<tables, world>>

RecordLockKey(c) ==
    /\ ~ledger[LockLedgerKey(c)].present
    /\ ledger' = [ledger EXCEPT ![LockLedgerKey(c)].present = TRUE]

\* Variant the runs must reject: an upsert, which no existing row stops.
UpsertLock(c) ==
    /\ pc[c] = "acquire_lock"
    /\ RecordLockKey(c)
    /\ lock' = "live"
    /\ EnterLock(c)
    /\ UNCHANGED <<action, requests, confirmation, attempts, rollbacks, world>>

InsertLock(c) ==
    /\ pc[c] = "acquire_lock"
    /\ RecordLockKey(c)
    /\ lock = "free"
    /\ lock' = "live"
    /\ EnterLock(c)
    /\ UNCHANGED <<action, requests, confirmation, attempts, rollbacks, world>>

\* The insert conflicts with the row of another holder, or fails with or
\* without having written the row: any error leads to an inspection of it.
MissLock(c) ==
    /\ pc[c] = "acquire_lock"
    /\ RecordLockKey(c)
    /\ \/ lock # "free" /\ UNCHANGED lock
       \/ "error" \in Faults /\ lock = "free" /\ lock' \in {"free", "live"}
    /\ Continue(c, "inspect_lock")
    /\ UNCHANGED <<action, requests, confirmation, attempts, rollbacks, world>>

\* A live row answers EXECUTION_LOCKED; a row that vanished throws.
InspectLock(c) ==
    /\ pc[c] = "inspect_lock"
    /\ IF lock = "expired" THEN Continue(c, "recover_lock") ELSE End(c)
    /\ UNCHANGED <<tables, world>>

\* Stale recovery: an UPDATE by action id, which finds whatever row is there
\* now.  It throws when there is none.
RecoverLock(c) ==
    /\ pc[c] = "recover_lock"
    /\ lock # "free"
    /\ lock' = "live"
    /\ overrun' = (overrun \/ \E d \in Calls : HoldsLock(d))
    /\ EnterLock(c)
    /\ UNCHANGED <<action, requests, confirmation, attempts, rollbacks, ledger, executions, told>>

RecoverNothing(c) ==
    /\ pc[c] = "recover_lock"
    /\ lock = "free"
    /\ End(c)
    /\ UNCHANGED <<tables, world>>

\* releaseExecutionLock: a DELETE by action id, whoever the row belongs to.
\* Its own ledger record is the only one its key can ever have.  The operator
\* is told the result, unless what follows the DELETE fails.
ReleaseLock(c) ==
    /\ pc[c] \in ReleaseSteps
    /\ lock' = "free"
    /\ \/ /\ pc[c] = "release_ok"
          /\ told' = told \cup {[operation |-> call[c].operation, request |-> call[c].request,
                                 value |-> ledger[LedgerKey(c)].stored]}
       \/ /\ pc[c] = "release_failed" \/ "error" \in Faults
          /\ UNCHANGED told
    /\ End(c)
    /\ UNCHANGED <<action, requests, confirmation, attempts, rollbacks, ledger, executions, overrun>>

-------------------------------------------------------------------------------
\* Execution.

CheckConfirmation(c) ==
    /\ pc[c] = "check_confirmation"
    /\ IF confirmation[call[c].request] = "current" THEN Continue(c, "acquire_lock") ELSE End(c)
    /\ UNCHANGED <<tables, world>>

\* Variant the runs must reject: an attempt of its own for every call.
InsertAnotherAttempt(c) ==
    /\ pc[c] = "insert_attempt"
    /\ attempts' = [attempts EXCEPT ![call[c].request] = "started"]
    /\ Continue(c, "write_queued")
    /\ UNCHANGED <<action, requests, confirmation, rollbacks, lock, ledger, world>>

\* The attempt always has index 1, and (request, index) is unique.
InsertAttempt(c) ==
    /\ pc[c] = "insert_attempt"
    /\ attempts[call[c].request] = "none"
    /\ attempts' = [attempts EXCEPT ![call[c].request] = "started"]
    /\ Continue(c, "write_queued")
    /\ UNCHANGED <<action, requests, confirmation, rollbacks, lock, ledger, world>>

DuplicateAttemptThrows(c) ==
    /\ pc[c] = "insert_attempt"
    /\ attempts[call[c].request] # "none"
    /\ Continue(c, "release_failed")
    /\ UNCHANGED <<tables, world>>

WriteQueued(c) ==
    /\ pc[c] = "write_queued"
    /\ UpdateRequestState(call[c].request, "queued")
    /\ Continue(c, "write_started")
    /\ UNCHANGED <<action, confirmation, attempts, rollbacks, lock, ledger, world>>

WriteStarted(c) ==
    /\ pc[c] = "write_started"
    /\ UpdateRequestState(call[c].request, "started")
    /\ Continue(c, "invoke_execute")
    /\ UNCHANGED <<action, confirmation, attempts, rollbacks, lock, ledger, world>>

\* Variants the runs must reject: the adapter is tried again, or what it
\* reported is not recorded in the attempt row.
InvokeExecuteAgain(c) ==
    /\ pc[c] = "invoke_execute"
    /\ executions' = [executions EXCEPT ![call[c].request] = @ + 1]
    /\ Continue(c, "update_attempt") \/ Continue(c, "invoke_execute")
    /\ UNCHANGED <<tables, told, overrun>>

InvokeExecuteUnrecorded(c) ==
    /\ pc[c] = "invoke_execute"
    /\ executions' = [executions EXCEPT ![call[c].request] = @ + 1]
    /\ Continue(c, "write_result")
    /\ UNCHANGED <<tables, told, overrun>>

InvokeExecute(c) ==
    /\ pc[c] = "invoke_execute"
    /\ executions' = [executions EXCEPT ![call[c].request] = @ + 1]
    /\ Continue(c, "update_attempt")
    /\ UNCHANGED <<tables, told, overrun>>

\* Variant the runs must reject: the request row is not told the result.
UpdateAttemptOnly(c) ==
    /\ pc[c] = "update_attempt"
    /\ attempts' = [attempts EXCEPT ![call[c].request] = ExecutionResult(seen[c].body)]
    /\ Continue(c, "complete_execute")
    /\ UNCHANGED <<action, requests, confirmation, rollbacks, lock, ledger, world>>

UpdateAttempt(c) ==
    /\ pc[c] = "update_attempt"
    /\ attempts' = [attempts EXCEPT ![call[c].request] = ExecutionResult(seen[c].body)]
    /\ Continue(c, "write_result")
    /\ UNCHANGED <<action, requests, confirmation, rollbacks, lock, ledger, world>>

WriteResult(c) ==
    /\ pc[c] = "write_result"
    /\ UpdateRequestState(call[c].request, ExecutionResult(seen[c].body))
    /\ Continue(c, "complete_execute")
    /\ UNCHANGED <<action, confirmation, attempts, rollbacks, lock, ledger, world>>

CompleteExecute(c) ==
    /\ pc[c] = "complete_execute"
    /\ StoreResult(c, ExecutionResult(seen[c].body))
    /\ Continue(c, "release_ok")
    /\ UNCHANGED <<action, requests, confirmation, attempts, rollbacks, lock, world>>

-------------------------------------------------------------------------------
\* Cancellation.  It decides on the state read before the lock was taken.

WriteCancelRequested(c) ==
    /\ pc[c] = "write_cancel_requested"
    /\ seen[c].state \in {"confirmed", "queued", "started"}
    /\ UpdateRequestState(call[c].request, "cancel_requested")
    /\ Continue(c, IF seen[c].state = "started" THEN "invoke_cancel" ELSE "write_cancelled")
    /\ UNCHANGED <<action, confirmation, attempts, rollbacks, lock, ledger, world>>

\* Not cancellable; a request in cancel_requested is not either, since the
\* table has no step from that state to itself.
RefuseCancel(c) ==
    /\ pc[c] = "write_cancel_requested"
    /\ seen[c].state \notin {"confirmed", "queued", "started"}
    /\ Continue(c, "release_failed")
    /\ UNCHANGED <<tables, world>>

InvokeCancel(c) ==
    /\ pc[c] = "invoke_cancel"
    /\ Continue(c, "write_cancelled")
    /\ UNCHANGED <<tables, world>>

\* Variant the runs must reject: a state the table's CHECK does not know.
WriteCanceled(c) ==
    /\ pc[c] = "write_cancelled"
    /\ UpdateRequestState(call[c].request, "canceled")
    /\ Continue(c, "complete_cancel")
    /\ UNCHANGED <<action, confirmation, attempts, rollbacks, lock, ledger, world>>

WriteCancelled(c) ==
    /\ pc[c] = "write_cancelled"
    /\ UpdateRequestState(call[c].request, "cancelled")
    /\ Continue(c, "complete_cancel")
    /\ UNCHANGED <<action, confirmation, attempts, rollbacks, lock, ledger, world>>

CompleteCancel(c) ==
    /\ pc[c] = "complete_cancel"
    /\ StoreResult(c, "cancelled")
    /\ Continue(c, "release_ok")
    /\ UNCHANGED <<action, requests, confirmation, attempts, rollbacks, lock, world>>

-------------------------------------------------------------------------------
\* Rollback.  The request is marked before the lock is asked for.

WriteRollbackRequested(c) ==
    /\ pc[c] = "write_rollback_requested"
    /\ UpdateRequestState(call[c].request, "rollback_requested")
    /\ Continue(c, "acquire_lock")
    /\ UNCHANGED <<action, confirmation, attempts, rollbacks, lock, ledger, world>>

InsertRollback(c) ==
    /\ pc[c] = "insert_rollback"
    /\ rollbacks' = [rollbacks EXCEPT ![call[c].key] = "started"]
    /\ Continue(c, "invoke_rollback")
    /\ UNCHANGED <<action, requests, confirmation, attempts, lock, ledger, world>>

\* Variant the runs must reject: the rollback row stays started.
InvokeRollbackUnrecorded(c) ==
    /\ pc[c] = "invoke_rollback"
    /\ Continue(c, "write_rollback_result")
    /\ UNCHANGED <<tables, world>>

InvokeRollback(c) ==
    /\ pc[c] = "invoke_rollback"
    /\ Continue(c, "update_rollback")
    /\ UNCHANGED <<tables, world>>

\* Variant the runs must reject: the rollback marks the attempt as cancelled.
UpdateRollbackAndAttempt(c) ==
    /\ pc[c] = "update_rollback"
    /\ rollbacks' = [rollbacks EXCEPT ![call[c].key] = RollbackResult(seen[c].body)]
    /\ attempts' = [attempts EXCEPT ![call[c].request] = "cancelled"]
    /\ Continue(c, "write_rollback_result")
    /\ UNCHANGED <<action, requests, confirmation, lock, ledger, world>>

UpdateRollback(c) ==
    /\ pc[c] = "update_rollback"
    /\ rollbacks' = [rollbacks EXCEPT ![call[c].key] = RollbackResult(seen[c].body)]
    /\ Continue(c, "write_rollback_result")
    /\ UNCHANGED <<action, requests, confirmation, attempts, lock, ledger, world>>

WriteRollbackResult(c) ==
    /\ pc[c] = "write_rollback_result"
    /\ UpdateRequestState(call[c].request, RollbackResult(seen[c].body))
    /\ Continue(c, "complete_rollback")
    /\ UNCHANGED <<action, confirmation, attempts, rollbacks, lock, ledger, world>>

CompleteRollback(c) ==
    /\ pc[c] = "complete_rollback"
    /\ StoreResult(c, RollbackResult(seen[c].body))
    /\ Continue(c, "release_ok")
    /\ UNCHANGED <<action, requests, confirmation, attempts, rollbacks, lock, world>>

-------------------------------------------------------------------------------
\* Faults.

\* The invocation dies, or something outside a try block throws, such as the
\* gates an execution evaluates before it asks for the lock: no finally.
Abandon(c) ==
    /\ \/ "crash" \in Faults /\ pc[c] # "idle"
       \/ "gate" \in Faults /\ pc[c] = "check_action" /\ call[c].operation = "execute"
    /\ End(c)
    /\ UNCHANGED <<tables, world>>

\* A statement throws without effect, or the adapter refuses behind a kill
\* switch, while the lock is held: the finally block still releases it.
FailInsideTry(c) ==
    /\ \/ "error" \in Faults /\ pc[c] \in LockedSteps
       \/ "gate" \in Faults /\ pc[c] \in {"invoke_execute", "invoke_cancel", "invoke_rollback"}
    /\ Continue(c, "release_failed")
    /\ UNCHANGED <<tables, world>>

-------------------------------------------------------------------------------
\* The environment: clocks, and the action life cycle next door.

ExpireLock ==
    /\ "lock" \in Expirable
    /\ lock = "live"
    /\ lock' = "expired"
    /\ UNCHANGED <<action, requests, confirmation, attempts, rollbacks, ledger, world, pc, call, seen>>

\* An expired dry run is expired in every copy of the row.
ExpireDryRun(r) ==
    /\ "dry_run" \in Expirable
    /\ requests[r].dryRun = "fresh"
    /\ requests' = [requests EXCEPT ![r].dryRun = "expired"]
    /\ seen' = [c \in Calls |->
                  IF call[c].request = r /\ seen[c].dryRun = "fresh"
                  THEN [seen[c] EXCEPT !.dryRun = "expired"]
                  ELSE seen[c]]
    /\ UNCHANGED <<action, confirmation, attempts, rollbacks, lock, ledger, world, pc, call>>

ExpireConfirmation(r) ==
    /\ "confirmation" \in Expirable
    /\ confirmation[r] = "current"
    /\ confirmation' = [confirmation EXCEPT ![r] = "expired"]
    /\ UNCHANGED <<action, requests, attempts, rollbacks, lock, ledger, world, pc, call, seen>>

ExpireEvidence ==
    /\ "evidence" \in Expirable
    /\ action.executable
    /\ action' = [action EXCEPT !.executable = FALSE]
    /\ UNCHANGED <<requests, confirmation, attempts, rollbacks, lock, ledger, world, pc, call, seen>>

\* Another route rewrites the action: a new state hash, approved or not.
ChangeAction ==
    /\ action.hash < MaxActionChanges
    /\ \E executable \in BOOLEAN :
          action' = [executable |-> executable, hash |-> action.hash + 1]
    /\ UNCHANGED <<requests, confirmation, attempts, rollbacks, lock, ledger, world, pc, call, seen>>

-------------------------------------------------------------------------------
LedgerStep(c) ==
    ReplayOrConflict(c) \/ MissLedger(c) \/ InsertLedger(c) \/ LoseLedgerRace(c)

PreparationStep(c) ==
    \/ InsertRequest(c)
    \/ BlockWithoutRollbackPlan(c) \/ BlockByGate(c) \/ WriteDryRun(c) \/ WriteConfirmationRequired(c)
    \/ CheckAction(c) \/ ClearConfirmations(c) \/ InsertConfirmation(c)
    \/ DuplicateConfirmationThrows(c) \/ WriteConfirmed(c)

LockStep(c) ==
    \/ LockKeyConflict(c) \/ InsertLock(c) \/ MissLock(c) \/ InspectLock(c)
    \/ RecoverLock(c) \/ RecoverNothing(c) \/ ReleaseLock(c)

ExecuteStep(c) ==
    \/ ReadRequest(c) \/ CheckConfirmation(c)
    \/ InsertAttempt(c) \/ DuplicateAttemptThrows(c)
    \/ WriteQueued(c) \/ WriteStarted(c) \/ InvokeExecute(c)
    \/ UpdateAttempt(c) \/ WriteResult(c) \/ CompleteExecute(c)

CancelStep(c) ==
    \/ WriteCancelRequested(c) \/ RefuseCancel(c) \/ InvokeCancel(c)
    \/ WriteCancelled(c) \/ CompleteCancel(c)

RollbackStep(c) ==
    \/ WriteRollbackRequested(c) \/ InsertRollback(c) \/ InvokeRollback(c)
    \/ UpdateRollback(c) \/ WriteRollbackResult(c) \/ CompleteRollback(c)

\* The statements a running handler makes; it does not stop between them
\* unless it is abandoned.
Step(c) ==
    LedgerStep(c) \/ PreparationStep(c) \/ LockStep(c) \/ ExecuteStep(c) \/ CancelStep(c) \/ RollbackStep(c)

Environment ==
    \/ ExpireLock \/ ExpireEvidence \/ ChangeAction
    \/ \E r \in Requests : ExpireDryRun(r) \/ ExpireConfirmation(r)

Next ==
    \/ \E c \in Calls : Begin(c) \/ Step(c) \/ Abandon(c) \/ FailInsideTry(c)
    \/ Environment

Spec == Init /\ [][Next]_vars

\* Handlers run to their end; nobody is obliged to send a request, and clocks
\* and faults owe nothing.
FairSpec == Spec /\ \A c \in Calls : WF_vars(Step(c))

-------------------------------------------------------------------------------
HandlerSteps ==
    {"idle", "read_request", "read_ledger", "insert_ledger", "insert_request", "dry_run",
     "write_confirmation_required", "check_action", "clear_confirmations", "insert_confirmation",
     "write_confirmed", "check_confirmation", "write_rollback_requested",
     "acquire_lock", "inspect_lock", "recover_lock"}
    \cup LockedSteps \cup ReleaseSteps

CallRecord == [operation : Operations \cup {"none"}, key : Keys \cup {NoKey},
               request : Requests \cup {NoRequest}, at : Nat]

StoredResults == {"none"} \cup ExecutionResults \cup RollbackResults

LedgerRecord == [present : BOOLEAN,
                 hash : [request : Requests \cup {NoRequest}, row : Row],
                 stored : StoredResults]

AnswerRecord == [operation : Operations, request : Requests \cup {NoRequest}, value : StoredResults]

TablesOK ==
    /\ action \in [executable : BOOLEAN, hash : Nat]
    /\ requests \in [Requests -> Row]
    /\ confirmation \in [Requests -> {"never", "cleared", "current", "expired"}]
    /\ attempts \in [Requests -> {"none", "started"} \cup ExecutionResults]
    /\ rollbacks \in [Keys -> {"none", "started"} \cup RollbackResults]
    /\ lock \in {"free", "live", "expired"}
    /\ ledger \in [LedgerIndex -> LedgerRecord]

WorldOK ==
    /\ executions \in [Requests -> Nat]
    /\ told \subseteq AnswerRecord
    /\ overrun \in BOOLEAN

HandlersOK ==
    /\ pc \in [Calls -> HandlerSteps]
    /\ call \in [Calls -> CallRecord]
    /\ seen \in [Calls -> Row]

\* Every column holds what the schema's CHECK constraints allow, and every
\* handler is at one of its statements.
TypeOK == TablesOK /\ WorldOK /\ HandlersOK

\* The adapter executes a request at most once, whatever handlers run, crash,
\* lose their lock or are sent again: the attempt row, not the lock, sees to it.
AtMostOneExecution == \A r \in Requests : executions[r] <= 1

\* The lock excludes: two handlers hold it together only if some lock was once
\* taken over from a handler that was still running.
LockExcludes ==
    ~overrun =>
        /\ \A c, d \in Calls : HoldsLock(c) /\ HoldsLock(d) => c = d
        /\ (\E c \in Calls : HoldsLock(c)) => lock # "free"

\* Whoever is told a result, by the call that ran or by a replay of its key, is
\* told the one recorded for the request's attempt.
AnswersAreRecorded ==
    \A a \in told : a.operation = "execute" => attempts[a.request] = a.value

\* Request row and attempt row agree: a result the request shows is the result
\* the attempt recorded, except that a cancellation writes "cancelled" by itself.
OutcomeIsRecorded ==
    \A r \in Requests :
        requests[r].state \in ExecutionResults \ {"cancelled"} => attempts[r] = requests[r].state

\* A request shows a rollback result only if a rollback of it ended that way.
RollbackIsRecorded ==
    \A r \in Requests :
        requests[r].state \in RollbackResults =>
            \E k \in Keys :
                /\ rollbacks[k] = requests[r].state
                /\ ledger[<<"rollback", k>>].hash.request = r

\* A request confirmed by a call that is over has a confirmation to show for
\* it, as long as no handler dies half way: racing confirmations clear and
\* insert each other's rows, but the last one standing is current.
ConfirmedHasConfirmation ==
    \A r \in Requests :
        requests[r].state = "confirmed" /\ (\A c \in Calls : call[c].request # r \/ call[c].operation # "confirm")
            => confirmation[r] \in {"current", "expired"}

\* The adapter runs only for requests that went through the whole preparation:
\* a dry run that found a rollback plan where one is required, and an
\* operator's confirmation, however dry runs and confirmations overlapped.
ExecutionWasPrepared ==
    \A r \in Requests : executions[r] > 0 =>
        /\ requests[r].body.irreversible \/ requests[r].body.rollbackPlan
        /\ requests[r].dryRun # "none"
        /\ confirmation[r] # "never"

\* A change of the action, such as a withdrawn approval, that precedes the
\* execute call stops the call before the adapter.
ChangedActionIsNotExecuted ==
    \A c \in Calls : pc[c] = "invoke_execute" => call[c].at = seen[c].actionHash

\* What an attempt ended with stays, even if the request is rolled back later.
AttemptResultIsFinal ==
    [][\A r \in Requests : attempts[r] \in ExecutionResults => attempts'[r] = attempts[r]]_attempts

\* The abstract specifications this one is held against.
Promise ==
    INSTANCE ExecutionPromise WITH
        Results <- ExecutionResults,
        attempt <- attempts,
        effects <- executions,
        answers <- {<<a.request, a.value>> : a \in {b \in told : b.operation = "execute"}}

\* Towards the world the boundary keeps the promise of ExecutionPromise.
KeepsPromise == Promise!Spec

Lifecycle == INSTANCE ExecutionLifecycle WITH state <- [r \in Requests |-> requests[r].state]

\* The state column follows the documented transition table.
FollowsLifecycle == Lifecycle!Spec

\* A started execution does not stay started when its handlers run to the end.
StartedSettles ==
    \A r \in Requests :
        requests[r].state \in {"queued", "started"} ~> requests[r].state \notin {"queued", "started"}

\* A requested rollback comes to a result when its handlers run to the end.
RollbackSettles ==
    \A r \in Requests :
        requests[r].state = "rollback_requested" ~> requests[r].state # "rollback_requested"

\* As long as the lock row is live, no other handler gets the lock: what the
\* documentation calls one active execution lock.  Two handlers that found the
\* same expired row take it over one after the other.
OneActiveLock ==
    [][\A c \in Calls : lock = "live" /\ HoldsLock(c)' => HoldsLock(c)]_<<lock, pc>>

===============================================================================
