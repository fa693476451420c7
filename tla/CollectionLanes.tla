---------------------------- MODULE CollectionLanes ----------------------------
(***************************************************************************)
(* External-intelligence collection: the heartbeat, its lock, and the      *)
(* lanes that plan, lease and work collection jobs                         *)
(* (src/lib/scheduler/externalIntelligenceHeartbeat.ts and                 *)
(* src/lib/external-intelligence/orchestration/).                          *)
(*                                                                         *)
(* A worker is one invocation: a heartbeat, which takes the orchestration  *)
(* lock and runs every lane in turn, or a one-shot call, which runs one    *)
(* lane and takes no lock.  A step is one statement with the computation   *)
(* that follows it; the leasing function, a transaction that reads the     *)
(* caps and picks the row in separate statements, is three steps.          *)
(***************************************************************************)
EXTENDS CollectionJobs, Sequences

CONSTANTS
    Nothing,            \* no worker, no lane, no job
    ProcessOf,          \* worker -> the process it runs in
    LaneOrder,          \* the lanes in the order a heartbeat runs them
    Probe,              \* the lane that does no collecting
    Outcomes,           \* lane -> what its collection may come to, a subset of Outcome
    StartEnabled,       \* lanes whose schedule is enabled at the start
    Operable,           \* lanes operators enable and disable
    OneShotLanes,       \* lanes one-shot calls are made for
    Heartbeats,         \* workers that may be heartbeats
    Callers,            \* workers that may be one-shot calls
    Faults,             \* which faults occur: "crash", "error", "slow_job", "slow_lock"
    MaxFaults           \* bound: how many do

Outcome == {"items", "empty", "retryable", "permanent"}

ASSUME LanesAssumption ==
    /\ Nothing \notin Workers \cup Lanes \cup JobIds
    /\ ProcessOf \in [Workers -> Processes]
    /\ LaneOrder \in Seq(Lanes) /\ LaneOrder # <<>>
    /\ Outcomes \in [Lanes -> SUBSET Outcome]
    /\ StartEnabled \subseteq Lanes
    /\ OneShotLanes \subseteq Lanes \ {Probe}
    /\ Heartbeats \subseteq Workers
    /\ Callers \subseteq Workers
    /\ MaxFaults \in Nat

-------------------------------------------------------------------------------
VARIABLES
    schedules,      \* external_collection_schedules_v1: enabled, next_run_at (0: null)
    enabling,       \* enable functions between their check and their UPDATE
    lock,           \* internal_orchestration_locks_v1: token (the worker it was made for), state
    clock,          \* now
    pc,             \* the next statement of each worker
    mine,           \* what each worker remembers
    faults,         \* how many faults there were
    collected,      \* history: jobs whose collection was done without an error
    era,            \* history: the instant each schedule was last enabled at
    overlap         \* history: what went wrong with leases, see below

control == <<schedules, enabling, lock, clock, faults>>
history == <<collected, era, overlap>>
vars == <<jobs, control, pc, mine, history>>

\* What a worker remembers: its mode and nowIso, the lane it is in, the
\* next_run_at it read, the job it plans, picks or holds, and what it writes.
NoMemory == [mode |-> "none", at |-> 0, lane |-> Nothing, next |-> 0, job |-> Nothing,
             status |-> "absent", attempts |-> 0]

Init ==
    /\ JobsInit
    /\ schedules = [l \in Lanes |->
          [enabled |-> l \in StartEnabled, next |-> IF l \in StartEnabled THEN 1 ELSE 0]]
    /\ enabling = {}
    /\ lock = [token |-> Nothing, state |-> "free"]
    /\ clock = 1
    /\ faults = 0
    /\ pc = [w \in Workers |-> "idle"]
    /\ mine = [w \in Workers |-> NoMemory]
    /\ collected = {}
    /\ era = [l \in Lanes |-> 1]
    /\ overlap = {}

-------------------------------------------------------------------------------
\* Helpers of the steps.

Owner(w) == <<mine[w].lane, ProcessOf[w]>>

Goto(w, step) == pc' = [pc EXCEPT ![w] = step]

Continue(w, step) ==
    /\ Goto(w, step)
    /\ UNCHANGED mine

End(w) ==
    /\ Goto(w, "idle")
    /\ mine' = [mine EXCEPT ![w] = NoMemory]

EnterLane(w, l) ==
    /\ Goto(w, "guard")
    /\ mine' = [mine EXCEPT ![w] = [NoMemory EXCEPT !.mode = mine[w].mode, !.at = mine[w].at, !.lane = l]]

\* An exception outside the lane's try block: the heartbeat gets to its
\* finally block, the one-shot route answers an error.
Throw(w) ==
    IF mine[w].mode = "heartbeat" THEN Continue(w, "release_lock") ELSE End(w)

Position(l) == CHOOSE i \in DOMAIN LaneOrder : LaneOrder[i] = l

\* The lane returns: the heartbeat goes on with the next one.
LaneOver(w) ==
    LET next == Position(mine[w].lane) + 1 IN
    IF mine[w].mode = "heartbeat" /\ next \in DOMAIN LaneOrder
    THEN EnterLane(w, LaneOrder[next])
    ELSE Throw(w)

\* Rows picked FOR UPDATE by a leasing function that has not committed.
\* Others' picks skip them, other UPDATEs of them wait.
RowLocked(j) == \E w \in Workers : pc[w] = "commit_lease" /\ mine[w].job = j

\* Variant the runs must reject: the pick is a SELECT that locks nothing.
NothingLocked == {}

LockedRows == {j \in JobIds : RowLocked(j)}

HoldingSteps ==
    {"mark_running", "collect", "write_success", "write_empty", "release_success", "release_empty",
     "advance", "read_attempts", "write_failure", "release_failure", "release_foreign"}

Holds(w, j) == pc[w] \in HoldingSteps /\ mine[w].job = j

InLanes(w) == mine[w].mode = "heartbeat" /\ pc[w] \notin {"idle", "acquire_lock", "release_lock"}

-------------------------------------------------------------------------------
\* The heartbeat and its lock.

StartHeartbeat(w) ==
    /\ pc[w] = "idle"
    /\ Goto(w, "acquire_lock")
    /\ mine' = [mine EXCEPT ![w] = [NoMemory EXCEPT !.mode = "heartbeat", !.at = clock]]
    /\ UNCHANGED <<jobs, control, history>>

\* Variant the runs must reject: the lock is taken whatever its row says.
AcquireLockAlways(w) ==
    /\ pc[w] = "acquire_lock"
    /\ lock' = [token |-> w, state |-> "live"]
    /\ Continue(w, "renew_lock")
    /\ UNCHANGED <<jobs, schedules, enabling, clock, faults, history>>

\* acquire_internal_orchestration_lock_v1: no row, or an empty or expired one.
AcquireLock(w) ==
    /\ pc[w] = "acquire_lock"
    /\ \/ /\ lock.state # "live"
          /\ lock' = [token |-> w, state |-> "live"]
          /\ Continue(w, "renew_lock")
       \/ /\ lock.state = "live"
          /\ End(w)
          /\ UNCHANGED lock
    /\ UNCHANGED <<jobs, schedules, enabling, clock, faults, history>>

\* renew_internal_orchestration_lock_v1, before the internal jobs; the lanes
\* that follow never renew.  A mismatch or an expired lease raises.
RenewLock(w) ==
    /\ pc[w] = "renew_lock"
    /\ IF lock = [token |-> w, state |-> "live"]
       THEN EnterLane(w, LaneOrder[1])
       ELSE Continue(w, "release_lock")
    /\ UNCHANGED <<jobs, control, history>>

\* release_internal_orchestration_lock_v1, in the finally block; somebody
\* else's token raises, which ends the heartbeat too.
ReleaseLock(w) ==
    /\ pc[w] = "release_lock"
    /\ lock' = IF lock.token = w THEN [token |-> Nothing, state |-> "free"] ELSE lock
    /\ End(w)
    /\ UNCHANGED <<jobs, schedules, enabling, clock, faults, history>>

LockStep(w) == AcquireLock(w) \/ RenewLock(w) \/ ReleaseLock(w)

\* A call of the one-shot route: a new instant, and no lock.
StartOneShot(w, l) ==
    /\ pc[w] = "idle"
    /\ clock < MaxClock
    /\ clock' = clock + 1
    /\ Goto(w, "guard")
    /\ mine' = [mine EXCEPT ![w] = [NoMemory EXCEPT !.mode = "one_shot", !.at = clock + 1, !.lane = l]]
    /\ UNCHANGED <<jobs, schedules, enabling, lock, faults, history>>

-------------------------------------------------------------------------------
\* A lane plans a job.

Real == Lanes \ {Probe}

\* The probe refuses to run beside any other lane's job, a source lane beside
\* any other source's enabled schedule.
Refuses(l) ==
    IF l = Probe
    THEN \E j \in JobIds : LaneOf(j) # Probe /\ jobs[j].status \in Active
    ELSE \E k \in Real \ {l} : schedules[k].enabled

Guard(w) ==
    /\ pc[w] = "guard"
    /\ IF Refuses(mine[w].lane) THEN LaneOver(w) ELSE Continue(w, "read_schedule")
    /\ UNCHANGED <<jobs, control, history>>

\* A one-shot call takes the schedule for enabled and due now.
ReadSchedule(w) ==
    LET l == mine[w].lane
        shot == mine[w].mode = "one_shot"
    IN
    /\ pc[w] = "read_schedule"
    /\ IF schedules[l].enabled \/ shot
       THEN /\ mine' = [mine EXCEPT ![w].next = IF shot THEN mine[w].at ELSE schedules[l].next]
            /\ Goto(w, "read_jobs")
       ELSE LaneOver(w)
    /\ UNCHANGED <<jobs, control, history>>

Planned(w) ==
    <<mine[w].lane, IF mine[w].mode = "one_shot" THEN "shot" ELSE "slot", mine[w].next>>

\* heartbeat(): a job for a due schedule whose logical key is not there yet.
ReadJobs(w) ==
    /\ pc[w] = "read_jobs"
    /\ IF mine[w].next \in 1 .. mine[w].at /\ jobs[Planned(w)].status = "absent"
       THEN /\ mine' = [mine EXCEPT ![w].job = Planned(w)]
            /\ Goto(w, "insert_job")
       ELSE Continue(w, "count_leases")
    /\ UNCHANGED <<jobs, control, history>>

InsertPlanned(w) ==
    /\ pc[w] = "insert_job"
    /\ InsertJob(mine[w].job, mine[w].at)
    /\ mine' = [mine EXCEPT ![w].job = Nothing]
    /\ Goto(w, "count_leases")
    /\ UNCHANGED <<control, history>>

PlanStep(w) == Guard(w) \/ ReadSchedule(w) \/ ReadJobs(w) \/ InsertPlanned(w)

-------------------------------------------------------------------------------
\* lease_external_collection_job_v1

CountLeases(w) ==
    /\ pc[w] = "count_leases"
    /\ IF GlobalCapReached THEN LaneOver(w) ELSE Continue(w, "pick_job")
    /\ UNCHANGED <<jobs, control, history>>

PickJob(w) ==
    /\ pc[w] = "pick_job"
    /\ \/ \E j \in Earliest(Eligible(LockedRows)) :
             IF KeyCapReached(j)
             THEN LaneOver(w)
             ELSE /\ mine' = [mine EXCEPT ![w].job = j]
                  /\ Goto(w, "commit_lease")
       \/ /\ Eligible(LockedRows) = {}
          /\ LaneOver(w)
    /\ UNCHANGED <<jobs, control, history>>

\* A job of another lane is given back as blocked.
CommitLease(w) ==
    LET j == mine[w].job
        late == \E v \in Workers \ {w} : Holds(v, j) /\ Owner(v) = Owner(w)
        shot == mine[w].mode = "heartbeat" /\ j[2] = "shot"
    IN
    /\ pc[w] = "commit_lease"
    /\ Lease(j, Owner(w), w)
    /\ overlap' = overlap \cup (IF late THEN {"owner"} ELSE {}) \cup (IF shot THEN {"shot"} ELSE {})
    /\ Continue(w, IF LaneOf(j) = mine[w].lane THEN "mark_running" ELSE "release_foreign")
    /\ UNCHANGED <<control, collected, era>>

ReleaseForeign(w) ==
    /\ pc[w] = "release_foreign"
    /\ ~RowLocked(mine[w].job)
    /\ Release(mine[w].job, Owner(w), "blocked")
    /\ LaneOver(w)
    /\ UNCHANGED <<control, history>>

LeaseStep(w) == CountLeases(w) \/ PickJob(w) \/ CommitLease(w) \/ ReleaseForeign(w)

-------------------------------------------------------------------------------
\* A lane works its job.

MarkRunning(w) ==
    /\ pc[w] = "mark_running"
    /\ ~RowLocked(mine[w].job)
    /\ WriteStatus(mine[w].job, Owner(w), "running")
    /\ Continue(w, "collect")
    /\ UNCHANGED <<control, history>>

\* Fetching and persisting.  What was persisted stays, and persisting it again
\* is an idempotent replay, so that one mark per job is enough.
Collect(w) ==
    /\ pc[w] = "collect"
    /\ \E outcome \in Outcomes[mine[w].lane] :
          \/ /\ outcome = "items"
             /\ collected' = collected \cup {mine[w].job}
             /\ Continue(w, "write_success")
          \/ /\ outcome = "empty"
             /\ collected' = collected \cup {mine[w].job}
             /\ Continue(w, "write_empty")
          \/ /\ outcome \in {"retryable", "permanent"}
             /\ mine' = [mine EXCEPT ![w].status = outcome]
             /\ Goto(w, "read_attempts")
             /\ UNCHANGED collected
    /\ UNCHANGED <<jobs, control, era, overlap>>

\* Hoophall's early return for an empty listing is the "empty" branch: the job
\* succeeds, and the schedule stays where it is.
WriteSuccess(w) ==
    /\ pc[w] \in {"write_success", "write_empty"}
    /\ ~RowLocked(mine[w].job)
    /\ WriteStatus(mine[w].job, Owner(w), "succeeded")
    /\ Continue(w, IF pc[w] = "write_success" THEN "release_success" ELSE "release_empty")
    /\ UNCHANGED <<control, history>>

\* Variant the runs must reject: a one-shot call moves the schedule, too.
ReleaseAndAdvance(w) ==
    /\ pc[w] \in {"release_success", "release_empty"}
    /\ ~RowLocked(mine[w].job)
    /\ Release(mine[w].job, Owner(w), "succeeded")
    /\ IF pc[w] = "release_success" THEN Continue(w, "advance") ELSE LaneOver(w)
    /\ UNCHANGED <<control, history>>

ReleaseSuccess(w) ==
    /\ pc[w] \in {"release_success", "release_empty"}
    /\ ~RowLocked(mine[w].job)
    /\ Release(mine[w].job, Owner(w), "succeeded")
    /\ IF pc[w] = "release_success" /\ mine[w].mode = "heartbeat"
       THEN Continue(w, "advance")
       ELSE LaneOver(w)
    /\ UNCHANGED <<control, history>>

\* Variant the runs must reject: from now instead of from the slot just worked.
AdvanceFromNow(w) ==
    /\ pc[w] = "advance"
    /\ schedules' = [schedules EXCEPT ![mine[w].lane].next = clock + 1]
    /\ LaneOver(w)
    /\ UNCHANGED <<jobs, enabling, lock, clock, faults, history>>

\* advanceScheduleNextRun, from the next_run_at the lane read at its start;
\* an UPDATE by schedule_id alone, of a schedule that may be disabled by now.
Advance(w) ==
    /\ pc[w] = "advance"
    /\ schedules' = [schedules EXCEPT ![mine[w].lane].next = mine[w].next + 1]
    /\ LaneOver(w)
    /\ UNCHANGED <<jobs, enabling, lock, clock, faults, history>>

\* Variant the runs must reject: the class of the error becomes the status.
DecideByClass(w, attempts) ==
    /\ mine' = [mine EXCEPT ![w].attempts = attempts]
    /\ Goto(w, "write_failure")

DecideRetry(w, attempts) ==
    /\ mine' = [mine EXCEPT ![w].attempts = attempts,
                            ![w].status = NextStatusAfterFailure(@, attempts)]
    /\ Goto(w, "write_failure")

ReadAttempts(w) ==
    /\ pc[w] = "read_attempts"
    /\ DecideRetry(w, jobs[mine[w].job].attempts + 1)
    /\ UNCHANGED <<jobs, control, history>>

WriteFailure(w) ==
    /\ pc[w] = "write_failure"
    /\ ~RowLocked(mine[w].job)
    /\ WriteFailedAttempt(mine[w].job, Owner(w), mine[w].status, mine[w].attempts)
    /\ Continue(w, "release_failure")
    /\ UNCHANGED <<control, history>>

\* Variant the runs must reject: the catch block shares the release of the
\* success path.
ReleaseAsSucceeded(w) ==
    /\ pc[w] = "release_failure"
    /\ ~RowLocked(mine[w].job)
    /\ Release(mine[w].job, Owner(w), "succeeded")
    /\ LaneOver(w)
    /\ UNCHANGED <<control, history>>

ReleaseFailure(w) ==
    /\ pc[w] = "release_failure"
    /\ ~RowLocked(mine[w].job)
    /\ Release(mine[w].job, Owner(w), mine[w].status)
    /\ LaneOver(w)
    /\ UNCHANGED <<control, history>>

WorkStep(w) ==
    MarkRunning(w) \/ Collect(w) \/ WriteSuccess(w) \/ ReleaseSuccess(w) \/ Advance(w)
    \/ ReadAttempts(w) \/ WriteFailure(w) \/ ReleaseFailure(w)

-------------------------------------------------------------------------------
\* Faults.

Fault(kind) ==
    /\ kind \in Faults
    /\ faults < MaxFaults
    /\ faults' = faults + 1

\* The process dies.  A leasing function that is under way ends without it:
\* that is the worker dying before or after the function.
Crash(w) ==
    /\ pc[w] \notin {"idle", "commit_lease"}
    /\ Fault("crash")
    /\ End(w)
    /\ UNCHANGED <<jobs, schedules, enabling, lock, clock, history>>

\* Statements whose failure is an exception outside the try block.  The probe
\* lane, which has none, throws on every failure but that of its own work.
ThrowingSteps(l) ==
    {"renew_lock", "guard", "read_schedule", "read_jobs", "insert_job", "count_leases", "pick_job",
     "release_foreign", "mark_running", "release_failure"}
    \cup (IF l = Probe THEN {"write_success", "release_success", "advance", "read_attempts", "write_failure"} ELSE {})

FailAndThrow(w) ==
    /\ pc[w] \in ThrowingSteps(mine[w].lane)
    /\ Fault("error")
    /\ Throw(w)
    /\ UNCHANGED <<jobs, schedules, enabling, lock, clock, history>>

NextAfterFailedWrite ==
    [write_success |-> "release_success", write_empty |-> "release_empty", write_failure |-> "release_failure"]

\* A source lane looks at no error of these statements and goes on, with the
\* attempts of a job it could not read taken for none.
FailUnnoticed(w) ==
    /\ mine[w].lane \in Real
    /\ \/ pc[w] \in DOMAIN NextAfterFailedWrite /\ Continue(w, NextAfterFailedWrite[pc[w]])
       \/ pc[w] = "advance" /\ LaneOver(w)
       \/ pc[w] = "read_attempts" /\ DecideRetry(w, 1)
    /\ Fault("error")
    /\ UNCHANGED <<jobs, schedules, enabling, lock, clock, history>>

\* An error of the release, whose effect may have been lost or only its answer,
\* takes a source lane into its catch block with the job already written as
\* succeeded.
FailedRelease(w) ==
    /\ mine[w].lane \in Real
    /\ pc[w] \in {"release_success", "release_empty"}
    /\ ~RowLocked(mine[w].job)
    /\ Fault("error")
    /\ \/ UNCHANGED jobs
       \/ Release(mine[w].job, Owner(w), "succeeded")
    /\ mine' = [mine EXCEPT ![w].status = "permanent"]
    /\ Goto(w, "read_attempts")
    /\ UNCHANGED <<schedules, enabling, lock, clock, history>>

FaultStep(w) == Crash(w) \/ FailAndThrow(w) \/ FailUnnoticed(w) \/ FailedRelease(w)

-------------------------------------------------------------------------------
\* Operators, time, and the recovery of leases.

\* enable_hoophall_collection_v1, enable_lifecycle_probe_v1 and the like: the
\* check, and then the UPDATE, in one transaction that locks no other row.
EnableCheck(l) ==
    /\ l \in Operable \ enabling
    /\ clock < MaxClock
    /\ \A k \in (IF l = Probe THEN Lanes ELSE Real) \ {l} : ~schedules[k].enabled
    /\ enabling' = enabling \cup {l}
    /\ UNCHANGED <<jobs, schedules, lock, clock, faults, pc, mine, history>>

Busy(l) ==
    \/ \E w \in Workers : mine[w].lane = l
    \/ \E j \in JobIds : LaneOf(j) = l /\ jobs[j].status \in Active

EnableWrite(l) ==
    /\ l \in enabling
    /\ clock < MaxClock
    /\ clock' = clock + 1
    /\ enabling' = enabling \ {l}
    /\ schedules' = [schedules EXCEPT ![l] = [enabled |-> TRUE, next |-> clock + 1]]
    /\ era' = [era EXCEPT ![l] = clock + 1]
    /\ overlap' = IF schedules[l].enabled \/ Busy(l) THEN overlap \cup {"enable"} ELSE overlap
    /\ UNCHANGED <<jobs, lock, faults, pc, mine, collected>>

\* disable_hoophall_collection_v1 and the like.
Disable(l) ==
    /\ l \in Operable
    /\ schedules[l].enabled
    /\ \A j \in LockedRows : LaneOf(j) # l
    /\ CancelLane(l)
    /\ schedules' = [schedules EXCEPT ![l] = [enabled |-> FALSE, next |-> 0]]
    /\ UNCHANGED <<enabling, lock, clock, faults, pc, mine, history>>

Tick ==
    /\ clock < MaxClock
    /\ clock' = clock + 1
    /\ UNCHANGED <<jobs, schedules, enabling, lock, faults, pc, mine, history>>

HasLock(w) == lock.token = w /\ mine[w].mode = "heartbeat" /\ pc[w] # "acquire_lock"

Works(w, j) == jobs[j].grantee = w /\ Holds(w, j)

\* The leases of workers that are gone run out.
ExpireLock ==
    /\ lock.state = "live"
    /\ \A w \in Workers : ~HasLock(w)
    /\ lock' = [lock EXCEPT !.state = "expired"]
    /\ UNCHANGED <<jobs, schedules, enabling, clock, faults, pc, mine, history>>

ExpireLease(j) ==
    /\ \A w \in Workers : ~Works(w, j)
    /\ LeaseRunsOut(j)
    /\ UNCHANGED <<control, pc, mine, history>>

\* A heartbeat takes longer than 300 s, a lane longer than 60 s: neither renews.
OutliveLock ==
    /\ lock.state = "live"
    /\ \E w \in Workers : HasLock(w)
    /\ Fault("slow_lock")
    /\ lock' = [lock EXCEPT !.state = "expired"]
    /\ overlap' = overlap \cup {"lock"}
    /\ UNCHANGED <<jobs, schedules, enabling, clock, pc, mine, collected, era>>

OutliveLease(j) ==
    /\ \E w \in Workers : Works(w, j)
    /\ Fault("slow_job")
    /\ LeaseRunsOut(j)
    /\ overlap' = overlap \cup {"lease"}
    /\ UNCHANGED <<schedules, enabling, lock, clock, pc, mine, collected, era>>

\* expired-lease-recovery-v1: an hourly internal job of the heartbeat, which
\* its timeout may leave behind running, and which can be invoked by hand.
RecoverLeases ==
    /\ \E j \in JobIds : jobs[j].status \in Leased /\ jobs[j].lease = "expired"
    /\ RecoverExpired
    /\ UNCHANGED <<control, pc, mine, history>>

Step(w) == LockStep(w) \/ PlanStep(w) \/ LeaseStep(w) \/ WorkStep(w)

Environment ==
    \/ Tick \/ ExpireLock \/ RecoverLeases
    \/ OutliveLock
    \/ \E j \in JobIds : ExpireLease(j) \/ OutliveLease(j)
    \/ \E l \in Lanes : EnableCheck(l) \/ EnableWrite(l) \/ Disable(l)

Next ==
    \/ \E w \in Workers : Step(w) \/ FaultStep(w)
    \/ \E w \in Heartbeats : StartHeartbeat(w)
    \/ \E w \in Callers : \E l \in OneShotLanes : StartOneShot(w, l)
    \/ Environment

Spec == Init /\ [][Next]_vars

\* Workers run to their end, the cron keeps calling the heartbeat, the leases of
\* dead workers run out, and recovery is run; operators, one-shot calls and faults owe nothing.
FairSpec ==
    /\ Spec
    /\ \A w \in Workers : WF_vars(Step(w))
    /\ \A w \in Heartbeats : WF_vars(StartHeartbeat(w))
    /\ WF_vars(ExpireLock) /\ WF_vars(RecoverLeases)
    /\ \A j \in JobIds : WF_vars(ExpireLease(j))

-------------------------------------------------------------------------------
Steps ==
    {"idle", "acquire_lock", "renew_lock", "release_lock", "guard", "read_schedule", "read_jobs",
     "insert_job", "count_leases", "pick_job", "commit_lease"} \cup HoldingSteps

Memory == [mode : {"none", "heartbeat", "one_shot"}, at : Nat, lane : Lanes \cup {Nothing},
           next : Nat, job : JobIds \cup {Nothing},
           status : {"absent", "retryable", "permanent", "retry_wait", "failed"}, attempts : Nat]

\* Every column holds what the schema's CHECK constraints allow, and every
\* worker is at one of its statements.
TypeOK ==
    /\ jobs \in [JobIds -> JobRow]
    /\ schedules \in [Lanes -> [enabled : BOOLEAN, next : Nat]]
    /\ enabling \subseteq Lanes
    /\ lock \in [token : Workers \cup {Nothing}, state : {"free", "live", "expired"}]
    /\ clock \in Nat
    /\ faults \in Nat
    /\ pc \in [Workers -> Steps]
    /\ mine \in [Workers -> Memory]
    /\ collected \subseteq JobIds
    /\ era \in [Lanes -> Nat]
    /\ overlap \subseteq {"lock", "owner", "lease", "shot", "enable"}

\* Two heartbeats are in their lanes together only if the lock, which the
\* lanes do not renew, at some time ran out under its holder: no crash, no
\* failing statement and no release by a latecomer lets a second one in.
HeartbeatsExclude ==
    "lock" \notin overlap => \A v, w \in Workers : InLanes(v) /\ InLanes(w) => v = w

\* The owner column lets through only the worker the lease was last given to:
\* a worker that lost its lease writes nothing any more.  This is so until a
\* lease is given, a second time, to a worker of the same process and lane.
OwnerIsGrantee ==
    "owner" \notin overlap =>
        \A w \in Workers, j \in JobIds : Holds(w, j) /\ jobs[j].owner = Owner(w) => jobs[j].grantee = w

\* No job is in the hands of two workers, though one-shot calls take no lock,
\* caps are counted before a row is picked, and a job is written as waiting
\* before its lease is released: until a lease runs out under its holder.
JobInOneHand ==
    "lease" \notin overlap =>
        \A j \in JobIds : \A v, w \in Workers : Holds(v, j) /\ Holds(w, j) => v = w

\* A job that ended and was released keeps its status, its attempts and its
\* lease columns for good, whatever a late worker, a recovery of leases, an
\* operator or a failing statement does.
ReleasedIsFinal ==
    [][\A j \in JobIds :
          jobs[j].status \in Ended /\ jobs[j].owner = Nobody => jobs'[j] = jobs[j]]_jobs

\* A job that shows a lease has one that runs out: whoever loses it, and
\* whatever is written late, the recovery finds the job by its lease columns.
LeasedIsRecoverable ==
    \A j \in JobIds :
        jobs[j].status \in Leased => jobs[j].lease # "none" /\ jobs[j].owner # Nobody

\* A job that waits or is worked has an attempt left, and none has more
\* failures on record than attempts allowed.  A lease that is lost, by a crash
\* or by being slow, is not on record.
AttemptsAreBounded ==
    "owner" \notin overlap =>
        \A j \in JobIds :
            /\ jobs[j].attempts <= MaxAttempts
            /\ jobs[j].status \in Active => jobs[j].attempts < MaxAttempts

\* A job shows success only if a collection of this very job was completed.
SucceededWasCollected ==
    \A j \in JobIds : jobs[j].status = "succeeded" => j \in collected

\* As long as leases outlast the work and no heartbeat works a one-shot call's
\* job, a schedule moves past a slot only when the slot's job has succeeded.
PassedSlotsSucceeded ==
    overlap = {} =>
        \A l \in Lanes : schedules[l].enabled =>
            \A s \in era[l] .. (schedules[l].next - 1) :
                s <= MaxClock /\ jobs[<<l, "slot", s>>].status = "succeeded"

\* A schedule is never further ahead than jobs of its lane have succeeded since
\* it was enabled: a one-shot call's job that a heartbeat leases moves it past
\* a slot nothing was collected for, but past one slot only, and the call
\* itself does not move it.
PassedSlotsAreEarned ==
    overlap \subseteq {"shot"} =>
        \A l \in Lanes : schedules[l].enabled =>
            schedules[l].next - era[l]
                <= Cardinality({j \in JobIds : /\ LaneOf(j) = l /\ j[3] >= era[l]
                                               /\ jobs[j].status = "succeeded"})

\* The retry policy's promise: a job that is planned comes to an end, as long
\* as its source's schedule is enabled, and is the only one that is.
EnabledLaneFinishesJobs ==
    \A j \in JobIds :
        LET l == LaneOf(j)
            alone == schedules[l].enabled /\ \A k \in Real \ {l} : ~schedules[k].enabled
        IN l # Probe => (jobs[j].status \in Active /\ alone ~> jobs[j].status \in Ended \/ ~alone)

===============================================================================
