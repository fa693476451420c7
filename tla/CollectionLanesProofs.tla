------------------------- MODULE CollectionLanesProofs -------------------------
(***************************************************************************)
(* What TLAPS proves of CollectionLanes, for any number of workers,        *)
(* processes, lanes, instants, attempts and faults: type correctness, the  *)
(* exclusion of heartbeats, the fence of the owner column, the finality of *)
(* released results, and the limit on attempts.                            *)
(***************************************************************************)
EXTENDS CollectionLanes, TLAPS

\* The steps at which a worker is in a lane.
LaneSteps ==
    {"guard", "read_schedule", "read_jobs", "insert_job", "count_leases", "pick_job",
     "commit_lease"} \cup HoldingSteps

\* The steps at which it remembers a job.
JobSteps == {"insert_job", "commit_lease"} \cup HoldingSteps

LEMMA StepSets ==
    /\ Steps = {"idle", "acquire_lock", "renew_lock", "release_lock"} \cup LaneSteps
    /\ JobSteps \subseteq LaneSteps
    /\ HoldingSteps =
          {"mark_running", "collect", "write_success", "write_empty", "release_success",
           "release_empty", "advance", "read_attempts", "write_failure", "release_failure",
           "release_foreign"}
BY DEF Steps, LaneSteps, JobSteps, HoldingSteps

\* What a worker remembers, by the step it is at.
WorkersInv ==
    /\ pc \in [Workers -> Steps]
    /\ mine \in [Workers -> Memory]
    /\ \A w \in Workers :
          /\ mine[w].at <= MaxClock
          /\ pc[w] \in LaneSteps => mine[w].lane \in Lanes
          /\ pc[w] \in JobSteps => mine[w].job \in JobIds
          /\ pc[w] \in {"write_failure", "release_failure"} =>
                mine[w].status \in {"retry_wait", "failed"}

ControlInv ==
    /\ schedules \in [Lanes -> [enabled : BOOLEAN, next : Nat]]
    /\ enabling \subseteq Lanes
    /\ lock \in [token : Workers \cup {Nothing}, state : {"free", "live", "expired"}]
    /\ clock \in 1 .. MaxClock
    /\ faults \in Nat

HistoryInv ==
    /\ collected \subseteq JobIds
    /\ era \in [Lanes -> Nat]
    /\ overlap \subseteq {"lock", "owner", "lease", "shot", "enable"}

TypeInv ==
    /\ jobs \in [JobIds -> JobRow]
    /\ ControlInv
    /\ WorkersInv
    /\ HistoryInv

LEMMA EmptyRecords ==
    /\ NoJobRow \in JobRow
    /\ NoMemory \in Memory
BY DEF NoJobRow, JobRow, NoMemory, Memory

LEMMA TypeInit == Init => TypeInv
<1> SUFFICES ASSUME Init PROVE TypeInv
  OBVIOUS
<1> USE EmptyRecords, JobsAssumption, LanesAssumption DEF Init
<1>1. jobs \in [JobIds -> JobRow]
  BY DEF JobsInit
<1>2. ControlInv
  BY DEF ControlInv
<1>3. WorkersInv
  BY StepSets DEF WorkersInv, LaneSteps, JobSteps, HoldingSteps, NoMemory
<1>4. HistoryInv
  BY DEF HistoryInv
<1> QED
  BY <1>1, <1>2, <1>3, <1>4 DEF TypeInv

-------------------------------------------------------------------------------
\* How a worker goes on.

LEMMA ContinueWorkers ==
    ASSUME WorkersInv, NEW w \in Workers, NEW step \in Steps, Continue(w, step),
           step \in LaneSteps => pc[w] \in LaneSteps,
           step \in JobSteps => pc[w] \in JobSteps,
           step \in {"write_failure", "release_failure"} => pc[w] \in {"write_failure", "release_failure"}
    PROVE  WorkersInv'
BY DEF WorkersInv, Continue, Goto

LEMMA EndWorkers ==
    ASSUME WorkersInv, NEW w \in Workers, End(w)
    PROVE  WorkersInv'
<1>1. NoMemory \in Memory /\ NoMemory.at <= MaxClock
  BY EmptyRecords, JobsAssumption DEF NoMemory
<1>2. /\ "idle" \in Steps
      /\ "idle" \notin LaneSteps
      /\ "idle" \notin JobSteps
  BY DEF Steps, LaneSteps, JobSteps, HoldingSteps
<1> QED
  BY <1>1, <1>2 DEF WorkersInv, End, Goto

LEMMA EnterLaneWorkers ==
    ASSUME WorkersInv, NEW w \in Workers, NEW l \in Lanes, EnterLane(w, l)
    PROVE  WorkersInv'
<1> DEFINE memory == [NoMemory EXCEPT !.mode = mine[w].mode, !.at = mine[w].at, !.lane = l]
<1>1. memory \in Memory /\ memory.at <= MaxClock /\ memory.lane = l
  BY DEF WorkersInv, Memory, NoMemory
<1>2. "guard" \in Steps /\ "guard" \notin JobSteps
  BY DEF Steps, JobSteps, HoldingSteps
<1> QED
  BY <1>1, <1>2 DEF WorkersInv, EnterLane, Goto

LEMMA ThrowWorkers ==
    ASSUME WorkersInv, NEW w \in Workers, Throw(w)
    PROVE  WorkersInv'
<1>1. CASE mine[w].mode = "heartbeat"
  <2>1. /\ "release_lock" \in Steps
        /\ "release_lock" \notin LaneSteps
        /\ "release_lock" \notin JobSteps
    BY DEF Steps, LaneSteps, JobSteps, HoldingSteps
  <2> QED
    BY <1>1, <2>1, ContinueWorkers DEF Throw
<1>2. CASE mine[w].mode # "heartbeat"
  BY <1>2, EndWorkers DEF Throw
<1> QED
  BY <1>1, <1>2

LEMMA LaneOverWorkers ==
    ASSUME WorkersInv, NEW w \in Workers, LaneOver(w)
    PROVE  WorkersInv'
<1> DEFINE next == Position(mine[w].lane) + 1
<1>1. CASE mine[w].mode = "heartbeat" /\ next \in DOMAIN LaneOrder
  <2>1. LaneOrder[next] \in Lanes
    BY <1>1, LanesAssumption
  <2> QED
    BY <1>1, <2>1, EnterLaneWorkers DEF LaneOver
<1>2. CASE ~(mine[w].mode = "heartbeat" /\ next \in DOMAIN LaneOrder)
  BY <1>2, ThrowWorkers DEF LaneOver
<1> QED
  BY <1>1, <1>2

LEMMA DecideRetryWorkers ==
    ASSUME WorkersInv, NEW w \in Workers, NEW attempts \in Nat, pc[w] \in HoldingSteps,
           DecideRetry(w, attempts)
    PROVE  WorkersInv'
<1> DEFINE status == NextStatusAfterFailure(mine[w].status, attempts)
           memory == [mine[w] EXCEPT !.attempts = attempts, !.status = status]
<1>1. status \in {"retry_wait", "failed"}
  BY DEF NextStatusAfterFailure
<1>2. "write_failure" \in Steps
  BY DEF Steps, HoldingSteps
<1>3. pc[w] \in LaneSteps /\ pc[w] \in JobSteps
  BY DEF LaneSteps, JobSteps
<1>4. mine' = [mine EXCEPT ![w] = memory]
  BY DEF DecideRetry, WorkersInv, Memory
<1>5. /\ memory \in Memory
      /\ memory.at = mine[w].at
      /\ memory.lane = mine[w].lane
      /\ memory.job = mine[w].job
      /\ memory.status = status
  BY <1>1 DEF WorkersInv, Memory
<1>6. pc' = [pc EXCEPT ![w] = "write_failure"]
  BY DEF DecideRetry, Goto
<1> HIDE DEF status, memory
<1> QED
  BY <1>1, <1>2, <1>3, <1>4, <1>5, <1>6 DEF WorkersInv

-------------------------------------------------------------------------------
\* What the statements on the job table leave of it.

LEMMA UpdateOwnedType ==
    ASSUME jobs \in [JobIds -> JobRow], NEW j, NEW owner, NEW row \in JobRow,
           UpdateOwned(j, owner, row)
    PROVE  jobs' \in [JobIds -> JobRow]
BY DEF UpdateOwned

LEMMA WriteStatusType ==
    ASSUME jobs \in [JobIds -> JobRow], NEW j \in JobIds, NEW owner,
           NEW status \in Active \cup Ended, WriteStatus(j, owner, status)
    PROVE  jobs' \in [JobIds -> JobRow]
<1>1. [jobs[j] EXCEPT !.status = status] \in JobRow
  BY DEF JobRow
<1> QED
  BY <1>1, UpdateOwnedType DEF WriteStatus

LEMMA UnleasedType ==
    ASSUME NEW row \in JobRow, NEW status \in Active \cup Ended
    PROVE  Unleased(row, status) \in JobRow
BY DEF Unleased, JobRow

LEMMA ReleaseType ==
    ASSUME jobs \in [JobIds -> JobRow], NEW j \in JobIds, NEW owner,
           NEW status \in Active \cup Ended, Release(j, owner, status)
    PROVE  jobs' \in [JobIds -> JobRow]
<1>1. Unleased(jobs[j], status) \in JobRow
  BY UnleasedType
<1> QED
  BY <1>1, UpdateOwnedType DEF Release

LEMMA WriteFailedAttemptType ==
    ASSUME jobs \in [JobIds -> JobRow], NEW j \in JobIds, NEW owner,
           NEW status \in Active \cup Ended, NEW attempts \in Nat,
           WriteFailedAttempt(j, owner, status, attempts)
    PROVE  jobs' \in [JobIds -> JobRow]
<1>1. [jobs[j] EXCEPT !.status = status, !.attempts = attempts] \in JobRow
  BY DEF JobRow
<1> QED
  BY <1>1, UpdateOwnedType DEF WriteFailedAttempt

LEMMA InsertJobType ==
    ASSUME jobs \in [JobIds -> JobRow], NEW j \in JobIds, NEW now \in Nat, InsertJob(j, now)
    PROVE  jobs' \in [JobIds -> JobRow]
<1>1. [NoJobRow EXCEPT !.status = "queued", !.runAfter = now] \in JobRow
  BY EmptyRecords DEF JobRow, Active, Waiting
<1> QED
  BY <1>1 DEF InsertJob

LEMMA LeaseType ==
    ASSUME jobs \in [JobIds -> JobRow], NEW j \in JobIds, NEW owner \in Owners,
           NEW worker \in Workers, Lease(j, owner, worker)
    PROVE  jobs' \in [JobIds -> JobRow]
<1>1. [jobs[j] EXCEPT !.status = "leased", !.lease = "live", !.owner = owner, !.grantee = worker] \in JobRow
  BY DEF JobRow, Active, Leased
<1> QED
  BY <1>1 DEF Lease

LEMMA RecoverExpiredType ==
    ASSUME jobs \in [JobIds -> JobRow], RecoverExpired
    PROVE  jobs' \in [JobIds -> JobRow]
<1>1. \A j \in JobIds : Unleased(jobs[j], "retry_wait") \in JobRow
  BY UnleasedType DEF Active, Waiting
<1> QED
  BY <1>1 DEF RecoverExpired

LEMMA CancelLaneType ==
    ASSUME jobs \in [JobIds -> JobRow], NEW l, CancelLane(l)
    PROVE  jobs' \in [JobIds -> JobRow]
<1>1. \A j \in JobIds : Unleased(jobs[j], "cancelled") \in JobRow
  BY UnleasedType DEF Ended
<1> QED
  BY <1>1 DEF CancelLane

LEMMA LeaseRunsOutType ==
    ASSUME jobs \in [JobIds -> JobRow], NEW j \in JobIds, LeaseRunsOut(j)
    PROVE  jobs' \in [JobIds -> JobRow]
<1>1. [jobs[j] EXCEPT !.lease = "expired"] \in JobRow
  BY DEF JobRow
<1> QED
  BY <1>1 DEF LeaseRunsOut

-------------------------------------------------------------------------------
\* Every step keeps the types.

LEMMA LockTypes ==
    ASSUME TypeInv, NEW w \in Workers, LockStep(w)
    PROVE  TypeInv'
<1> USE DEF TypeInv
<1>1. CASE AcquireLock(w)
  <2>1. ControlInv' /\ HistoryInv' /\ jobs' = jobs
    BY <1>1 DEF AcquireLock, ControlInv, HistoryInv, history
  <2>2. CASE End(w)
    BY <2>1, <2>2, EndWorkers
  <2>3. CASE Continue(w, "renew_lock")
    BY <2>1, <2>3, ContinueWorkers, StepSets DEF LaneSteps
  <2> QED
    BY <1>1, <2>2, <2>3 DEF AcquireLock
<1>2. CASE RenewLock(w)
  <2>1. ControlInv' /\ HistoryInv' /\ jobs' = jobs
    BY <1>2 DEF RenewLock, ControlInv, HistoryInv, history, control
  <2>2. CASE EnterLane(w, LaneOrder[1])
    <3>1. LaneOrder[1] \in Lanes
      BY LanesAssumption
    <3> QED
      BY <2>1, <2>2, <3>1, EnterLaneWorkers
  <2>3. CASE Continue(w, "release_lock")
    BY <2>1, <2>3, ContinueWorkers, StepSets DEF LaneSteps
  <2> QED
    BY <1>2, <2>2, <2>3 DEF RenewLock
<1>3. CASE ReleaseLock(w)
  <2>1. ControlInv' /\ HistoryInv' /\ jobs' = jobs
    BY <1>3 DEF ReleaseLock, ControlInv, HistoryInv, history
  <2> QED
    BY <1>3, <2>1, EndWorkers DEF ReleaseLock
<1> QED
  BY <1>1, <1>2, <1>3 DEF LockStep

LEMMA PlanTypes ==
    ASSUME TypeInv, NEW w \in Workers, PlanStep(w)
    PROVE  TypeInv'
<1> USE DEF TypeInv
<1>1. CASE Guard(w)
  <2>1. ControlInv' /\ HistoryInv' /\ jobs' = jobs
    BY <1>1 DEF Guard, ControlInv, HistoryInv, history, control
  <2>2. CASE LaneOver(w)
    BY <2>1, <2>2, LaneOverWorkers
  <2>3. CASE Continue(w, "read_schedule")
    BY <1>1, <2>1, <2>3, ContinueWorkers, StepSets DEF LaneSteps, JobSteps, Guard
  <2> QED
    BY <1>1, <2>2, <2>3 DEF Guard
<1>2. CASE ReadSchedule(w)
  <2>1. ControlInv' /\ HistoryInv' /\ jobs' = jobs
    BY <1>2 DEF ReadSchedule, ControlInv, HistoryInv, history, control
  <2>2. CASE LaneOver(w)
    BY <2>1, <2>2, LaneOverWorkers
  <2>3. CASE ~LaneOver(w)
    <3> DEFINE next == IF mine[w].mode = "one_shot" THEN mine[w].at ELSE schedules[mine[w].lane].next
    <3>1. /\ mine' = [mine EXCEPT ![w].next = next]
          /\ pc' = [pc EXCEPT ![w] = "read_jobs"]
      BY <1>2, <2>3 DEF ReadSchedule, Goto
    <3>2. mine[w].lane \in Lanes
      BY <1>2 DEF ReadSchedule, WorkersInv, LaneSteps
    <3>3. next \in Nat
      BY <3>2 DEF WorkersInv, Memory, ControlInv
    <3> HIDE DEF next
    <3>4. WorkersInv'
      BY <3>1, <3>2, <3>3, StepSets DEF WorkersInv, Memory, LaneSteps, JobSteps
    <3> QED
      BY <2>1, <3>4
  <2> QED
    BY <2>2, <2>3
<1>3. CASE ReadJobs(w)
  <2>1. ControlInv' /\ HistoryInv' /\ jobs' = jobs
    BY <1>3 DEF ReadJobs, ControlInv, HistoryInv, history, control
  <2>2. CASE Continue(w, "count_leases")
    BY <1>3, <2>1, <2>2, ContinueWorkers, StepSets DEF LaneSteps, JobSteps, ReadJobs
  <2>3. CASE ~Continue(w, "count_leases")
    <3>1. /\ mine' = [mine EXCEPT ![w].job = Planned(w)]
          /\ pc' = [pc EXCEPT ![w] = "insert_job"]
          /\ mine[w].next \in 1 .. mine[w].at
      BY <1>3, <2>3 DEF ReadJobs, Goto
    <3>2. mine[w].lane \in Lanes
      BY <1>3 DEF ReadJobs, WorkersInv, LaneSteps
    <3>3. mine[w].next \in 1 .. MaxClock
      BY <3>1, JobsAssumption DEF WorkersInv, Memory
    <3>4. Planned(w) \in JobIds
      BY <3>2, <3>3 DEF Planned, JobIds
    <3>5. WorkersInv'
      BY <3>1, <3>2, <3>4, StepSets DEF WorkersInv, Memory, LaneSteps, JobSteps
    <3> QED
      BY <2>1, <3>5
  <2> QED
    BY <2>2, <2>3
<1>4. CASE InsertPlanned(w)
  <2>1. ControlInv' /\ HistoryInv'
    BY <1>4 DEF InsertPlanned, ControlInv, HistoryInv, history, control
  <2>2. mine[w].job \in JobIds /\ mine[w].lane \in Lanes /\ mine[w].at \in Nat
    BY <1>4 DEF InsertPlanned, WorkersInv, JobSteps, LaneSteps, Memory
  <2>3. jobs' \in [JobIds -> JobRow]
    BY <1>4, <2>2, InsertJobType DEF InsertPlanned
  <2>4. WorkersInv'
    BY <1>4, <2>2, StepSets DEF InsertPlanned, Goto, WorkersInv, Memory, LaneSteps, JobSteps
  <2> QED
    BY <2>1, <2>3, <2>4
<1> QED
  BY <1>1, <1>2, <1>3, <1>4 DEF PlanStep

LEMMA OwnerIsOwner ==
    ASSUME WorkersInv, NEW w \in Workers, pc[w] \in LaneSteps
    PROVE  Owner(w) \in Owners
BY LanesAssumption DEF Owner, Owners, WorkersInv

LEMMA LeaseTypes ==
    ASSUME TypeInv, NEW w \in Workers, LeaseStep(w)
    PROVE  TypeInv'
<1> USE DEF TypeInv
<1>1. CASE CountLeases(w)
  <2>1. ControlInv' /\ HistoryInv' /\ jobs' = jobs
    BY <1>1 DEF CountLeases, ControlInv, HistoryInv, history, control
  <2>2. CASE LaneOver(w)
    BY <2>1, <2>2, LaneOverWorkers
  <2>3. CASE Continue(w, "pick_job")
    BY <1>1, <2>1, <2>3, ContinueWorkers, StepSets DEF LaneSteps, JobSteps, CountLeases
  <2> QED
    BY <1>1, <2>2, <2>3 DEF CountLeases
<1>2. CASE PickJob(w)
  <2>1. ControlInv' /\ HistoryInv' /\ jobs' = jobs
    BY <1>2 DEF PickJob, ControlInv, HistoryInv, history, control
  <2>2. CASE LaneOver(w)
    BY <2>1, <2>2, LaneOverWorkers
  <2>3. CASE ~LaneOver(w)
    <3>1. PICK j \in Earliest(Eligible(LockedRows)) :
            mine' = [mine EXCEPT ![w].job = j] /\ Goto(w, "commit_lease")
      BY <1>2, <2>3 DEF PickJob
    <3>2. j \in JobIds
      BY DEF Earliest, Eligible
    <3>3. WorkersInv'
      BY <1>2, <3>1, <3>2, StepSets DEF PickJob, Goto, WorkersInv, Memory, LaneSteps, JobSteps
    <3> QED
      BY <2>1, <3>3
  <2> QED
    BY <2>2, <2>3
<1>3. CASE CommitLease(w)
  <2> DEFINE j == mine[w].job
             step == IF LaneOf(j) = mine[w].lane THEN "mark_running" ELSE "release_foreign"
  <2>1. pc[w] \in LaneSteps /\ pc[w] \in JobSteps
    BY <1>3 DEF CommitLease, LaneSteps, JobSteps
  <2>2. j \in JobIds
    BY <2>1 DEF WorkersInv
  <2>3. jobs' \in [JobIds -> JobRow]
    BY <1>3, <2>1, <2>2, OwnerIsOwner, LeaseType DEF CommitLease
  <2>4. ControlInv' /\ HistoryInv'
    BY <1>3 DEF CommitLease, ControlInv, HistoryInv, control
  <2>5. Continue(w, step)
    BY <1>3 DEF CommitLease
  <2>6. WorkersInv'
    <3>1. step \in HoldingSteps /\ step \notin {"write_failure", "release_failure"}
      BY DEF HoldingSteps
    <3>2. step \in Steps
      BY <3>1 DEF Steps
    <3> QED
      BY <2>1, <2>5, <3>1, <3>2, ContinueWorkers
  <2> QED
    BY <2>3, <2>4, <2>6
<1>4. CASE ReleaseForeign(w)
  <2>1. ControlInv' /\ HistoryInv'
    BY <1>4 DEF ReleaseForeign, ControlInv, HistoryInv, history, control
  <2>2. mine[w].job \in JobIds
    BY <1>4 DEF ReleaseForeign, WorkersInv, JobSteps, HoldingSteps
  <2>3. jobs' \in [JobIds -> JobRow]
    BY <1>4, <2>2, ReleaseType DEF ReleaseForeign, Ended
  <2>4. WorkersInv'
    BY <1>4, LaneOverWorkers DEF ReleaseForeign
  <2> QED
    BY <2>1, <2>3, <2>4
<1> QED
  BY <1>1, <1>2, <1>3, <1>4 DEF LeaseStep

LEMMA HoldingFacts ==
    ASSUME WorkersInv, NEW w \in Workers, pc[w] \in HoldingSteps
    PROVE  /\ mine[w].lane \in Lanes
           /\ mine[w].job \in JobIds
           /\ pc[w] \in LaneSteps
           /\ pc[w] \in JobSteps
BY DEF WorkersInv, LaneSteps, JobSteps

\* Going on to another step of a job's work.
LEMMA HoldingContinue ==
    ASSUME WorkersInv, NEW w \in Workers, pc[w] \in HoldingSteps, NEW step \in HoldingSteps,
           step \in {"write_failure", "release_failure"} => pc[w] \in {"write_failure", "release_failure"},
           Continue(w, step)
    PROVE  WorkersInv'
BY HoldingFacts, ContinueWorkers DEF Steps

LEMMA WorkTypes ==
    ASSUME TypeInv, NEW w \in Workers, WorkStep(w)
    PROVE  TypeInv'
<1> DEFINE j == mine[w].job
<1> USE DEF TypeInv
<1>1. CASE MarkRunning(w)
  <2>1. ControlInv' /\ HistoryInv' /\ pc[w] \in HoldingSteps
    BY <1>1 DEF MarkRunning, ControlInv, HistoryInv, history, control, HoldingSteps
  <2>2. jobs' \in [JobIds -> JobRow]
    BY <1>1, <2>1, HoldingFacts, WriteStatusType DEF MarkRunning, Active, Leased
  <2>3. WorkersInv'
    BY <1>1, <2>1, HoldingContinue DEF MarkRunning, HoldingSteps
  <2> QED
    BY <2>1, <2>2, <2>3
<1>2. CASE Collect(w)
  <2>1. pc[w] \in HoldingSteps /\ pc[w] \notin {"write_failure", "release_failure"}
    BY <1>2 DEF Collect, HoldingSteps
  <2>2. ControlInv' /\ jobs' = jobs /\ era' = era /\ overlap' = overlap
    BY <1>2 DEF Collect, ControlInv, control
  <2>3. CASE Continue(w, "write_success") \/ Continue(w, "write_empty")
    <3>1. WorkersInv'
      BY <2>1, <2>3, HoldingContinue DEF HoldingSteps
    <3>2. collected' = collected \cup {mine[w].job} \/ collected' = collected
      BY <1>2 DEF Collect
    <3>3. HistoryInv'
      BY <2>1, <2>2, <3>2, HoldingFacts DEF HistoryInv
    <3> QED
      BY <2>2, <3>1, <3>3
  <2>4. CASE ~(Continue(w, "write_success") \/ Continue(w, "write_empty"))
    <3>1. PICK outcome \in {"retryable", "permanent"} :
            /\ mine' = [mine EXCEPT ![w].status = outcome]
            /\ Goto(w, "read_attempts")
            /\ UNCHANGED collected
      BY <1>2, <2>4 DEF Collect
    <3>2. WorkersInv'
      BY <2>1, <3>1, StepSets, HoldingFacts DEF Goto, WorkersInv, Memory, LaneSteps, JobSteps
    <3>3. HistoryInv'
      BY <2>2, <3>1 DEF HistoryInv
    <3> QED
      BY <2>2, <3>2, <3>3
  <2> QED
    BY <2>3, <2>4
<1>3. CASE WriteSuccess(w)
  <2>1. ControlInv' /\ HistoryInv' /\ pc[w] \in HoldingSteps
    BY <1>3 DEF WriteSuccess, ControlInv, HistoryInv, history, control, HoldingSteps
  <2>2. jobs' \in [JobIds -> JobRow]
    BY <1>3, <2>1, HoldingFacts, WriteStatusType DEF WriteSuccess, Ended
  <2>3. WorkersInv'
    BY <1>3, <2>1, HoldingContinue DEF WriteSuccess, HoldingSteps
  <2> QED
    BY <2>1, <2>2, <2>3
<1>4. CASE ReleaseSuccess(w)
  <2>1. ControlInv' /\ HistoryInv' /\ pc[w] \in HoldingSteps
    BY <1>4 DEF ReleaseSuccess, ControlInv, HistoryInv, history, control, HoldingSteps
  <2>2. jobs' \in [JobIds -> JobRow]
    BY <1>4, <2>1, HoldingFacts, ReleaseType DEF ReleaseSuccess, Ended
  <2>3. WorkersInv'
    BY <1>4, <2>1, HoldingContinue, LaneOverWorkers DEF ReleaseSuccess, HoldingSteps
  <2> QED
    BY <2>1, <2>2, <2>3
<1>5. CASE Advance(w)
  <2>1. HistoryInv' /\ jobs' = jobs /\ pc[w] \in HoldingSteps
    BY <1>5 DEF Advance, HistoryInv, history, HoldingSteps
  <2>2. mine[w].next + 1 \in Nat
    BY DEF WorkersInv, Memory
  <2>3. ControlInv'
    BY <1>5, <2>2 DEF Advance, ControlInv
  <2>4. WorkersInv'
    BY <1>5, LaneOverWorkers DEF Advance
  <2> QED
    BY <2>1, <2>3, <2>4
<1>6. CASE ReadAttempts(w)
  <2>1. ControlInv' /\ HistoryInv' /\ jobs' = jobs /\ pc[w] \in HoldingSteps
    BY <1>6 DEF ReadAttempts, ControlInv, HistoryInv, history, control, HoldingSteps
  <2>2. jobs[j].attempts + 1 \in Nat
    BY <2>1, HoldingFacts DEF JobRow
  <2>3. WorkersInv'
    BY <1>6, <2>1, <2>2, DecideRetryWorkers DEF ReadAttempts
  <2> QED
    BY <2>1, <2>3
<1>7. CASE WriteFailure(w)
  <2>1. ControlInv' /\ HistoryInv' /\ pc[w] \in HoldingSteps
    BY <1>7 DEF WriteFailure, ControlInv, HistoryInv, history, control, HoldingSteps
  <2>2. mine[w].status \in {"retry_wait", "failed"} /\ mine[w].attempts \in Nat
    BY <1>7 DEF WriteFailure, WorkersInv, Memory
  <2>3. mine[w].status \in Active \cup Ended
    BY <2>2 DEF Active, Waiting, Ended
  <2>4. jobs' \in [JobIds -> JobRow]
    BY <1>7, <2>1, <2>2, <2>3, HoldingFacts, WriteFailedAttemptType DEF WriteFailure
  <2>5. WorkersInv'
    BY <1>7, <2>1, HoldingContinue DEF WriteFailure, HoldingSteps
  <2> QED
    BY <2>1, <2>4, <2>5
<1>8. CASE ReleaseFailure(w)
  <2>1. ControlInv' /\ HistoryInv' /\ pc[w] \in HoldingSteps
    BY <1>8 DEF ReleaseFailure, ControlInv, HistoryInv, history, control, HoldingSteps
  <2>2. mine[w].status \in {"retry_wait", "failed"}
    BY <1>8 DEF ReleaseFailure, WorkersInv
  <2>3. mine[w].status \in Active \cup Ended
    BY <2>2 DEF Active, Waiting, Ended
  <2>4. jobs' \in [JobIds -> JobRow]
    BY <1>8, <2>1, <2>3, HoldingFacts, ReleaseType DEF ReleaseFailure
  <2>5. WorkersInv'
    BY <1>8, LaneOverWorkers DEF ReleaseFailure
  <2> QED
    BY <2>1, <2>4, <2>5
<1> QED
  BY <1>1, <1>2, <1>3, <1>4, <1>5, <1>6, <1>7, <1>8 DEF WorkStep

\* Faults leave the tables alone, but for a release that loses its answer.
LEMMA FaultControl ==
    ASSUME ControlInv, NEW kind, Fault(kind), UNCHANGED <<schedules, enabling, lock, clock>>
    PROVE  ControlInv'
BY DEF ControlInv, Fault

LEMMA FaultTypes ==
    ASSUME TypeInv, NEW w \in Workers, FaultStep(w)
    PROVE  TypeInv'
<1> USE DEF TypeInv
<1>1. CASE Crash(w)
  <2>1. ControlInv' /\ HistoryInv' /\ jobs' = jobs
    BY <1>1, FaultControl DEF Crash, HistoryInv, history
  <2> QED
    BY <1>1, <2>1, EndWorkers DEF Crash
<1>2. CASE FailAndThrow(w)
  <2>1. ControlInv' /\ HistoryInv' /\ jobs' = jobs
    BY <1>2, FaultControl DEF FailAndThrow, HistoryInv, history
  <2> QED
    BY <1>2, <2>1, ThrowWorkers DEF FailAndThrow
<1>3. CASE FailUnnoticed(w)
  <2>1. ControlInv' /\ HistoryInv' /\ jobs' = jobs
    BY <1>3, FaultControl DEF FailUnnoticed, HistoryInv, history
  <2>2. CASE pc[w] \in DOMAIN NextAfterFailedWrite /\ Continue(w, NextAfterFailedWrite[pc[w]])
    <3>1. pc[w] \in {"write_success", "write_empty", "write_failure"}
      BY <2>2 DEF NextAfterFailedWrite
    <3>2. /\ NextAfterFailedWrite[pc[w]] \in HoldingSteps
          /\ NextAfterFailedWrite[pc[w]] = "release_failure" => pc[w] = "write_failure"
          /\ NextAfterFailedWrite[pc[w]] # "write_failure"
      BY <3>1 DEF NextAfterFailedWrite, HoldingSteps
    <3>3. pc[w] \in HoldingSteps
      BY <3>1 DEF HoldingSteps
    <3> QED
      BY <2>1, <2>2, <3>2, <3>3, HoldingContinue
  <2>3. CASE LaneOver(w)
    BY <2>1, <2>3, LaneOverWorkers
  <2>4. CASE pc[w] = "read_attempts" /\ DecideRetry(w, 1)
    BY <2>1, <2>4, DecideRetryWorkers DEF HoldingSteps
  <2> QED
    BY <1>3, <2>2, <2>3, <2>4 DEF FailUnnoticed
<1>4. CASE FailedRelease(w)
  <2>1. pc[w] \in HoldingSteps
    BY <1>4 DEF FailedRelease, HoldingSteps
  <2>2. ControlInv' /\ HistoryInv'
    BY <1>4, FaultControl DEF FailedRelease, HistoryInv, history
  <2>3. jobs' \in [JobIds -> JobRow]
    BY <1>4, <2>1, HoldingFacts, ReleaseType DEF FailedRelease, Ended
  <2>4. WorkersInv'
    BY <1>4, <2>1, StepSets, HoldingFacts DEF FailedRelease, Goto, WorkersInv, Memory, LaneSteps, JobSteps
  <2> QED
    BY <2>2, <2>3, <2>4
<1> QED
  BY <1>1, <1>2, <1>3, <1>4 DEF FaultStep

LEMMA ClockFacts ==
    ASSUME ControlInv
    PROVE  /\ clock \in Nat
           /\ clock <= MaxClock
           /\ clock < MaxClock => clock + 1 \in Nat /\ clock + 1 \in 1 .. MaxClock /\ clock + 1 <= MaxClock
<1>1. MaxClock \in Nat /\ clock \in 1 .. MaxClock
  BY JobsAssumption DEF ControlInv
<1> QED
  BY <1>1

LEMMA StartTypes ==
    ASSUME TypeInv, NEW w \in Workers,
           StartHeartbeat(w) \/ \E l \in OneShotLanes : StartOneShot(w, l)
    PROVE  TypeInv'
<1> USE DEF TypeInv
<1>1. CASE StartHeartbeat(w)
  <2> DEFINE memory == [NoMemory EXCEPT !.mode = "heartbeat", !.at = clock]
  <2>1. ControlInv' /\ HistoryInv' /\ jobs' = jobs
    BY <1>1 DEF StartHeartbeat, ControlInv, HistoryInv, history, control
  <2>2. memory \in Memory /\ memory.at <= MaxClock
    BY ClockFacts, EmptyRecords DEF Memory, NoMemory
  <2>3. WorkersInv'
    BY <1>1, <2>2, StepSets DEF StartHeartbeat, Goto, WorkersInv, LaneSteps, JobSteps
  <2> QED
    BY <2>1, <2>3
<1>2. CASE \E l \in OneShotLanes : StartOneShot(w, l)
  <2>1. PICK l \in OneShotLanes : StartOneShot(w, l)
    BY <1>2
  <2> DEFINE memory == [NoMemory EXCEPT !.mode = "one_shot", !.at = clock + 1, !.lane = l]
  <2>2. ControlInv' /\ HistoryInv' /\ jobs' = jobs
    BY <2>1, ClockFacts DEF StartOneShot, ControlInv, HistoryInv, history
  <2>3. memory \in Memory /\ memory.at <= MaxClock /\ memory.lane \in Lanes
    BY <2>1, ClockFacts, LanesAssumption DEF Memory, NoMemory, StartOneShot
  <2>4. WorkersInv'
    BY <2>1, <2>3, StepSets DEF StartOneShot, Goto, WorkersInv, LaneSteps, JobSteps
  <2> QED
    BY <2>2, <2>4
<1> QED
  BY <1>1, <1>2

LEMMA EnvironmentTypes ==
    ASSUME TypeInv, Environment
    PROVE  TypeInv'
<1> USE DEF TypeInv
<1>1. WorkersInv'
  BY DEF Environment, Tick, ExpireLock, RecoverLeases, OutliveLock, ExpireLease, OutliveLease,
       EnableCheck, EnableWrite, Disable, WorkersInv
<1>2. jobs' \in [JobIds -> JobRow]
  <2>1. CASE RecoverLeases
    BY <2>1, RecoverExpiredType DEF RecoverLeases
  <2>2. CASE \E j \in JobIds : ExpireLease(j) \/ OutliveLease(j)
    BY <2>2, LeaseRunsOutType DEF ExpireLease, OutliveLease
  <2>3. CASE \E l \in Lanes : Disable(l)
    BY <2>3, CancelLaneType DEF Disable
  <2>4. CASE UNCHANGED jobs
    BY <2>4
  <2> QED
    BY <2>1, <2>2, <2>3, <2>4 DEF Environment, Tick, ExpireLock, OutliveLock, EnableCheck, EnableWrite
<1>3. ControlInv'
  <2>1. CASE Tick
    BY <2>1, ClockFacts DEF Tick, ControlInv
  <2>2. CASE ExpireLock \/ OutliveLock
    BY <2>2 DEF ExpireLock, OutliveLock, Fault, ControlInv
  <2>3. CASE RecoverLeases \/ \E j \in JobIds : ExpireLease(j) \/ OutliveLease(j)
    BY <2>3 DEF RecoverLeases, ExpireLease, OutliveLease, Fault, ControlInv, control
  <2>4. CASE \E l \in Lanes : EnableCheck(l) \/ EnableWrite(l) \/ Disable(l)
    <3>1. CASE \E l \in Lanes : EnableWrite(l)
      <4>1. PICK l \in Lanes : EnableWrite(l)
        BY <3>1
      <4>2. clock' \in 1 .. MaxClock /\ [enabled |-> TRUE, next |-> clock + 1] \in [enabled : BOOLEAN, next : Nat]
        BY <4>1, ClockFacts DEF EnableWrite
      <4>3. schedules' \in [Lanes -> [enabled : BOOLEAN, next : Nat]]
        BY <4>1, <4>2 DEF EnableWrite, ControlInv
      <4>4. enabling' \subseteq Lanes /\ lock' = lock /\ faults' = faults
        BY <4>1 DEF EnableWrite, ControlInv
      <4> QED
        BY <4>2, <4>3, <4>4 DEF ControlInv
    <3>2. CASE \E l \in Lanes : EnableCheck(l) \/ Disable(l)
      <4>1. PICK l \in Lanes : EnableCheck(l) \/ Disable(l)
        BY <3>2
      <4>2. schedules' \in [Lanes -> [enabled : BOOLEAN, next : Nat]] /\ enabling' \subseteq Lanes
        <5>1. CASE EnableCheck(l)
          BY <5>1 DEF EnableCheck, ControlInv
        <5>2. CASE Disable(l)
          <6>1. schedules' = [schedules EXCEPT ![l] = [enabled |-> FALSE, next |-> 0]] /\ enabling' = enabling
            BY <5>2 DEF Disable
          <6>2. [enabled |-> FALSE, next |-> 0] \in [enabled : BOOLEAN, next : Nat]
            OBVIOUS
          <6> QED
            BY <6>1, <6>2 DEF ControlInv
        <5> QED
          BY <4>1, <5>1, <5>2
      <4>3. lock' = lock /\ clock' = clock /\ faults' = faults
        BY <4>1 DEF EnableCheck, Disable
      <4> QED
        BY <4>2, <4>3 DEF ControlInv
    <3> QED
      BY <2>4, <3>1, <3>2
  <2> QED
    BY <2>1, <2>2, <2>3, <2>4 DEF Environment
<1>4. HistoryInv'
  <2>1. CASE \E l \in Lanes : EnableWrite(l)
    BY <2>1 DEF EnableWrite, HistoryInv, ControlInv
  <2>2. CASE OutliveLock \/ \E j \in JobIds : OutliveLease(j)
    BY <2>2 DEF OutliveLock, OutliveLease, HistoryInv
  <2>3. CASE UNCHANGED history
    BY <2>3 DEF HistoryInv, history
  <2> QED
    BY <2>1, <2>2, <2>3 DEF Environment, Tick, ExpireLock, RecoverLeases, ExpireLease, EnableCheck, Disable
<1> QED
  BY <1>1, <1>2, <1>3, <1>4

LEMMA TypeStep == TypeInv /\ [Next]_vars => TypeInv'
<1> SUFFICES ASSUME TypeInv, [Next]_vars PROVE TypeInv'
  OBVIOUS
<1>1. CASE UNCHANGED vars
  BY <1>1 DEF TypeInv, ControlInv, WorkersInv, HistoryInv, vars, control, history
<1>2. CASE Environment
  BY <1>2, EnvironmentTypes
<1>3. CASE \E w \in Workers : Step(w) \/ FaultStep(w)
  BY <1>3, LockTypes, PlanTypes, LeaseTypes, WorkTypes, FaultTypes DEF Step
<1>4. CASE \/ \E w \in Heartbeats : StartHeartbeat(w)
           \/ \E w \in Callers : \E l \in OneShotLanes : StartOneShot(w, l)
  BY <1>4, StartTypes, LanesAssumption
<1> QED
  BY <1>1, <1>2, <1>3, <1>4 DEF Next

LEMMA TypesHold == Spec => []TypeInv
<1>1. Init => TypeInv
  BY TypeInit
<1>2. TypeInv /\ [Next]_vars => TypeInv'
  BY TypeStep
<1> QED
  BY <1>1, <1>2, PTL DEF Spec

\* Type correctness of the collection tables and of the workers, for any
\* number of either: each statement writes what its column allows.
THEOREM TypeCorrect == Spec => []TypeOK
<1>1. TypeInv => TypeOK
  BY JobsAssumption DEF TypeInv, TypeOK, ControlInv, WorkersInv, HistoryInv
<1> QED
  BY <1>1, TypesHold, PTL

-------------------------------------------------------------------------------
\* The exclusion of heartbeats.

\* A heartbeat that has come past the acquisition of the lock.
Inside(w) == mine[w].mode = "heartbeat" /\ pc[w] \notin {"idle", "acquire_lock"}

\* Whoever is inside has the lock, until a lock is outlived.
LockInv ==
    "lock" \notin overlap =>
        \A w \in Workers : Inside(w) => lock = [token |-> w, state |-> "live"]

\* A step of w that leaves every other worker alone and brings w nowhere inside.
Moves(w) ==
    /\ \A v \in Workers \ {w} : pc'[v] = pc[v] /\ mine'[v] = mine[v]
    /\ Inside(w)' => Inside(w)

LEMMA ContinueMoves ==
    ASSUME WorkersInv, NEW w \in Workers, NEW step, pc[w] \notin {"idle", "acquire_lock"},
           Continue(w, step)
    PROVE  Moves(w)
BY DEF WorkersInv, Continue, Goto, Moves, Inside

LEMMA EndMoves ==
    ASSUME WorkersInv, NEW w \in Workers, End(w)
    PROVE  Moves(w)
BY DEF WorkersInv, End, Goto, Moves, Inside, NoMemory

LEMMA LaneOverMoves ==
    ASSUME WorkersInv, NEW w \in Workers, pc[w] \notin {"idle", "acquire_lock"},
           LaneOver(w) \/ Throw(w)
    PROVE  Moves(w)
<1>1. CASE Throw(w)
  BY <1>1, ContinueMoves, EndMoves DEF Throw
<1>2. ASSUME NEW l, EnterLane(w, l) PROVE Moves(w)
  BY <1>2 DEF EnterLane, WorkersInv, Goto, Moves, Inside, NoMemory
<1> QED
  BY <1>1, <1>2 DEF LaneOver

LEMMA DecideRetryMoves ==
    ASSUME WorkersInv, NEW w \in Workers, pc[w] \notin {"idle", "acquire_lock"}, NEW attempts,
           DecideRetry(w, attempts)
    PROVE  Moves(w)
<1>1. /\ \A v \in Workers \ {w} : pc'[v] = pc[v] /\ mine'[v] = mine[v]
      /\ mine'[w].mode = mine[w].mode
  BY DEF WorkersInv, Memory, DecideRetry, Goto
<1> QED
  BY <1>1 DEF Moves, Inside

\* In its lanes, a worker moves without a look at the lock.
LEMMA WorkerMoves ==
    ASSUME TypeInv, NEW w \in Workers,
           PlanStep(w) \/ LeaseStep(w) \/ WorkStep(w) \/ FaultStep(w)
    PROVE  /\ Moves(w)
           /\ lock' = lock
           /\ overlap \subseteq overlap'
<1> USE ContinueMoves, EndMoves, LaneOverMoves, DecideRetryMoves DEF TypeInv
<1>1. CASE PlanStep(w)
  <2>1. CASE Guard(w)
    BY <2>1 DEF Guard, control, history
  <2>2. CASE ReadSchedule(w)
    <3>1. CASE LaneOver(w)
      BY <2>2, <3>1 DEF ReadSchedule, control, history
    <3>2. CASE ~LaneOver(w)
      BY <2>2, <3>2 DEF ReadSchedule, control, history, Goto, Moves, Inside, WorkersInv, Memory
    <3> QED
      BY <3>1, <3>2
  <2>3. CASE ReadJobs(w)
    <3>1. CASE Continue(w, "count_leases")
      BY <2>3, <3>1 DEF ReadJobs, control, history
    <3>2. CASE ~Continue(w, "count_leases")
      BY <2>3, <3>2 DEF ReadJobs, control, history, Goto, Moves, Inside, WorkersInv, Memory
    <3> QED
      BY <3>1, <3>2
  <2>4. CASE InsertPlanned(w)
    BY <2>4 DEF InsertPlanned, control, history, Goto, Moves, Inside, WorkersInv, Memory
  <2> QED
    BY <1>1, <2>1, <2>2, <2>3, <2>4 DEF PlanStep
<1>2. CASE LeaseStep(w)
  <2>1. CASE CountLeases(w)
    BY <2>1 DEF CountLeases, control, history
  <2>2. CASE PickJob(w)
    <3>1. CASE LaneOver(w)
      BY <2>2, <3>1 DEF PickJob, control, history
    <3>2. CASE ~LaneOver(w)
      BY <2>2, <3>2 DEF PickJob, control, history, Goto, Moves, Inside, WorkersInv, Memory
    <3> QED
      BY <3>1, <3>2
  <2>3. CASE CommitLease(w)
    BY <2>3 DEF CommitLease, control
  <2>4. CASE ReleaseForeign(w)
    BY <2>4 DEF ReleaseForeign, control, history
  <2> QED
    BY <1>2, <2>1, <2>2, <2>3, <2>4 DEF LeaseStep
<1>3. CASE WorkStep(w)
  <2>1. CASE Collect(w)
    <3>1. CASE Continue(w, "write_success") \/ Continue(w, "write_empty")
      BY <2>1, <3>1 DEF Collect, control
    <3>2. CASE ~(Continue(w, "write_success") \/ Continue(w, "write_empty"))
      BY <2>1, <3>2 DEF Collect, control, Goto, Moves, Inside, WorkersInv, Memory
    <3> QED
      BY <3>1, <3>2
  <2>2. CASE MarkRunning(w) \/ WriteSuccess(w) \/ ReleaseSuccess(w) \/ Advance(w)
    BY <2>2 DEF MarkRunning, WriteSuccess, ReleaseSuccess, Advance, control, history
  <2>3. CASE ReadAttempts(w) \/ WriteFailure(w) \/ ReleaseFailure(w)
    BY <2>3 DEF ReadAttempts, WriteFailure, ReleaseFailure, control, history
  <2> QED
    BY <1>3, <2>1, <2>2, <2>3 DEF WorkStep
<1>4. CASE FaultStep(w)
  <2>1. CASE Crash(w)
    BY <2>1 DEF Crash, history
  <2>2. CASE FailAndThrow(w)
    <3>1. pc[w] \notin {"idle", "acquire_lock"}
      BY <2>2 DEF FailAndThrow, ThrowingSteps
    <3> QED
      BY <2>2, <3>1 DEF FailAndThrow, history
  <2>3. CASE FailUnnoticed(w)
    <3>1. pc[w] \notin {"idle", "acquire_lock"}
      BY <2>3 DEF FailUnnoticed, NextAfterFailedWrite
    <3> QED
      BY <2>3, <3>1 DEF FailUnnoticed, history
  <2>4. CASE FailedRelease(w)
    BY <2>4 DEF FailedRelease, history, Goto, Moves, Inside, WorkersInv, Memory
  <2> QED
    BY <1>4, <2>1, <2>2, <2>3, <2>4 DEF FaultStep
<1> QED
  BY <1>1, <1>2, <1>3, <1>4

LEMMA LockInvStep == TypeInv /\ LockInv /\ [Next]_vars => LockInv'
<1> SUFFICES ASSUME TypeInv, LockInv, [Next]_vars, "lock" \notin overlap'
             PROVE  \A w \in Workers : Inside(w)' => lock' = [token |-> w, state |-> "live"]
  BY DEF LockInv
<1>1. ASSUME NEW w \in Workers, PlanStep(w) \/ LeaseStep(w) \/ WorkStep(w) \/ FaultStep(w)
      PROVE  \A v \in Workers : Inside(v)' => lock' = [token |-> v, state |-> "live"]
  <2>1. Moves(w) /\ lock' = lock /\ overlap \subseteq overlap'
    BY <1>1, WorkerMoves
  <2> QED
    BY <2>1 DEF LockInv, Moves, Inside
<1>2. ASSUME NEW w \in Workers, LockStep(w)
      PROVE  \A v \in Workers : Inside(v)' => lock' = [token |-> v, state |-> "live"]
  <2>1. overlap' = overlap
    BY <1>2 DEF LockStep, AcquireLock, RenewLock, ReleaseLock, history
  <2>2. CASE AcquireLock(w)
    <3>1. CASE lock.state # "live"
      <4>1. \A v \in Workers : ~Inside(v)
        BY <2>1, <3>1 DEF LockInv
      <4>2. lock' = [token |-> w, state |-> "live"] /\ \A v \in Workers \ {w} : Inside(v)' <=> Inside(v)
        BY <2>2, <3>1 DEF AcquireLock, Continue, Goto, Inside, TypeInv, WorkersInv
      <4> QED
        BY <4>1, <4>2
    <3>2. CASE lock.state = "live"
      <4>1. lock' = lock /\ Moves(w)
        BY <2>2, <3>2, EndMoves DEF AcquireLock, TypeInv
      <4> QED
        BY <2>1, <4>1 DEF LockInv, Moves, Inside
    <3> QED
      BY <3>1, <3>2
  <2>3. CASE RenewLock(w)
    <3>1. lock' = lock
      BY <2>3 DEF RenewLock, control
    <3>2. CASE Continue(w, "release_lock")
      <4>1. Moves(w)
        BY <2>3, <3>2, ContinueMoves DEF RenewLock, TypeInv
      <4> QED
        BY <2>1, <3>1, <4>1 DEF LockInv, Moves, Inside
    <3>3. CASE lock = [token |-> w, state |-> "live"] /\ EnterLane(w, LaneOrder[1])
      <4>1. \A v \in Workers \ {w} : Inside(v)' <=> Inside(v)
        BY <3>3 DEF EnterLane, Goto, Inside, TypeInv, WorkersInv
      <4> QED
        BY <2>1, <3>1, <3>3, <4>1 DEF LockInv
    <3> QED
      BY <2>3, <3>2, <3>3 DEF RenewLock
  <2>4. CASE ReleaseLock(w)
    <3>1. ~Inside(w)' /\ \A v \in Workers \ {w} : Inside(v)' <=> Inside(v)
      BY <2>4 DEF ReleaseLock, End, Goto, Inside, TypeInv, WorkersInv
    <3>2. \A v \in Workers \ {w} : Inside(v) => lock' = lock
      BY <2>1, <2>4 DEF ReleaseLock, LockInv
    <3> QED
      BY <2>1, <3>1, <3>2 DEF LockInv
  <2> QED
    BY <1>2, <2>2, <2>3, <2>4 DEF LockStep
<1>3. CASE \E w \in Workers : StartHeartbeat(w) \/ \E l \in OneShotLanes : StartOneShot(w, l)
  <2>1. PICK w \in Workers : StartHeartbeat(w) \/ \E l \in OneShotLanes : StartOneShot(w, l)
    BY <1>3
  <2>2. lock' = lock /\ overlap' = overlap
    BY <2>1 DEF StartHeartbeat, StartOneShot, control, history
  <2>3. Moves(w)
    <3>1. CASE StartHeartbeat(w)
      BY <3>1 DEF StartHeartbeat, Goto, Moves, Inside, TypeInv, WorkersInv
    <3>2. CASE \E l \in OneShotLanes : StartOneShot(w, l)
      BY <3>2 DEF StartOneShot, Goto, Moves, Inside, TypeInv, WorkersInv, NoMemory
    <3> QED
      BY <2>1, <3>1, <3>2
  <2> QED
    BY <2>2, <2>3 DEF LockInv, Moves, Inside
<1>4. CASE Environment
  <2>1. \A v \in Workers : Inside(v)' <=> Inside(v)
    BY <1>4 DEF Environment, Tick, ExpireLock, RecoverLeases, OutliveLock, ExpireLease, OutliveLease,
         EnableCheck, EnableWrite, Disable, Inside
  <2>2. overlap \subseteq overlap'
    BY <1>4 DEF Environment, Tick, ExpireLock, RecoverLeases, OutliveLock, ExpireLease, OutliveLease,
         EnableCheck, EnableWrite, Disable, control, history
  <2>3. CASE ExpireLock
    <3>1. \A v \in Workers : ~Inside(v)
      BY <2>2, <2>3 DEF ExpireLock, HasLock, LockInv, Inside
    <3> QED
      BY <2>1, <3>1
  <2>4. CASE ~ExpireLock
    <3>1. ~OutliveLock
      BY DEF OutliveLock
    <3>2. lock' = lock
      BY <1>4, <2>4, <3>1 DEF Environment, Tick, RecoverLeases, ExpireLease, OutliveLease,
           EnableCheck, EnableWrite, Disable, control, history
    <3> QED
      BY <2>1, <2>2, <3>2 DEF LockInv
  <2> QED
    BY <2>3, <2>4
<1>5. CASE UNCHANGED vars
  BY <1>5 DEF LockInv, Inside, vars, control, history
<1> QED
  BY <1>1, <1>2, <1>3, <1>4, <1>5, LanesAssumption DEF Next, Step

\* Two heartbeats are never in their lanes together unless a lock ran out under
\* its holder, which the lanes, that do not renew it, do not notice.
THEOREM HeartbeatExclusion == Spec => []HeartbeatsExclude
<1>1. Init => LockInv
  BY DEF Init, LockInv, Inside
<1>2. LockInv => HeartbeatsExclude
  BY DEF LockInv, HeartbeatsExclude, InLanes, Inside
<1> QED
  BY <1>1, <1>2, TypesHold, LockInvStep, PTL DEF Spec

-------------------------------------------------------------------------------
\* The owner column.

\* Every step of a worker but the two of the leasing function that lock a row
\* keeps a job it holds, or lets it go, and leaves the other workers alone.
Keeps(w) ==
    /\ \A v \in Workers \ {w} : pc'[v] = pc[v] /\ mine'[v] = mine[v]
    /\ pc'[w] # "commit_lease"
    /\ pc'[w] \in HoldingSteps =>
          /\ pc[w] \in HoldingSteps
          /\ mine'[w].job = mine[w].job
          /\ mine'[w].lane = mine[w].lane

FailureSteps == {"write_failure", "release_failure"}

\* What such a step may write into the row of the job.
Writes(w, row) ==
    LET old == jobs[mine[w].job] IN
    \/ /\ pc[w] \notin FailureSteps
       /\ \E status \in {"running", "succeeded"} : row = [old EXCEPT !.status = status]
    \/ /\ pc[w] = "write_failure"
       /\ row = [old EXCEPT !.status = mine[w].status, !.attempts = mine[w].attempts]
    \/ /\ pc[w] \notin FailureSteps
       /\ \E status \in {"blocked", "succeeded"} : row = Unleased(old, status)
    \/ /\ pc[w] = "release_failure"
       /\ row = Unleased(old, mine[w].status)

\* It writes the row of a job that nobody is leasing and that has its owner.
Touches(w) ==
    \/ jobs' = jobs
    \/ pc[w] = "insert_job" /\ InsertJob(mine[w].job, mine[w].at)
    \/ /\ pc[w] \in HoldingSteps
       /\ ~RowLocked(mine[w].job)
       /\ jobs[mine[w].job].owner = Owner(w)
       /\ \E row : Writes(w, row) /\ jobs' = [jobs EXCEPT ![mine[w].job] = row]

LEMMA ContinueKeeps ==
    ASSUME WorkersInv, NEW w \in Workers, NEW step,
           step # "commit_lease", step \in HoldingSteps => pc[w] \in HoldingSteps,
           Continue(w, step)
    PROVE  Keeps(w)
BY DEF WorkersInv, Continue, Goto, Keeps

LEMMA EndKeeps ==
    ASSUME WorkersInv, NEW w \in Workers, End(w)
    PROVE  Keeps(w)
BY DEF WorkersInv, End, Goto, Keeps, HoldingSteps

LEMMA LaneOverKeeps ==
    ASSUME WorkersInv, NEW w \in Workers, LaneOver(w) \/ Throw(w)
    PROVE  Keeps(w)
<1>1. CASE Throw(w)
  <2>1. "release_lock" \notin HoldingSteps
    BY DEF HoldingSteps
  <2> QED
    BY <1>1, <2>1, ContinueKeeps, EndKeeps DEF Throw
<1>2. ASSUME NEW l, EnterLane(w, l) PROVE Keeps(w)
  BY <1>2 DEF EnterLane, WorkersInv, Goto, Keeps, HoldingSteps
<1> QED
  BY <1>1, <1>2 DEF LaneOver

LEMMA DecideRetryKeeps ==
    ASSUME WorkersInv, NEW w \in Workers, pc[w] \in HoldingSteps, NEW attempts,
           DecideRetry(w, attempts)
    PROVE  /\ Keeps(w)
           /\ pc'[w] = "write_failure"
           /\ mine'[w].attempts = attempts
           /\ mine'[w].status = NextStatusAfterFailure(mine[w].status, attempts)
BY DEF WorkersInv, Memory, DecideRetry, Goto, Keeps

LEMMA LockKeeps ==
    ASSUME TypeInv, NEW w \in Workers, LockStep(w)
    PROVE  Keeps(w) /\ jobs' = jobs
<1>1. \A l : EnterLane(w, l) => Keeps(w)
  BY DEF EnterLane, TypeInv, WorkersInv, Goto, Keeps, HoldingSteps
<1>2. {"renew_lock", "release_lock"} \cap HoldingSteps = {}
  BY DEF HoldingSteps
<1> QED
  BY <1>1, <1>2, ContinueKeeps, EndKeeps
  DEF LockStep, AcquireLock, RenewLock, ReleaseLock, TypeInv, history, control

LEMMA StartKeeps ==
    ASSUME TypeInv, NEW w \in Workers,
           StartHeartbeat(w) \/ \E l \in OneShotLanes : StartOneShot(w, l)
    PROVE  Keeps(w) /\ jobs' = jobs
BY DEF StartHeartbeat, StartOneShot, Goto, Keeps, HoldingSteps, TypeInv, WorkersInv, history, control

LEMMA PlanKeeps ==
    ASSUME TypeInv, NEW w \in Workers, PlanStep(w)
    PROVE  Keeps(w) /\ Touches(w)
<1> USE ContinueKeeps, LaneOverKeeps DEF TypeInv
<1>1. CASE Guard(w)
  BY <1>1 DEF Guard, Touches, HoldingSteps
<1>2. CASE ReadSchedule(w)
  <2>1. jobs' = jobs
    BY <1>2 DEF ReadSchedule
  <2>2. CASE LaneOver(w)
    BY <2>1, <2>2 DEF Touches
  <2>3. CASE ~LaneOver(w)
    BY <1>2, <2>1, <2>3 DEF ReadSchedule, Goto, Keeps, Touches, HoldingSteps, WorkersInv
  <2> QED
    BY <2>2, <2>3
<1>3. CASE ReadJobs(w)
  <2>1. jobs' = jobs
    BY <1>3 DEF ReadJobs
  <2>2. CASE Continue(w, "count_leases")
    BY <2>1, <2>2 DEF Touches, HoldingSteps
  <2>3. CASE ~Continue(w, "count_leases")
    BY <1>3, <2>1, <2>3 DEF ReadJobs, Goto, Keeps, Touches, HoldingSteps, WorkersInv
  <2> QED
    BY <2>2, <2>3
<1>4. CASE InsertPlanned(w)
  BY <1>4 DEF InsertPlanned, Goto, Keeps, Touches, HoldingSteps, WorkersInv
<1> QED
  BY <1>1, <1>2, <1>3, <1>4 DEF PlanStep

\* A fenced UPDATE touches the row or nothing.
LEMMA UpdateTouches ==
    ASSUME NEW w \in Workers, pc[w] \in HoldingSteps, ~RowLocked(mine[w].job),
           NEW row, Writes(w, row), UpdateOwned(mine[w].job, Owner(w), row)
    PROVE  Touches(w)
BY DEF UpdateOwned, Touches

LEMMA WorkKeeps ==
    ASSUME TypeInv, NEW w \in Workers, WorkStep(w) \/ ReleaseForeign(w)
    PROVE  Keeps(w) /\ Touches(w)
<1> DEFINE j == mine[w].job
<1> USE ContinueKeeps, LaneOverKeeps, DecideRetryKeeps DEF TypeInv
<1>1. CASE MarkRunning(w)
  <2>1. pc[w] \in HoldingSteps /\ ~RowLocked(j) /\ Writes(w, [jobs[j] EXCEPT !.status = "running"])
    BY <1>1 DEF MarkRunning, HoldingSteps, Writes, FailureSteps
  <2>2. Touches(w)
    BY <1>1, <2>1, UpdateTouches DEF MarkRunning, WriteStatus
  <2> QED
    BY <1>1, <2>1, <2>2 DEF MarkRunning
<1>2. CASE Collect(w)
  <2>1. jobs' = jobs /\ pc[w] \in HoldingSteps
    BY <1>2 DEF Collect, HoldingSteps
  <2>2. CASE Continue(w, "write_success") \/ Continue(w, "write_empty")
    BY <2>1, <2>2 DEF Touches
  <2>3. CASE ~(Continue(w, "write_success") \/ Continue(w, "write_empty"))
    <3>1. PICK outcome : mine' = [mine EXCEPT ![w].status = outcome] /\ Goto(w, "read_attempts")
      BY <1>2, <2>3 DEF Collect
    <3>2. Keeps(w)
      BY <2>1, <3>1 DEF Goto, Keeps, WorkersInv, Memory
    <3> QED
      BY <2>1, <3>2 DEF Touches
  <2> QED
    BY <2>2, <2>3
<1>3. CASE WriteSuccess(w)
  <2>1. pc[w] \in HoldingSteps /\ ~RowLocked(j) /\ Writes(w, [jobs[j] EXCEPT !.status = "succeeded"])
    BY <1>3 DEF WriteSuccess, HoldingSteps, Writes, FailureSteps
  <2>2. Touches(w)
    BY <1>3, <2>1, UpdateTouches DEF WriteSuccess, WriteStatus
  <2> QED
    BY <1>3, <2>1, <2>2 DEF WriteSuccess
<1>4. CASE ReleaseSuccess(w)
  <2>1. pc[w] \in HoldingSteps /\ ~RowLocked(j) /\ Writes(w, Unleased(jobs[j], "succeeded"))
    BY <1>4 DEF ReleaseSuccess, HoldingSteps, Writes, FailureSteps
  <2>2. Touches(w)
    BY <1>4, <2>1, UpdateTouches DEF ReleaseSuccess, Release
  <2> QED
    BY <1>4, <2>1, <2>2 DEF ReleaseSuccess
<1>5. CASE Advance(w)
  BY <1>5 DEF Advance, Touches
<1>6. CASE ReadAttempts(w)
  BY <1>6 DEF ReadAttempts, Touches, HoldingSteps
<1>7. CASE WriteFailure(w)
  <2>1. /\ pc[w] \in HoldingSteps
        /\ ~RowLocked(j)
        /\ Writes(w, [jobs[j] EXCEPT !.status = mine[w].status, !.attempts = mine[w].attempts])
    BY <1>7 DEF WriteFailure, HoldingSteps, Writes
  <2>2. Touches(w)
    BY <1>7, <2>1, UpdateTouches DEF WriteFailure, WriteFailedAttempt
  <2> QED
    BY <1>7, <2>1, <2>2 DEF WriteFailure
<1>8. CASE ReleaseFailure(w)
  <2>1. pc[w] \in HoldingSteps /\ ~RowLocked(j) /\ Writes(w, Unleased(jobs[j], mine[w].status))
    BY <1>8 DEF ReleaseFailure, HoldingSteps, Writes
  <2>2. Touches(w)
    BY <1>8, <2>1, UpdateTouches DEF ReleaseFailure, Release
  <2> QED
    BY <1>8, <2>1, <2>2 DEF ReleaseFailure
<1>9. CASE ReleaseForeign(w)
  <2>1. pc[w] \in HoldingSteps /\ ~RowLocked(j) /\ Writes(w, Unleased(jobs[j], "blocked"))
    BY <1>9 DEF ReleaseForeign, HoldingSteps, Writes, FailureSteps
  <2>2. Touches(w)
    BY <1>9, <2>1, UpdateTouches DEF ReleaseForeign, Release
  <2> QED
    BY <1>9, <2>1, <2>2 DEF ReleaseForeign
<1> QED
  BY <1>1, <1>2, <1>3, <1>4, <1>5, <1>6, <1>7, <1>8, <1>9 DEF WorkStep

LEMMA FaultKeeps ==
    ASSUME TypeInv, NEW w \in Workers, FaultStep(w)
    PROVE  Keeps(w) /\ Touches(w)
<1> USE ContinueKeeps, EndKeeps, LaneOverKeeps, DecideRetryKeeps DEF TypeInv
<1>1. CASE Crash(w)
  BY <1>1 DEF Crash, Touches
<1>2. CASE FailAndThrow(w)
  BY <1>2 DEF FailAndThrow, Touches
<1>3. CASE FailUnnoticed(w)
  <2>1. jobs' = jobs /\ pc[w] \in HoldingSteps
    BY <1>3 DEF FailUnnoticed, NextAfterFailedWrite, HoldingSteps
  <2>2. \A step \in {"write_success", "write_empty", "write_failure"} :
          NextAfterFailedWrite[step] # "commit_lease"
    BY DEF NextAfterFailedWrite
  <2>3. DOMAIN NextAfterFailedWrite = {"write_success", "write_empty", "write_failure"}
    BY DEF NextAfterFailedWrite
  <2> QED
    BY <1>3, <2>1, <2>2, <2>3 DEF FailUnnoticed, Touches
<1>4. CASE FailedRelease(w)
  <2>1. pc[w] \in HoldingSteps /\ ~RowLocked(mine[w].job) /\ Writes(w, Unleased(jobs[mine[w].job], "succeeded"))
    BY <1>4 DEF FailedRelease, HoldingSteps, Writes, FailureSteps
  <2>2. Touches(w)
    <3>1. CASE UNCHANGED jobs
      BY <3>1 DEF Touches
    <3>2. CASE Release(mine[w].job, Owner(w), "succeeded")
      BY <2>1, <3>2, UpdateTouches DEF Release
    <3> QED
      BY <1>4, <3>1, <3>2 DEF FailedRelease
  <2>3. Keeps(w)
    BY <1>4, <2>1 DEF FailedRelease, Goto, Keeps, WorkersInv, Memory
  <2> QED
    BY <2>2, <2>3
<1> QED
  BY <1>1, <1>2, <1>3, <1>4 DEF FaultStep

\* So every step of a worker is one of these, or picks a job, or leases it.
LEMMA WorkerSteps ==
    ASSUME TypeInv, NEW w \in Workers,
           Step(w) \/ FaultStep(w) \/ StartHeartbeat(w) \/ \E l \in OneShotLanes : StartOneShot(w, l)
    PROVE  \/ Keeps(w) /\ Touches(w)
           \/ PickJob(w) /\ Goto(w, "commit_lease") /\ jobs' = jobs
           \/ CommitLease(w)
<1>1. CASE LockStep(w) \/ StartHeartbeat(w) \/ \E l \in OneShotLanes : StartOneShot(w, l)
  BY <1>1, LockKeeps, StartKeeps DEF Touches
<1>2. CASE PlanStep(w) \/ WorkStep(w) \/ FaultStep(w) \/ ReleaseForeign(w)
  BY <1>2, PlanKeeps, WorkKeeps, FaultKeeps
<1>3. CASE CountLeases(w)
  BY <1>3, LaneOverKeeps, ContinueKeeps DEF CountLeases, Touches, HoldingSteps, TypeInv
<1>4. CASE PickJob(w)
  BY <1>4, LaneOverKeeps DEF PickJob, Touches, TypeInv
<1>5. CASE CommitLease(w)
  BY <1>5
<1> QED
  BY <1>1, <1>2, <1>3, <1>4, <1>5 DEF Step, LeaseStep

\* A row locked by a leasing function waits, is locked by nobody else, and a
\* lease has an owner.
RowInv ==
    /\ \A j \in JobIds : jobs[j].lease # "none" => jobs[j].owner # Nobody
    /\ \A w \in Workers : pc[w] = "commit_lease" => jobs[mine[w].job].status \in Waiting
    /\ \A v, w \in Workers :
          pc[v] = "commit_lease" /\ pc[w] = "commit_lease" /\ mine[v].job = mine[w].job => v = w

\* Whoever passes the fence is the one the job was leased to.
OwnerInv ==
    "owner" \notin overlap =>
        \A w \in Workers, j \in JobIds : Holds(w, j) /\ jobs[j].owner = Owner(w) => jobs[j].grantee = w

LEMMA StatusSets ==
    /\ Waiting \cap Leased = {}
    /\ Active \cap Ended = {}
    /\ Waiting \subseteq Active
    /\ "absent" \notin Active \cup Ended
    /\ "absent" \notin Waiting
BY DEF Waiting, Leased, Active, Ended

\* What the fenced UPDATEs leave of the lease columns.
LEMMA WritesLease ==
    ASSUME NEW w \in Workers, jobs[mine[w].job] \in JobRow, NEW row, Writes(w, row)
    PROVE  \/ row.owner = Nobody /\ row.lease = "none"
           \/ /\ row.owner = jobs[mine[w].job].owner
              /\ row.lease = jobs[mine[w].job].lease
              /\ row.grantee = jobs[mine[w].job].grantee
BY DEF Writes, Unleased, JobRow

\* A row after a step of a worker that keeps its job: the same, or that of an
\* inserted job, or written under the fence.
LEMMA TouchedRow ==
    ASSUME TypeInv, NEW w \in Workers, Touches(w), NEW j \in JobIds
    PROVE  \/ jobs'[j] = jobs[j]
           \/ /\ jobs[j].status = "absent"
              /\ jobs'[j].owner = Nobody
              /\ jobs'[j].lease = "none"
              /\ jobs'[j].attempts = 0
           \/ /\ Holds(w, j)
              /\ ~RowLocked(j)
              /\ jobs[j].owner = Owner(w)
              /\ Writes(w, jobs'[j])
<1>1. CASE jobs' = jobs
  BY <1>1
<1>2. CASE pc[w] = "insert_job" /\ InsertJob(mine[w].job, mine[w].at)
  BY <1>2 DEF InsertJob, NoJobRow, TypeInv
<1>3. CASE /\ pc[w] \in HoldingSteps
           /\ ~RowLocked(mine[w].job)
           /\ jobs[mine[w].job].owner = Owner(w)
           /\ \E row : Writes(w, row) /\ jobs' = [jobs EXCEPT ![mine[w].job] = row]
  <2>1. PICK row : Writes(w, row) /\ jobs' = [jobs EXCEPT ![mine[w].job] = row]
    BY <1>3
  <2>2. CASE j = mine[w].job
    <3>1. jobs'[j] = row
      BY <2>1, <2>2 DEF TypeInv
    <3> QED
      BY <1>3, <2>1, <2>2, <3>1 DEF Holds
  <2>3. CASE j # mine[w].job
    BY <2>1, <2>3 DEF TypeInv
  <2> QED
    BY <2>2, <2>3
<1> QED
  BY <1>1, <1>2, <1>3 DEF Touches

\* Nobody comes to pass the fence in such a step.
LEMMA KeepsFence ==
    ASSUME TypeInv, NEW w \in Workers, Keeps(w), Touches(w),
           NEW v \in Workers, NEW j \in JobIds, Holds(v, j)', jobs'[j].owner = Owner(v)'
    PROVE  /\ Holds(v, j)
           /\ Owner(v)' = Owner(v)
           /\ jobs[j].owner = Owner(v)
           /\ jobs'[j].grantee = jobs[j].grantee
<1>1. Holds(v, j) /\ Owner(v)' = Owner(v)
  BY DEF Keeps, Holds, Owner
<1>2. Owner(v) # Nobody
  BY <1>1, OwnerIsOwner, JobsAssumption, HoldingFacts DEF Holds, TypeInv
<1>3. CASE jobs'[j] = jobs[j]
  BY <1>1, <1>3
<1>4. CASE jobs'[j].owner = Nobody
  BY <1>1, <1>2, <1>4
<1>5. CASE Holds(w, j) /\ Writes(w, jobs'[j])
  <2>1. \/ jobs'[j].owner = Nobody
        \/ jobs'[j].owner = jobs[j].owner /\ jobs'[j].grantee = jobs[j].grantee
    BY <1>5, WritesLease DEF Holds, TypeInv
  <2> QED
    BY <1>1, <1>2, <2>1
<1> QED
  BY <1>3, <1>4, <1>5, TouchedRow

LEMMA RowInvStep == TypeInv /\ RowInv /\ [Next]_vars => RowInv'
<1> SUFFICES ASSUME TypeInv, RowInv, [Next]_vars PROVE RowInv'
  OBVIOUS
<1>1. ASSUME NEW w \in Workers, Keeps(w), Touches(w) PROVE RowInv'
  <2>1. \A j \in JobIds : jobs'[j].lease # "none" => jobs'[j].owner # Nobody
    <3>1. ASSUME NEW j \in JobIds PROVE jobs'[j].lease # "none" => jobs'[j].owner # Nobody
      <4>1. CASE Holds(w, j) /\ Writes(w, jobs'[j])
        BY <4>1, WritesLease DEF Holds, TypeInv, RowInv
      <4> QED
        BY <1>1, <4>1, TouchedRow DEF RowInv
    <3> QED
      BY <3>1
  <2>2. \A v \in Workers : pc'[v] = "commit_lease" => v # w /\ pc[v] = "commit_lease" /\ mine'[v] = mine[v]
    BY <1>1 DEF Keeps
  <2>3. \A v \in Workers : pc'[v] = "commit_lease" => jobs'[mine'[v].job] = jobs[mine[v].job]
    <3>1. ASSUME NEW v \in Workers, pc[v] = "commit_lease" PROVE jobs'[mine[v].job] = jobs[mine[v].job]
      <4>1. mine[v].job \in JobIds /\ RowLocked(mine[v].job) /\ jobs[mine[v].job].status # "absent"
        BY <3>1, StatusSets DEF RowInv, RowLocked, TypeInv, WorkersInv, JobSteps
      <4> QED
        BY <1>1, <4>1, TouchedRow
    <3> QED
      BY <2>2, <3>1
  <2> QED
    BY <2>1, <2>2, <2>3 DEF RowInv
<1>2. ASSUME NEW w \in Workers, PickJob(w), Goto(w, "commit_lease"), jobs' = jobs PROVE RowInv'
  <2>1. PICK j \in Earliest(Eligible(LockedRows)) : mine' = [mine EXCEPT ![w].job = j]
    <3>1. ~LaneOver(w)
      BY <1>2 DEF LaneOver, Throw, EnterLane, Continue, End, Goto, TypeInv, WorkersInv
    <3> QED
      BY <1>2, <3>1 DEF PickJob
  <2>2. j \in JobIds /\ jobs[j].status \in Waiting /\ j \notin LockedRows
    BY DEF Earliest, Eligible
  <2>3. \A v \in Workers : pc[v] = "commit_lease" => mine[v].job # j
    BY <2>2 DEF LockedRows, RowLocked
  <2>4. /\ pc'[w] = "commit_lease" /\ mine'[w].job = j
        /\ \A v \in Workers \ {w} : pc'[v] = pc[v] /\ mine'[v] = mine[v]
    BY <1>2, <2>1 DEF Goto, TypeInv, WorkersInv, Memory
  <2> QED
    BY <1>2, <2>2, <2>3, <2>4 DEF RowInv
<1>3. ASSUME NEW w \in Workers, CommitLease(w) PROVE RowInv'
  <2> DEFINE j == mine[w].job
  <2>1. j \in JobIds /\ Owner(w) \in Owners
    BY <1>3, OwnerIsOwner DEF CommitLease, TypeInv, WorkersInv, JobSteps, LaneSteps
  <2>2. jobs' = [jobs EXCEPT ![j] = [@ EXCEPT !.status = "leased", !.lease = "live",
                                              !.owner = Owner(w), !.grantee = w]]
    BY <1>3 DEF CommitLease, Lease
  <2>3. jobs'[j].owner # Nobody /\ \A k \in JobIds \ {j} : jobs'[k] = jobs[k]
    BY <2>1, <2>2, JobsAssumption DEF TypeInv, JobRow
  <2>4. /\ pc'[w] # "commit_lease"
        /\ \A v \in Workers \ {w} : pc'[v] = pc[v] /\ mine'[v] = mine[v]
    BY <1>3 DEF CommitLease, Continue, Goto, TypeInv, WorkersInv
  <2>5. \A v \in Workers \ {w} : pc[v] = "commit_lease" => mine[v].job # j /\ mine[v].job \in JobIds
    BY <1>3 DEF CommitLease, RowInv, TypeInv, WorkersInv, JobSteps
  <2> QED
    BY <2>1, <2>3, <2>4, <2>5 DEF RowInv
<1>4. CASE Environment
  <2>1. pc' = pc /\ mine' = mine
    BY <1>4 DEF Environment, Tick, ExpireLock, RecoverLeases, OutliveLock, ExpireLease, OutliveLease,
         EnableCheck, EnableWrite, Disable
  <2>2. CASE RecoverLeases
    <3>1. \A j \in JobIds : \/ jobs'[j] = jobs[j]
                            \/ /\ jobs'[j].lease = "none"
                               /\ jobs[j].status \in Leased
      BY <2>2 DEF RecoverLeases, RecoverExpired, Unleased, TypeInv, JobRow
    <3>2. \A v \in Workers : pc[v] = "commit_lease" => mine[v].job \in JobIds
      BY DEF TypeInv, WorkersInv, JobSteps
    <3> QED
      BY <2>1, <3>1, <3>2, StatusSets DEF RowInv
  <2>3. CASE \E l \in Lanes : Disable(l)
    <3>1. PICK l \in Lanes : Disable(l)
      BY <2>3
    <3>2. \A j \in JobIds : \/ jobs'[j] = jobs[j]
                            \/ jobs'[j].lease = "none" /\ LaneOf(j) = l
      BY <3>1 DEF Disable, CancelLane, Unleased, TypeInv, JobRow
    <3>3. \A v \in Workers : pc[v] = "commit_lease" => mine[v].job \in JobIds /\ LaneOf(mine[v].job) # l
      BY <3>1 DEF Disable, LockedRows, RowLocked, TypeInv, WorkersInv, JobSteps
    <3> QED
      BY <2>1, <3>2, <3>3 DEF RowInv
  <2>4. CASE \E j \in JobIds : ExpireLease(j) \/ OutliveLease(j)
    <3>1. PICK j \in JobIds : LeaseRunsOut(j)
      BY <2>4 DEF ExpireLease, OutliveLease
    <3>2. \A k \in JobIds : \/ jobs'[k] = jobs[k]
                            \/ /\ jobs[k].lease = "live"
                               /\ jobs'[k].owner = jobs[k].owner
                               /\ jobs'[k].status = jobs[k].status
      BY <3>1 DEF LeaseRunsOut, TypeInv, JobRow
    <3>3. \A v \in Workers : pc[v] = "commit_lease" => mine[v].job \in JobIds
      BY DEF TypeInv, WorkersInv, JobSteps
    <3> QED
      BY <2>1, <3>2, <3>3 DEF RowInv
  <2>5. CASE UNCHANGED jobs
    BY <2>1, <2>5 DEF RowInv
  <2> QED
    BY <1>4, <2>2, <2>3, <2>4, <2>5 DEF Environment, Tick, ExpireLock, OutliveLock, EnableCheck, EnableWrite
<1>5. CASE UNCHANGED vars
  BY <1>5 DEF RowInv, vars
<1> QED
  BY <1>1, <1>2, <1>3, <1>4, <1>5, WorkerSteps, LanesAssumption DEF Next

\* How a step of time, of operators or of the recovery changes a row.
LEMMA EnvironmentRow ==
    ASSUME TypeInv, Environment, NEW j \in JobIds
    PROVE  \/ jobs'[j] = jobs[j]
           \/ /\ jobs[j].status \in Active
              /\ \E status \in {"retry_wait", "cancelled"} :
                    /\ jobs'[j] = Unleased(jobs[j], status)
                    /\ status = "retry_wait" => jobs[j].status \in Leased
           \/ jobs[j].lease = "live" /\ jobs'[j] = [jobs[j] EXCEPT !.lease = "expired"]
<1>1. CASE RecoverLeases
  BY <1>1 DEF RecoverLeases, RecoverExpired, Active
<1>2. CASE \E l \in Lanes : Disable(l)
  BY <1>2 DEF Disable, CancelLane
<1>3. CASE \E k \in JobIds : ExpireLease(k) \/ OutliveLease(k)
  BY <1>3 DEF ExpireLease, OutliveLease, LeaseRunsOut, TypeInv
<1>4. CASE UNCHANGED jobs
  BY <1>4
<1> QED
  BY <1>1, <1>2, <1>3, <1>4 DEF Environment, Tick, ExpireLock, OutliveLock, EnableCheck, EnableWrite

LEMMA EnvironmentWorkers ==
    ASSUME Environment
    PROVE  /\ pc' = pc /\ mine' = mine
           /\ overlap \subseteq overlap'
BY DEF Environment, Tick, ExpireLock, RecoverLeases, OutliveLock, ExpireLease, OutliveLease,
     EnableCheck, EnableWrite, Disable, control, history

LEMMA UnleasedRow ==
    ASSUME NEW row \in JobRow, NEW status
    PROVE  /\ Unleased(row, status).owner = Nobody
           /\ Unleased(row, status).lease = "none"
           /\ Unleased(row, status).status = status
           /\ Unleased(row, status).attempts = row.attempts
BY DEF Unleased, JobRow

LEMMA OverlapGrows ==
    ASSUME TypeInv, NEW w \in Workers,
           Step(w) \/ FaultStep(w) \/ StartHeartbeat(w) \/ \E l \in OneShotLanes : StartOneShot(w, l)
    PROVE  overlap \subseteq overlap'
<1>1. CASE PlanStep(w) \/ LeaseStep(w) \/ WorkStep(w) \/ FaultStep(w)
  BY <1>1, WorkerMoves
<1>2. CASE LockStep(w) \/ StartHeartbeat(w) \/ \E l \in OneShotLanes : StartOneShot(w, l)
  BY <1>2 DEF LockStep, AcquireLock, RenewLock, ReleaseLock, StartHeartbeat, StartOneShot, history
<1> QED
  BY <1>1, <1>2 DEF Step

\* The lease that CommitLease gives.
LEMMA CommitFacts ==
    ASSUME TypeInv, NEW w \in Workers, CommitLease(w)
    PROVE  LET j == mine[w].job IN
           /\ j \in JobIds
           /\ Owner(w) \in Owners
           /\ jobs'[j] = [jobs[j] EXCEPT !.status = "leased", !.lease = "live",
                                         !.owner = Owner(w), !.grantee = w]
           /\ \A k \in JobIds \ {j} : jobs'[k] = jobs[k]
           /\ mine' = mine
           /\ \A v \in Workers \ {w} : pc'[v] = pc[v]
           /\ pc'[w] \in HoldingSteps \ FailureSteps
           /\ Owner(w)' = Owner(w)
<1> DEFINE j == mine[w].job
<1>1. j \in JobIds /\ Owner(w) \in Owners
  BY OwnerIsOwner DEF CommitLease, TypeInv, WorkersInv, JobSteps, LaneSteps
<1>2. jobs' = [jobs EXCEPT ![j] = [@ EXCEPT !.status = "leased", !.lease = "live",
                                            !.owner = Owner(w), !.grantee = w]]
  BY DEF CommitLease, Lease
<1>3. mine' = mine /\ \A v \in Workers \ {w} : pc'[v] = pc[v]
  BY DEF CommitLease, Continue, Goto, TypeInv, WorkersInv
<1>4. pc'[w] \in {"mark_running", "release_foreign"}
  BY DEF CommitLease, Continue, Goto, TypeInv, WorkersInv
<1>5. pc'[w] \in HoldingSteps \ FailureSteps
  BY <1>4 DEF HoldingSteps, FailureSteps
<1> QED
  BY <1>1, <1>2, <1>3, <1>5 DEF TypeInv, Owner

\* A job that is leased while another worker of this owner holds it is noted.
LEMMA CommitFence ==
    ASSUME TypeInv, NEW w \in Workers, CommitLease(w), "owner" \notin overlap',
           NEW v \in Workers \ {w}, NEW j \in JobIds, Holds(v, j)', jobs'[j].owner = Owner(v)'
    PROVE  /\ Holds(v, j)
           /\ jobs[j].owner = Owner(v)
           /\ j # mine[w].job
           /\ jobs'[j] = jobs[j]
<1>1. Holds(v, j) /\ Owner(v)' = Owner(v)
  BY CommitFacts DEF Holds, Owner
<1>2. j # mine[w].job
  <2> SUFFICES ASSUME j = mine[w].job PROVE FALSE
    OBVIOUS
  <2>1. jobs'[j].owner = Owner(w)
    BY CommitFacts DEF TypeInv, JobRow
  <2>2. Owner(v) = Owner(w)
    BY <1>1, <2>1
  <2>3. "owner" \in overlap'
    BY <1>1, <2>2 DEF CommitLease
  <2> QED
    BY <2>3
<1> QED
  BY <1>1, <1>2, CommitFacts

LEMMA OwnerInvStep == TypeInv /\ OwnerInv /\ [Next]_vars => OwnerInv'
<1> SUFFICES ASSUME TypeInv, OwnerInv, [Next]_vars, "owner" \notin overlap',
                    NEW v \in Workers, NEW j \in JobIds, Holds(v, j)', jobs'[j].owner = Owner(v)'
             PROVE  jobs'[j].grantee = v
  BY DEF OwnerInv
<1>1. ASSUME NEW w \in Workers,
             Step(w) \/ FaultStep(w) \/ StartHeartbeat(w) \/ \E l \in OneShotLanes : StartOneShot(w, l)
      PROVE  jobs'[j].grantee = v
  <2>1. "owner" \notin overlap
    BY <1>1, OverlapGrows
  <2>2. CASE Keeps(w) /\ Touches(w)
    BY <2>1, <2>2, KeepsFence DEF OwnerInv
  <2>3. CASE PickJob(w) /\ Goto(w, "commit_lease") /\ jobs' = jobs
    <3>1. v # w
      BY <2>3 DEF Goto, Holds, HoldingSteps, TypeInv, WorkersInv
    <3>2. mine'[v] = mine[v] /\ pc'[v] = pc[v]
      BY <2>3, <3>1 DEF PickJob, Goto, LaneOver, EnterLane, Throw, Continue, End, TypeInv, WorkersInv
    <3> QED
      BY <2>1, <2>3, <3>2 DEF OwnerInv, Holds, Owner
  <2>4. CASE CommitLease(w)
    <3>1. CASE v = w
      <4>1. j = mine[w].job
        BY <2>4, <3>1, CommitFacts DEF Holds
      <4>2. jobs'[j] = [jobs[j] EXCEPT !.status = "leased", !.lease = "live",
                                       !.owner = Owner(w), !.grantee = w]
        BY <2>4, <4>1, CommitFacts
      <4>3. jobs[j] \in JobRow
        BY DEF TypeInv
      <4> QED
        BY <3>1, <4>2, <4>3 DEF JobRow
    <3>2. CASE v # w
      BY <2>1, <2>4, <3>2, CommitFence DEF OwnerInv
    <3> QED
      BY <3>1, <3>2
  <2> QED
    BY <1>1, <2>2, <2>3, <2>4, WorkerSteps
<1>2. CASE Environment
  <2>1. Holds(v, j) /\ Owner(v)' = Owner(v) /\ "owner" \notin overlap
    BY <1>2, EnvironmentWorkers DEF Holds, Owner
  <2>2. Owner(v) # Nobody
    BY <2>1, OwnerIsOwner, JobsAssumption, HoldingFacts DEF Holds, TypeInv
  <2>3. jobs'[j].owner = jobs[j].owner /\ jobs'[j].grantee = jobs[j].grantee
    <3>1. jobs'[j].owner # Nobody /\ jobs[j] \in JobRow
      BY <2>1, <2>2 DEF TypeInv
    <3>2. CASE jobs'[j] = jobs[j]
      BY <3>2
    <3>3. CASE \E status : jobs'[j] = Unleased(jobs[j], status)
      BY <3>1, <3>3, UnleasedRow
    <3>4. CASE jobs'[j] = [jobs[j] EXCEPT !.lease = "expired"]
      BY <3>1, <3>4 DEF JobRow
    <3> QED
      BY <1>2, <3>2, <3>3, <3>4, EnvironmentRow
  <2> QED
    BY <2>1, <2>3 DEF OwnerInv
<1>3. CASE UNCHANGED vars
  BY <1>3 DEF OwnerInv, Holds, Owner, vars, history
<1> QED
  BY <1>1, <1>2, <1>3, LanesAssumption DEF Next

\* The owner column is a fence: a worker that lost its lease passes it only
\* once the job was leased to another worker of the same lane and process.
THEOREM OwnerFence == Spec => []OwnerIsGrantee
<1>1. Init => OwnerInv
  BY DEF Init, OwnerInv, Holds, HoldingSteps
<1>2. OwnerInv => OwnerIsGrantee
  BY DEF OwnerInv, OwnerIsGrantee
<1> QED
  BY <1>1, <1>2, TypesHold, OwnerInvStep, PTL DEF Spec

LEMMA RowsHold == Spec => [](TypeInv /\ RowInv)
<1>1. Init => RowInv
  BY DEF Init, JobsInit, NoJobRow, RowInv
<1> QED
  BY <1>1, TypesHold, RowInvStep, PTL DEF Spec

LEMMA ReleasedStep ==
    ASSUME TypeInv, RowInv, [Next]_vars, NEW j \in JobIds,
           jobs[j].status \in Ended, jobs[j].owner = Nobody
    PROVE  jobs'[j] = jobs[j]
<1>1. ASSUME NEW w \in Workers,
             Step(w) \/ FaultStep(w) \/ StartHeartbeat(w) \/ \E l \in OneShotLanes : StartOneShot(w, l)
      PROVE  jobs'[j] = jobs[j]
  <2>1. CASE Keeps(w) /\ Touches(w)
    <3>1. ~(Holds(w, j) /\ jobs[j].owner = Owner(w))
      BY OwnerIsOwner, JobsAssumption, HoldingFacts DEF Holds, TypeInv
    <3>2. jobs[j].status # "absent"
      BY StatusSets
    <3> QED
      BY <2>1, <3>1, <3>2, TouchedRow
  <2>2. CASE PickJob(w) /\ Goto(w, "commit_lease") /\ jobs' = jobs
    BY <2>2
  <2>3. CASE CommitLease(w)
    <3>1. jobs[mine[w].job].status \in Waiting
      BY <2>3 DEF CommitLease, RowInv
    <3> QED
      BY <2>3, <3>1, CommitFacts, StatusSets
  <2> QED
    BY <1>1, <2>1, <2>2, <2>3, WorkerSteps
<1>2. CASE Environment
  BY <1>2, EnvironmentRow, StatusSets DEF RowInv
<1>3. CASE UNCHANGED vars
  BY <1>3 DEF vars
<1> QED
  BY <1>1, <1>2, <1>3, LanesAssumption DEF Next

\* What is released with a result stays as it is: late workers fail the fence,
\* and neither the leasing, nor the recovery, nor a disable picks ended jobs.
THEOREM ReleasedJobsAreFinal == Spec => ReleasedIsFinal
<1>1. TypeInv /\ RowInv /\ [Next]_vars =>
        [\A j \in JobIds : jobs[j].status \in Ended /\ jobs[j].owner = Nobody => jobs'[j] = jobs[j]]_jobs
  BY ReleasedStep
<1> QED
  BY <1>1, RowsHold, PTL DEF Spec, ReleasedIsFinal

-------------------------------------------------------------------------------
\* The attempts.

\* The attempts on record leave one for a job that is not over.
AttemptsLeft(j) ==
    /\ jobs[j].attempts <= MaxAttempts
    /\ jobs[j].status \in Active => jobs[j].attempts < MaxAttempts

\* What a worker is about to write leaves one too.
PlansAttempts(w, j) ==
    /\ pc[w] # "release_failure" => jobs[j].attempts < MaxAttempts
    /\ pc[w] \in FailureSteps =>
          /\ mine[w].attempts <= MaxAttempts
          /\ mine[w].status = "retry_wait" => mine[w].attempts < MaxAttempts
    /\ pc[w] = "release_failure" /\ mine[w].status = "retry_wait" => jobs[j].attempts < MaxAttempts

AttemptInv ==
    "owner" \notin overlap =>
        /\ \A j \in JobIds : AttemptsLeft(j)
        /\ \A w \in Workers, j \in JobIds : Holds(w, j) /\ jobs[j].owner = Owner(w) => PlansAttempts(w, j)

\* How a worker comes to the steps that record a failed attempt; it goes from
\* them to no other step of its job.
FailureMoves(w) ==
    \/ /\ pc'[w] \notin FailureSteps
       /\ pc[w] \in FailureSteps => pc'[w] \notin HoldingSteps
    \/ /\ pc[w] = "read_attempts"
       /\ jobs' = jobs
       /\ DecideRetry(w, jobs[mine[w].job].attempts + 1) \/ DecideRetry(w, 1)
    \/ /\ pc[w] = "write_failure"
       /\ pc'[w] = "release_failure"
       /\ mine' = mine
       /\ jobs' = jobs \/ WriteFailedAttempt(mine[w].job, Owner(w), mine[w].status, mine[w].attempts)

LEMMA LaneOverLeaves ==
    ASSUME WorkersInv, NEW w \in Workers, LaneOver(w) \/ Throw(w) \/ End(w)
    PROVE  pc'[w] \notin FailureSteps /\ pc'[w] \notin HoldingSteps
BY DEF LaneOver, Throw, EnterLane, Continue, End, Goto, WorkersInv, FailureSteps, HoldingSteps

LEMMA ContinueLeaves ==
    ASSUME WorkersInv, NEW w \in Workers, NEW step, Continue(w, step)
    PROVE  pc'[w] = step /\ mine' = mine
BY DEF Continue, Goto, WorkersInv

LEMMA WorkFailureMoves ==
    ASSUME TypeInv, NEW w \in Workers, WorkStep(w)
    PROVE  FailureMoves(w)
<1> USE LaneOverLeaves, ContinueLeaves DEF TypeInv, FailureMoves
<1>1. CASE MarkRunning(w)
  BY <1>1 DEF MarkRunning, FailureSteps
<1>2. CASE Collect(w)
  BY <1>2 DEF Collect, FailureSteps, Goto, WorkersInv
<1>3. CASE WriteSuccess(w)
  BY <1>3 DEF WriteSuccess, FailureSteps
<1>4. CASE ReleaseSuccess(w)
  BY <1>4 DEF ReleaseSuccess, FailureSteps
<1>5. CASE Advance(w)
  BY <1>5 DEF Advance
<1>6. CASE ReadAttempts(w)
  BY <1>6 DEF ReadAttempts
<1>7. CASE WriteFailure(w)
  BY <1>7 DEF WriteFailure
<1>8. CASE ReleaseFailure(w)
  BY <1>8 DEF ReleaseFailure
<1> QED
  BY <1>1, <1>2, <1>3, <1>4, <1>5, <1>6, <1>7, <1>8 DEF WorkStep

LEMMA FaultFailureMoves ==
    ASSUME TypeInv, NEW w \in Workers, FaultStep(w)
    PROVE  FailureMoves(w)
<1> USE LaneOverLeaves, ContinueLeaves DEF TypeInv, FailureMoves
<1>1. CASE Crash(w) \/ FailAndThrow(w)
  BY <1>1 DEF Crash, FailAndThrow
<1>2. CASE FailUnnoticed(w)
  <2>1. jobs' = jobs
    BY <1>2 DEF FailUnnoticed
  <2>2. CASE pc[w] \in DOMAIN NextAfterFailedWrite /\ Continue(w, NextAfterFailedWrite[pc[w]])
    <3>1. \/ pc[w] = "write_failure"
          \/ /\ pc[w] \in {"write_success", "write_empty"}
             /\ NextAfterFailedWrite[pc[w]] \in {"release_success", "release_empty"}
      BY <2>2 DEF NextAfterFailedWrite
    <3>2. pc[w] = "write_failure" => NextAfterFailedWrite[pc[w]] = "release_failure"
      BY DEF NextAfterFailedWrite
    <3> QED
      BY <2>1, <2>2, <3>1, <3>2 DEF FailureSteps
  <2>3. CASE LaneOver(w)
    BY <2>3
  <2>4. CASE pc[w] = "read_attempts" /\ DecideRetry(w, 1)
    BY <2>1, <2>4
  <2> QED
    BY <1>2, <2>2, <2>3, <2>4 DEF FailUnnoticed
<1>3. CASE FailedRelease(w)
  BY <1>3 DEF FailedRelease, Goto, FailureSteps, WorkersInv
<1> QED
  BY <1>1, <1>2, <1>3 DEF FaultStep

LEMMA OtherFailureMoves ==
    ASSUME TypeInv, NEW w \in Workers,
           \/ LockStep(w) \/ PlanStep(w) \/ LeaseStep(w)
           \/ StartHeartbeat(w) \/ \E l \in OneShotLanes : StartOneShot(w, l)
    PROVE  pc'[w] \notin FailureSteps /\ pc[w] \notin FailureSteps
<1> USE LaneOverLeaves, ContinueLeaves DEF TypeInv, FailureSteps
<1>1. CASE LockStep(w)
  BY <1>1 DEF LockStep, AcquireLock, RenewLock, ReleaseLock, EnterLane, Goto, WorkersInv
<1>2. CASE PlanStep(w)
  BY <1>2 DEF PlanStep, Guard, ReadSchedule, ReadJobs, InsertPlanned, Goto, WorkersInv
<1>3. CASE LeaseStep(w)
  BY <1>3 DEF LeaseStep, CountLeases, PickJob, CommitLease, ReleaseForeign, Goto, WorkersInv
<1>4. CASE StartHeartbeat(w) \/ \E l \in OneShotLanes : StartOneShot(w, l)
  BY <1>4 DEF StartHeartbeat, StartOneShot, Goto, WorkersInv
<1> QED
  BY <1>1, <1>2, <1>3, <1>4

LEMMA AllFailureMoves ==
    ASSUME TypeInv, NEW w \in Workers,
           Step(w) \/ FaultStep(w) \/ StartHeartbeat(w) \/ \E l \in OneShotLanes : StartOneShot(w, l)
    PROVE  FailureMoves(w)
BY WorkFailureMoves, FaultFailureMoves, OtherFailureMoves DEF Step, FailureMoves

\* The attempts of a row written under the fence.
LEMMA WrittenAttempts ==
    ASSUME TypeInv, NEW w \in Workers, NEW j \in JobIds, Holds(w, j), Writes(w, jobs'[j]),
           AttemptsLeft(j), PlansAttempts(w, j)
    PROVE  AttemptsLeft(j)'
<1> DEFINE old == jobs[j]
<1>1. old \in JobRow /\ mine[w].job = j /\ MaxAttempts \in Nat /\ old.attempts \in Nat
  BY JobsAssumption DEF Holds, TypeInv, JobRow
<1>2. CASE \E status \in {"running", "succeeded"} :
              pc[w] \notin FailureSteps /\ jobs'[j] = [old EXCEPT !.status = status]
  <2>1. jobs'[j].attempts = old.attempts /\ old.attempts < MaxAttempts
    BY <1>1, <1>2 DEF PlansAttempts, FailureSteps, JobRow
  <2> QED
    BY <1>1, <2>1 DEF AttemptsLeft
<1>3. CASE pc[w] = "write_failure"
           /\ jobs'[j] = [old EXCEPT !.status = mine[w].status, !.attempts = mine[w].attempts]
  <2>1. jobs'[j].attempts = mine[w].attempts /\ jobs'[j].status = mine[w].status
    BY <1>1, <1>3 DEF JobRow
  <2>2. mine[w].status \in {"retry_wait", "failed"}
    BY <1>3 DEF TypeInv, WorkersInv
  <2>3. mine[w].status = "failed" => mine[w].status \notin Active
    BY DEF Active, Waiting, Leased
  <2> QED
    BY <1>3, <2>1, <2>2, <2>3 DEF PlansAttempts, FailureSteps, AttemptsLeft
<1>4. CASE \E status \in {"blocked", "succeeded"} : jobs'[j] = Unleased(old, status)
  <2>1. jobs'[j].attempts = old.attempts /\ jobs'[j].status \in {"blocked", "succeeded"}
    BY <1>1, <1>4, UnleasedRow
  <2> QED
    BY <2>1 DEF AttemptsLeft, Active, Waiting, Leased
<1>5. CASE pc[w] = "release_failure" /\ jobs'[j] = Unleased(old, mine[w].status)
  <2>1. jobs'[j].attempts = old.attempts /\ jobs'[j].status = mine[w].status
    BY <1>1, <1>5, UnleasedRow
  <2>2. mine[w].status \in {"retry_wait", "failed"}
    BY <1>5 DEF TypeInv, WorkersInv
  <2>3. mine[w].status = "failed" => mine[w].status \notin Active
    BY DEF Active, Waiting, Leased
  <2> QED
    BY <1>5, <2>1, <2>2, <2>3 DEF PlansAttempts, AttemptsLeft
<1> QED
  BY <1>1, <1>2, <1>3, <1>4, <1>5 DEF Writes

\* What a worker that records a failed attempt remembers and leaves.
LEMMA FailurePlans ==
    ASSUME TypeInv, NEW w \in Workers, NEW j \in JobIds, Keeps(w), FailureMoves(w),
           pc'[w] \in FailureSteps, Holds(w, j), jobs[j].owner = Owner(w), PlansAttempts(w, j)
    PROVE  PlansAttempts(w, j)'
<1>1. /\ mine[w].job = j
      /\ jobs[j] \in JobRow
      /\ jobs[j].attempts \in Nat
      /\ MaxAttempts \in Nat \ {0}
  BY JobsAssumption DEF Holds, TypeInv, JobRow
<1>2. ASSUME NEW n \in Nat, n <= MaxAttempts, pc[w] = "read_attempts", jobs' = jobs, DecideRetry(w, n)
      PROVE  PlansAttempts(w, j)'
  <2>1. /\ pc'[w] = "write_failure"
        /\ mine'[w].attempts = n
        /\ mine'[w].status = NextStatusAfterFailure(mine[w].status, n)
    BY <1>2, DecideRetryKeeps DEF TypeInv, HoldingSteps
  <2>2. jobs[j].attempts < MaxAttempts
    BY <1>2 DEF PlansAttempts
  <2>3. mine'[w].status = "retry_wait" => n < MaxAttempts
    BY <2>1 DEF NextStatusAfterFailure
  <2> QED
    BY <1>2, <2>1, <2>2, <2>3 DEF PlansAttempts
<1>3. CASE /\ pc[w] = "read_attempts"
           /\ jobs' = jobs
           /\ DecideRetry(w, jobs[mine[w].job].attempts + 1) \/ DecideRetry(w, 1)
  <2>1. jobs[j].attempts < MaxAttempts
    BY <1>3 DEF PlansAttempts
  <2>2. jobs[j].attempts + 1 \in Nat /\ jobs[j].attempts + 1 <= MaxAttempts /\ 1 <= MaxAttempts
    BY <1>1, <2>1
  <2> QED
    BY <1>1, <1>2, <1>3, <2>2
<1>4. CASE /\ pc[w] = "write_failure"
           /\ pc'[w] = "release_failure"
           /\ mine' = mine
           /\ jobs' = jobs \/ WriteFailedAttempt(mine[w].job, Owner(w), mine[w].status, mine[w].attempts)
  <2>1. jobs'[j].attempts \in {jobs[j].attempts, mine[w].attempts}
    <3>1. CASE jobs' = jobs
      BY <3>1
    <3>2. CASE WriteFailedAttempt(j, Owner(w), mine[w].status, mine[w].attempts)
      <4> DEFINE row == [jobs[j] EXCEPT !.status = mine[w].status, !.attempts = mine[w].attempts]
      <4>1. jobs' = [jobs EXCEPT ![j] = row]
        BY <3>2 DEF WriteFailedAttempt, UpdateOwned
      <4>2. row.attempts = mine[w].attempts
        BY <1>1 DEF JobRow
      <4>3. jobs'[j] = row
        BY <4>1 DEF TypeInv
      <4> QED
        BY <4>2, <4>3
    <3> QED
      BY <1>1, <1>4, <3>1, <3>2
  <2>2. /\ mine[w].attempts <= MaxAttempts
        /\ mine[w].status = "retry_wait" => mine[w].attempts < MaxAttempts
        /\ jobs[j].attempts < MaxAttempts
    BY <1>4 DEF PlansAttempts, FailureSteps
  <2> QED
    BY <1>4, <2>1, <2>2 DEF PlansAttempts
<1> QED
  BY <1>3, <1>4 DEF FailureMoves

\* A worker's step that keeps its job, and whoever passes the fence after it.
LEMMA KeptPlans ==
    ASSUME TypeInv, OwnerInv, AttemptInv, "owner" \notin overlap,
           NEW w \in Workers, Keeps(w), Touches(w), FailureMoves(w),
           NEW v \in Workers, NEW j \in JobIds, Holds(v, j)', jobs'[j].owner = Owner(v)'
    PROVE  PlansAttempts(v, j)'
<1>1. Holds(v, j) /\ jobs[j].owner = Owner(v) /\ jobs[j].grantee = v
  BY KeepsFence DEF OwnerInv
<1>2. PlansAttempts(v, j) /\ AttemptsLeft(j)
  BY <1>1 DEF AttemptInv
<1>3. Owner(v) # Nobody /\ jobs'[j].owner # Nobody
  <2>1. Owner(v) # Nobody
    BY <1>1, OwnerIsOwner, JobsAssumption, HoldingFacts DEF Holds, TypeInv
  <2> QED
    BY <2>1, KeepsFence
<1>4. CASE v # w
  <2>1. ~(Holds(w, j) /\ jobs[j].owner = Owner(w))
    BY <1>1, <1>4 DEF OwnerInv
  <2>2. jobs'[j] = jobs[j]
    BY <1>3, <2>1, TouchedRow
  <2>3. pc'[v] = pc[v] /\ mine'[v] = mine[v]
    BY <1>4 DEF Keeps
  <2> QED
    BY <1>2, <2>2, <2>3 DEF PlansAttempts
<1>5. CASE v = w /\ pc'[w] \in FailureSteps
  BY <1>1, <1>2, <1>5, FailurePlans
<1>6. CASE v = w /\ pc'[w] \notin FailureSteps
  <2>1. jobs'[j].attempts < MaxAttempts
    <3>1. CASE jobs'[j] = jobs[j] /\ pc[w] # "release_failure"
      BY <1>2, <1>6, <3>1 DEF PlansAttempts
    <3>2. CASE jobs'[j].owner = Nobody
      BY <1>3, <3>2
    <3>3. CASE Writes(w, jobs'[j]) /\ pc[w] \notin FailureSteps
      <4>1. mine[w].job = j /\ jobs[j] \in JobRow
        BY <1>1, <1>6 DEF Holds, TypeInv
      <4>2. jobs'[j].attempts = jobs[j].attempts
        BY <3>3, <4>1 DEF Writes, Unleased, JobRow, FailureSteps
      <4> QED
        BY <1>2, <1>6, <3>3, <4>2 DEF PlansAttempts, FailureSteps
    <3>4. pc[w] \notin FailureSteps
      BY <1>1, <1>6 DEF FailureMoves, Holds, FailureSteps
    <3> QED
      BY <3>1, <3>2, <3>3, <3>4, TouchedRow DEF FailureSteps
  <2> QED
    BY <1>6, <2>1 DEF PlansAttempts, FailureSteps
<1> QED
  BY <1>4, <1>5, <1>6

LEMMA PlanFacts ==
    ASSUME AttemptInv, "owner" \notin overlap, NEW j \in JobIds
    PROVE  /\ AttemptsLeft(j)
           /\ \A w \in Workers : Holds(w, j) /\ jobs[j].owner = Owner(w) => PlansAttempts(w, j)
BY DEF AttemptInv

LEMMA AttemptInvStep == TypeInv /\ RowInv /\ OwnerInv /\ AttemptInv /\ [Next]_vars => AttemptInv'
<1> SUFFICES ASSUME TypeInv, RowInv, OwnerInv, AttemptInv, [Next]_vars, "owner" \notin overlap',
                    NEW j \in JobIds
             PROVE  /\ AttemptsLeft(j)'
                    /\ \A v \in Workers :
                          Holds(v, j)' /\ jobs'[j].owner = Owner(v)' => PlansAttempts(v, j)'
  BY DEF AttemptInv
<1> USE JobsAssumption
<1>1. ASSUME NEW w \in Workers,
             Step(w) \/ FaultStep(w) \/ StartHeartbeat(w) \/ \E l \in OneShotLanes : StartOneShot(w, l)
      PROVE  /\ AttemptsLeft(j)'
             /\ \A v \in Workers : Holds(v, j)' /\ jobs'[j].owner = Owner(v)' => PlansAttempts(v, j)'
  <2>1. "owner" \notin overlap
    BY <1>1, OverlapGrows
  <2>2. CASE Keeps(w) /\ Touches(w)
    <3>1. AttemptsLeft(j)'
      <4>1. CASE jobs'[j] = jobs[j]
        BY <2>1, <4>1, PlanFacts DEF AttemptsLeft
      <4>2. CASE jobs'[j].attempts = 0
        BY <4>2 DEF AttemptsLeft
      <4>3. CASE Holds(w, j) /\ jobs[j].owner = Owner(w) /\ Writes(w, jobs'[j])
        BY <2>1, <4>3, PlanFacts, WrittenAttempts
      <4> QED
        BY <2>2, <4>1, <4>2, <4>3, TouchedRow
    <3>2. ASSUME NEW v \in Workers, Holds(v, j)', jobs'[j].owner = Owner(v)'
          PROVE  PlansAttempts(v, j)'
      BY <1>1, <2>1, <2>2, <3>2, AllFailureMoves, KeptPlans
    <3> QED
      BY <3>1, <3>2
  <2>3. CASE PickJob(w) /\ Goto(w, "commit_lease") /\ jobs' = jobs
    <3>1. AttemptsLeft(j)'
      BY <2>1, <2>3, PlanFacts DEF AttemptsLeft
    <3>2. ASSUME NEW v \in Workers, Holds(v, j)', jobs'[j].owner = Owner(v)'
          PROVE  PlansAttempts(v, j)'
      <4>1. v # w
        BY <2>3, <3>2 DEF Goto, Holds, HoldingSteps, TypeInv, WorkersInv
      <4>2. mine'[v] = mine[v] /\ pc'[v] = pc[v]
        BY <2>3, <4>1 DEF PickJob, Goto, LaneOver, EnterLane, Throw, Continue, End, TypeInv, WorkersInv
      <4>3. PlansAttempts(v, j)
        BY <2>1, <2>3, <3>2, <4>2, PlanFacts DEF Holds, Owner
      <4> QED
        BY <2>3, <4>2, <4>3 DEF PlansAttempts
    <3> QED
      BY <3>1, <3>2
  <2>4. CASE CommitLease(w)
    <3>1. \/ j # mine[w].job /\ jobs'[j] = jobs[j]
          \/ j = mine[w].job /\ jobs'[j].attempts = jobs[j].attempts /\ jobs[j].attempts < MaxAttempts
      <4>1. CASE j # mine[w].job
        BY <2>4, <4>1, CommitFacts
      <4>2. CASE j = mine[w].job
        <5>1. jobs[j].status \in Active
          BY <2>4, <4>2, StatusSets DEF RowInv, CommitLease
        <5>2. jobs'[j].attempts = jobs[j].attempts
          BY <2>4, <4>2, CommitFacts DEF TypeInv, JobRow
        <5> QED
          BY <2>1, <4>2, <5>1, <5>2, PlanFacts DEF AttemptsLeft
      <4> QED
        BY <4>1, <4>2
    <3>2. AttemptsLeft(j)'
      BY <2>1, <3>1, PlanFacts DEF AttemptsLeft, TypeInv, JobRow
    <3>3. ASSUME NEW v \in Workers, Holds(v, j)', jobs'[j].owner = Owner(v)'
          PROVE  PlansAttempts(v, j)'
      <4>1. CASE v = w
        <5>1. j = mine[w].job /\ pc'[w] \notin FailureSteps
          BY <2>4, <3>3, <4>1, CommitFacts DEF Holds
        <5> QED
          BY <3>1, <4>1, <5>1 DEF PlansAttempts, FailureSteps
      <4>2. CASE v # w
        <5>1. Holds(v, j) /\ jobs[j].owner = Owner(v) /\ jobs'[j] = jobs[j]
          BY <2>4, <3>3, <4>2, CommitFence
        <5>2. mine' = mine /\ pc'[v] = pc[v]
          BY <2>4, <4>2, CommitFacts
        <5> QED
          BY <2>1, <5>1, <5>2, PlanFacts DEF PlansAttempts
      <4> QED
        BY <4>1, <4>2
    <3> QED
      BY <3>2, <3>3
  <2> QED
    BY <1>1, <2>2, <2>3, <2>4, WorkerSteps
<1>2. CASE Environment
  <2>1. pc' = pc /\ mine' = mine /\ "owner" \notin overlap
    BY <1>2, EnvironmentWorkers
  <2>2. /\ jobs'[j].attempts = jobs[j].attempts
        /\ jobs'[j].owner \in {jobs[j].owner, Nobody}
        /\ jobs'[j].status \in Active => jobs[j].status \in Active
    <3>1. jobs[j] \in JobRow
      BY DEF TypeInv
    <3>2. CASE jobs'[j] = jobs[j]
      BY <3>2
    <3>3. CASE jobs[j].status \in Active /\ \E status : jobs'[j] = Unleased(jobs[j], status)
      BY <3>1, <3>3, UnleasedRow
    <3>4. CASE jobs'[j] = [jobs[j] EXCEPT !.lease = "expired"]
      BY <3>1, <3>4 DEF JobRow
    <3> QED
      BY <1>2, <3>2, <3>3, <3>4, EnvironmentRow
  <2>3. AttemptsLeft(j)'
    BY <2>1, <2>2, PlanFacts DEF AttemptsLeft
  <2>4. ASSUME NEW v \in Workers, Holds(v, j)', jobs'[j].owner = Owner(v)'
        PROVE  PlansAttempts(v, j)'
    <3>1. Holds(v, j) /\ Owner(v)' = Owner(v)
      BY <2>1, <2>4 DEF Holds, Owner
    <3>2. Owner(v) # Nobody
      BY <3>1, OwnerIsOwner, HoldingFacts DEF Holds, TypeInv
    <3>3. PlansAttempts(v, j)
      BY <2>1, <2>2, <2>4, <3>1, <3>2, PlanFacts
    <3> QED
      BY <2>1, <2>2, <3>3 DEF PlansAttempts
  <2> QED
    BY <2>3, <2>4
<1>3. CASE UNCHANGED vars
  <2>1. UNCHANGED <<jobs, pc, mine>> /\ "owner" \notin overlap
    BY <1>3 DEF vars, history
  <2> QED
    BY <2>1, PlanFacts DEF AttemptsLeft, PlansAttempts, Holds, Owner
<1> QED
  BY <1>1, <1>2, <1>3, LanesAssumption DEF Next

\* No job is tried more often than its schedule allows, and one that is over
\* by the count of its failures is never queued again.
THEOREM AttemptLimit == Spec => []AttemptsAreBounded
<1>1. Init => OwnerInv /\ AttemptInv
  BY JobsAssumption DEF Init, JobsInit, NoJobRow, OwnerInv, AttemptInv, AttemptsLeft, Holds, HoldingSteps
<1>2. AttemptInv => AttemptsAreBounded
  BY DEF AttemptInv, AttemptsLeft, AttemptsAreBounded
<1> QED
  BY <1>1, <1>2, RowsHold, OwnerInvStep, AttemptInvStep, PTL DEF Spec

===============================================================================
