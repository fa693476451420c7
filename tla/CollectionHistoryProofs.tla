------------------------ MODULE CollectionHistoryProofs ------------------------
(***************************************************************************)
(* What TLAPS proves of the history of CollectionLanes, for any number of  *)
(* workers, lanes, instants and faults: a job that shows success was       *)
(* collected, a schedule passes only slots whose jobs succeeded, and a job *)
(* is in one hand.                                                         *)
(***************************************************************************)
EXTENDS CollectionLanesProofs, FiniteSetTheorems

\* A step of the worker w, whatever it does.
WorkerStep(w) ==
    Step(w) \/ FaultStep(w) \/ StartHeartbeat(w) \/ \E l \in OneShotLanes : StartOneShot(w, l)

\* The steps of a lane that has read its schedule.
AfterReading ==
    {"read_jobs", "insert_job", "count_leases", "pick_job", "commit_lease"} \cup HoldingSteps

\* The steps at which a worker holds a job of its own lane.
OwnSteps == HoldingSteps \ {"release_foreign"}

\* The steps that lead to success, up to the release.
LeasedSteps ==
    {"mark_running", "collect", "write_success", "write_empty", "release_success", "release_empty"}

\* The steps after a collection without an error.
SuccessSteps == {"write_success", "write_empty", "release_success", "release_empty", "advance"}

\* How a worker comes from one statement to the next.
Path(w) ==
    \/ pc'[w] \notin AfterReading
    \/ /\ pc[w] = "read_schedule" /\ pc'[w] = "read_jobs"
       /\ mine'[w].lane = mine[w].lane /\ mine'[w].mode = mine[w].mode
       /\ mine[w].mode = "heartbeat" => mine'[w].next = schedules[mine[w].lane].next
    \/ /\ pc[w] \in AfterReading
       /\ mine'[w].lane = mine[w].lane /\ mine'[w].mode = mine[w].mode /\ mine'[w].next = mine[w].next
       /\ pc'[w] = "insert_job" => mine'[w].job = Planned(w)
       /\ pc'[w] \in OwnSteps => CommitLease(w) \/ (pc[w] \in OwnSteps /\ mine'[w].job = mine[w].job)
       /\ \/ pc'[w] \notin LeasedSteps \cup {"advance"}
          \/ /\ pc[w] \in LeasedSteps /\ pc'[w] \in LeasedSteps
             /\ \/ jobs' = jobs
                \/ \E status \in {"running", "succeeded"} : WriteStatus(mine[w].job, Owner(w), status)
          \/ /\ pc[w] = "release_success" /\ pc'[w] = "advance"
             /\ mine[w].mode = "heartbeat"
             /\ Release(mine[w].job, Owner(w), "succeeded")
          \/ CommitLease(w)

LEMMA PathSets ==
    /\ HoldingSteps = OwnSteps \cup {"release_foreign"}
    /\ OwnSteps = LeasedSteps \cup {"advance", "read_attempts", "write_failure", "release_failure"}
    /\ AfterReading = OwnSteps \cup {"read_jobs", "insert_job", "count_leases", "pick_job",
                                     "commit_lease", "release_foreign"}
    /\ LeasedSteps = {"mark_running", "collect", "write_success", "write_empty",
                      "release_success", "release_empty"}
BY DEF AfterReading, OwnSteps, LeasedSteps, HoldingSteps

LEMMA LeavingPath ==
    ASSUME WorkersInv, NEW w \in Workers, LaneOver(w) \/ Throw(w) \/ End(w)
    PROVE  pc'[w] \notin AfterReading
BY DEF LaneOver, Throw, EnterLane, Continue, End, Goto, WorkersInv, AfterReading, HoldingSteps

LEMMA PlanPath ==
    ASSUME TypeInv, NEW w \in Workers, PlanStep(w)
    PROVE  Path(w)
<1> USE LeavingPath, PathSets DEF TypeInv
<1>1. CASE Guard(w)
  BY <1>1, ContinueLeaves DEF Guard, Path
<1>2. CASE ReadSchedule(w)
  BY <1>2 DEF ReadSchedule, Goto, Path, WorkersInv, Memory
<1>3. CASE ReadJobs(w)
  <2>1. CASE Continue(w, "count_leases")
    BY <1>3, <2>1, ContinueLeaves DEF ReadJobs, Path
  <2>2. CASE mine' = [mine EXCEPT ![w].job = Planned(w)] /\ Goto(w, "insert_job")
    <3>1. /\ pc'[w] = "insert_job" /\ mine'[w].job = Planned(w)
          /\ mine'[w].lane = mine[w].lane /\ mine'[w].mode = mine[w].mode /\ mine'[w].next = mine[w].next
      BY <2>2 DEF Goto, WorkersInv, Memory
    <3> QED
      BY <1>3, <3>1 DEF ReadJobs, Path
  <2> QED
    BY <1>3, <2>1, <2>2 DEF ReadJobs
<1>4. CASE InsertPlanned(w)
  BY <1>4 DEF InsertPlanned, Goto, Path, WorkersInv, Memory
<1> QED
  BY <1>1, <1>2, <1>3, <1>4 DEF PlanStep

LEMMA LeasePath ==
    ASSUME TypeInv, NEW w \in Workers, LeaseStep(w)
    PROVE  Path(w)
<1> USE LeavingPath, PathSets DEF TypeInv
<1>1. CASE CountLeases(w)
  BY <1>1, ContinueLeaves DEF CountLeases, Path
<1>2. CASE PickJob(w)
  <2>1. CASE LaneOver(w)
    BY <2>1 DEF Path
  <2>2. CASE \E j \in JobIds : mine' = [mine EXCEPT ![w].job = j] /\ Goto(w, "commit_lease")
    BY <1>2, <2>2 DEF PickJob, Goto, Path, WorkersInv, Memory
  <2> QED
    BY <1>2, <2>1, <2>2 DEF PickJob, Earliest, Eligible
<1>3. CASE CommitLease(w)
  BY <1>3, CommitFacts DEF CommitLease, Path
<1>4. CASE ReleaseForeign(w)
  BY <1>4 DEF ReleaseForeign, Path
<1> QED
  BY <1>1, <1>2, <1>3, <1>4 DEF LeaseStep

LEMMA WorkPath ==
    ASSUME TypeInv, NEW w \in Workers, WorkStep(w)
    PROVE  Path(w)
<1> USE LeavingPath, ContinueLeaves, PathSets DEF TypeInv
<1>1. CASE MarkRunning(w)
  BY <1>1 DEF MarkRunning, Path
<1>2. CASE Collect(w)
  <2>1. CASE Continue(w, "write_success") \/ Continue(w, "write_empty")
    BY <1>2, <2>1 DEF Collect, Path
  <2>2. CASE \E outcome : mine' = [mine EXCEPT ![w].status = outcome] /\ Goto(w, "read_attempts")
    BY <1>2, <2>2 DEF Collect, Goto, Path, WorkersInv, Memory
  <2> QED
    BY <1>2, <2>1, <2>2 DEF Collect
<1>3. CASE WriteSuccess(w)
  BY <1>3 DEF WriteSuccess, Path
<1>4. CASE ReleaseSuccess(w)
  BY <1>4 DEF ReleaseSuccess, Path
<1>5. CASE Advance(w)
  BY <1>5 DEF Advance, Path
<1>6. CASE ReadAttempts(w)
  BY <1>6 DEF ReadAttempts, DecideRetry, Goto, Path, WorkersInv, Memory
<1>7. CASE WriteFailure(w)
  BY <1>7 DEF WriteFailure, Path
<1>8. CASE ReleaseFailure(w)
  BY <1>8 DEF ReleaseFailure, Path
<1> QED
  BY <1>1, <1>2, <1>3, <1>4, <1>5, <1>6, <1>7, <1>8 DEF WorkStep

LEMMA FaultPath ==
    ASSUME TypeInv, NEW w \in Workers, FaultStep(w)
    PROVE  Path(w)
<1> USE LeavingPath, ContinueLeaves, PathSets DEF TypeInv
<1>1. CASE Crash(w) \/ FailAndThrow(w)
  BY <1>1 DEF Crash, FailAndThrow, Path
<1>2. CASE FailUnnoticed(w)
  <2>1. CASE LaneOver(w)
    BY <2>1 DEF Path
  <2>2. CASE pc[w] \in DOMAIN NextAfterFailedWrite /\ Continue(w, NextAfterFailedWrite[pc[w]])
    <3>1. \/ pc[w] = "write_success" /\ Continue(w, "release_success")
          \/ pc[w] = "write_empty" /\ Continue(w, "release_empty")
          \/ pc[w] = "write_failure" /\ Continue(w, "release_failure")
      BY <2>2 DEF NextAfterFailedWrite
    <3> QED
      BY <1>2, <3>1 DEF FailUnnoticed, Path
  <2>3. CASE pc[w] = "read_attempts" /\ DecideRetry(w, 1)
    BY <2>3 DEF DecideRetry, Goto, Path, WorkersInv, Memory
  <2> QED
    BY <1>2, <2>1, <2>2, <2>3 DEF FailUnnoticed
<1>3. CASE FailedRelease(w)
  BY <1>3 DEF FailedRelease, Goto, Path, WorkersInv, Memory
<1> QED
  BY <1>1, <1>2, <1>3 DEF FaultStep

LEMMA WorkerPath ==
    ASSUME TypeInv, NEW w \in Workers, WorkerStep(w)
    PROVE  Path(w)
<1>1. CASE LockStep(w)
  <2>1. {"renew_lock", "release_lock", "guard", "idle"} \cap AfterReading = {}
    BY DEF AfterReading, HoldingSteps
  <2> QED
    BY <1>1, <2>1, ContinueLeaves, LeavingPath
    DEF LockStep, AcquireLock, RenewLock, ReleaseLock, EnterLane, Goto, Path, TypeInv, WorkersInv
<1>2. CASE StartHeartbeat(w) \/ \E l \in OneShotLanes : StartOneShot(w, l)
  BY <1>2 DEF StartHeartbeat, StartOneShot, Goto, Path, AfterReading, HoldingSteps, TypeInv, WorkersInv
<1> QED
  BY <1>1, <1>2, PlanPath, LeasePath, WorkPath, FaultPath DEF WorkerStep, Step

-------------------------------------------------------------------------------
\* Success.

\* What a job that shows success, and a worker that is about to write it, have
\* behind them.
CollectInv ==
    /\ \A j \in JobIds : jobs[j].status = "succeeded" => j \in collected
    /\ \A w \in Workers : pc[w] \in SuccessSteps => mine[w].job \in collected

\* A worker comes to these steps by a collection, and no other step of a worker
\* writes success.
Succeeds(w) ==
    /\ collected \subseteq collected'
    /\ pc'[w] \in SuccessSteps =>
          /\ mine'[w].job = mine[w].job
          /\ pc[w] \in SuccessSteps \/ mine[w].job \in collected'
    /\ \A j \in JobIds : jobs'[j].status = "succeeded" =>
          jobs[j].status = "succeeded" \/ (pc[w] \in SuccessSteps /\ mine[w].job = j)

LEMMA UpdatedStatus ==
    ASSUME jobs \in [JobIds -> JobRow], NEW j \in JobIds, NEW owner, NEW status,
           WriteStatus(j, owner, status) \/ Release(j, owner, status),
           NEW k \in JobIds
    PROVE  jobs'[k].status = jobs[k].status \/ (k = j /\ jobs'[k].status = status)
<1>1. \/ jobs' = jobs
      \/ \E row : row.status = status /\ jobs' = [jobs EXCEPT ![j] = row]
  <2>1. jobs[j] \in JobRow
    OBVIOUS
  <2> QED
    BY <2>1 DEF WriteStatus, Release, UpdateOwned, Unleased, JobRow
<1> QED
  BY <1>1

LEMMA FailedStatus ==
    ASSUME jobs \in [JobIds -> JobRow], NEW j \in JobIds, NEW owner, NEW status, NEW attempts,
           WriteFailedAttempt(j, owner, status, attempts), NEW k \in JobIds
    PROVE  jobs'[k].status \in {jobs[k].status, status}
<1>1. \/ jobs' = jobs
      \/ \E row : row.status = status /\ jobs' = [jobs EXCEPT ![j] = row]
  <2>1. jobs[j] \in JobRow
    OBVIOUS
  <2> QED
    BY <2>1 DEF WriteFailedAttempt, UpdateOwned, JobRow
<1> QED
  BY <1>1

LEMMA LeavingSuccess ==
    ASSUME WorkersInv, NEW w \in Workers, LaneOver(w) \/ Throw(w) \/ End(w)
    PROVE  pc'[w] \notin SuccessSteps
BY LeavingPath DEF AfterReading, HoldingSteps, SuccessSteps

LEMMA WorkSucceeds ==
    ASSUME TypeInv, NEW w \in Workers, WorkStep(w) \/ ReleaseForeign(w)
    PROVE  Succeeds(w)
<1>0. pc[w] \in HoldingSteps
  BY DEF WorkStep, ReleaseForeign, MarkRunning, Collect, WriteSuccess, ReleaseSuccess, Advance,
         ReadAttempts, WriteFailure, ReleaseFailure, HoldingSteps
<1>j. mine[w].job \in JobIds
  BY <1>0, HoldingFacts DEF TypeInv
<1> USE LeavingSuccess, ContinueLeaves, UpdatedStatus, <1>j DEF TypeInv, Succeeds, SuccessSteps
<1>1. CASE MarkRunning(w)
  BY <1>1 DEF MarkRunning, history
<1>2. CASE Collect(w)
  <2>1. CASE /\ Continue(w, "write_success") \/ Continue(w, "write_empty")
             /\ collected' = collected \cup {mine[w].job}
    <3>1. jobs' = jobs
      BY <1>2 DEF Collect
    <3>2. mine'[w].job = mine[w].job
      BY <2>1
    <3> QED
      BY <2>1, <3>1, <3>2
  <2>2. CASE UNCHANGED collected /\ Goto(w, "read_attempts")
    BY <1>2, <2>2 DEF Collect, Goto, WorkersInv
  <2> QED
    BY <1>2, <2>1, <2>2 DEF Collect
<1>3. CASE WriteSuccess(w)
  BY <1>3 DEF WriteSuccess, history
<1>4. CASE ReleaseSuccess(w)
  BY <1>4 DEF ReleaseSuccess, history
<1>5. CASE Advance(w)
  BY <1>5 DEF Advance, history
<1>6. CASE ReadAttempts(w)
  BY <1>6 DEF ReadAttempts, DecideRetry, Goto, WorkersInv, history
<1>7. CASE WriteFailure(w)
  <2>1. mine[w].status \in {"retry_wait", "failed"}
    BY <1>7 DEF WriteFailure, WorkersInv
  <2>2. \A j \in JobIds : jobs'[j].status = "succeeded" => jobs[j].status = "succeeded"
    <3>1. WriteFailedAttempt(mine[w].job, Owner(w), mine[w].status, mine[w].attempts)
      BY <1>7 DEF WriteFailure
    <3>2. \A k \in JobIds : jobs'[k].status \in {jobs[k].status, mine[w].status}
      BY <3>1, FailedStatus
    <3> QED
      BY <2>1, <3>2
  <2> QED
    BY <1>7, <2>2 DEF WriteFailure, history
<1>8. CASE ReleaseFailure(w)
  <2>1. mine[w].status \in {"retry_wait", "failed"}
    BY <1>8 DEF ReleaseFailure, WorkersInv
  <2> QED
    BY <1>8, <2>1 DEF ReleaseFailure, history
<1>9. CASE ReleaseForeign(w)
  BY <1>9 DEF ReleaseForeign, history
<1> QED
  BY <1>1, <1>2, <1>3, <1>4, <1>5, <1>6, <1>7, <1>8, <1>9 DEF WorkStep

LEMMA FaultSucceeds ==
    ASSUME TypeInv, NEW w \in Workers, FaultStep(w)
    PROVE  Succeeds(w)
<1> USE LeavingSuccess, ContinueLeaves DEF TypeInv, Succeeds, SuccessSteps
<1>1. CASE Crash(w) \/ FailAndThrow(w)
  BY <1>1 DEF Crash, FailAndThrow, history
<1>2. CASE FailUnnoticed(w)
  <2>1. \/ LaneOver(w)
        \/ pc[w] = "write_success" /\ Continue(w, "release_success")
        \/ pc[w] = "write_empty" /\ Continue(w, "release_empty")
        \/ pc[w] = "write_failure" /\ Continue(w, "release_failure")
        \/ pc[w] = "read_attempts" /\ DecideRetry(w, 1)
    BY <1>2 DEF FailUnnoticed, NextAfterFailedWrite
  <2>2. jobs' = jobs /\ collected' = collected
    BY <1>2 DEF FailUnnoticed, history
  <2>3. CASE DecideRetry(w, 1)
    BY <2>2, <2>3 DEF DecideRetry, Goto, WorkersInv
  <2> QED
    BY <2>1, <2>2, <2>3
<1>3. CASE FailedRelease(w)
  <2>1. pc[w] \in HoldingSteps
    BY <1>3 DEF FailedRelease, HoldingSteps
  <2>2. mine[w].job \in JobIds
    BY <2>1, HoldingFacts
  <2>3. pc'[w] = "read_attempts" /\ collected' = collected
    BY <1>3 DEF FailedRelease, Goto, WorkersInv, history
  <2> QED
    BY <1>3, <2>2, <2>3, UpdatedStatus DEF FailedRelease
<1> QED
  BY <1>1, <1>2, <1>3 DEF FaultStep

LEMMA OtherSucceeds ==
    ASSUME TypeInv, NEW w \in Workers,
           \/ LockStep(w) \/ PlanStep(w) \/ CountLeases(w) \/ PickJob(w) \/ CommitLease(w)
           \/ StartHeartbeat(w) \/ \E l \in OneShotLanes : StartOneShot(w, l)
    PROVE  Succeeds(w)
<1>1. collected' = collected
  BY DEF LockStep, AcquireLock, RenewLock, ReleaseLock, PlanStep, Guard, ReadSchedule, ReadJobs,
         InsertPlanned, CountLeases, PickJob, CommitLease, StartHeartbeat, StartOneShot, history
<1>2. \A j \in JobIds : jobs'[j].status = "succeeded" => jobs[j].status = "succeeded"
  <2>1. CASE PlanStep(w)
    BY <2>1 DEF PlanStep, Guard, ReadSchedule, ReadJobs, InsertPlanned, InsertJob, NoJobRow, TypeInv
  <2>2. CASE CommitLease(w)
    BY <2>2, CommitFacts DEF TypeInv, JobRow
  <2>3. CASE jobs' = jobs
    BY <2>3
  <2> QED
    BY <2>1, <2>2, <2>3
    DEF LockStep, AcquireLock, RenewLock, ReleaseLock, CountLeases, PickJob, StartHeartbeat, StartOneShot
<1>3. pc'[w] \notin SuccessSteps
  <2>1. CASE CommitLease(w)
    BY <2>1, ContinueLeaves DEF CommitLease, SuccessSteps, TypeInv
  <2>2. CASE PickJob(w)
    BY <2>2, LeavingSuccess DEF PickJob, Goto, SuccessSteps, TypeInv, WorkersInv
  <2>3. CASE CountLeases(w)
    BY <2>3, LeavingSuccess, ContinueLeaves DEF CountLeases, SuccessSteps, TypeInv
  <2>4. CASE PlanStep(w)
    BY <2>4, LeavingSuccess, ContinueLeaves
    DEF PlanStep, Guard, ReadSchedule, ReadJobs, InsertPlanned, Goto, SuccessSteps, TypeInv, WorkersInv
  <2>5. CASE LockStep(w)
    BY <2>5, LeavingSuccess, ContinueLeaves
    DEF LockStep, AcquireLock, RenewLock, ReleaseLock, EnterLane, Goto, SuccessSteps, TypeInv, WorkersInv
  <2>6. CASE StartHeartbeat(w) \/ \E l \in OneShotLanes : StartOneShot(w, l)
    BY <2>6 DEF StartHeartbeat, StartOneShot, Goto, SuccessSteps, TypeInv, WorkersInv
  <2> QED
    BY <2>1, <2>2, <2>3, <2>4, <2>5, <2>6
<1> QED
  BY <1>1, <1>2, <1>3 DEF Succeeds

\* The other workers are left alone, whatever the step.
LEMMA OthersStay ==
    ASSUME TypeInv, NEW w \in Workers, WorkerStep(w), NEW v \in Workers \ {w}
    PROVE  pc'[v] = pc[v] /\ mine'[v] = mine[v]
<1>1. CASE Keeps(w)
  BY <1>1 DEF Keeps
<1>2. CASE CommitLease(w)
  BY <1>2, CommitFacts
<1>3. CASE PickJob(w) /\ Goto(w, "commit_lease")
  BY <1>3 DEF PickJob, LaneOver, EnterLane, Throw, Continue, End, Goto, TypeInv, WorkersInv
<1> QED
  BY <1>1, <1>2, <1>3, WorkerSteps DEF WorkerStep

LEMMA CollectInvStep == TypeInv /\ CollectInv /\ [Next]_vars => CollectInv'
<1> SUFFICES ASSUME TypeInv, CollectInv, [Next]_vars PROVE CollectInv'
  OBVIOUS
<1>1. ASSUME NEW w \in Workers, WorkerStep(w) PROVE CollectInv'
  <2>1. Succeeds(w)
    BY <1>1, WorkSucceeds, FaultSucceeds, OtherSucceeds DEF WorkerStep, Step, LeaseStep
  <2>2. \A v \in Workers \ {w} : pc'[v] = pc[v] /\ mine'[v] = mine[v]
    BY <1>1, OthersStay
  <2> QED
    BY <2>1, <2>2 DEF CollectInv, Succeeds
<1>2. CASE Environment
  <2>1. pc' = pc /\ mine' = mine
    BY <1>2, EnvironmentWorkers
  <2>2. collected' = collected
    BY <1>2 DEF Environment, Tick, ExpireLock, RecoverLeases, OutliveLock, ExpireLease, OutliveLease,
         EnableCheck, EnableWrite, Disable, control, history
  <2>3. ASSUME NEW j \in JobIds, jobs'[j].status = "succeeded" PROVE jobs[j].status = "succeeded"
    <3>1. jobs[j] \in JobRow
      BY DEF TypeInv
    <3>2. CASE \E status \in {"retry_wait", "cancelled"} : jobs'[j] = Unleased(jobs[j], status)
      BY <2>3, <3>1, <3>2, UnleasedRow
    <3>3. CASE jobs'[j] = [jobs[j] EXCEPT !.lease = "expired"]
      BY <2>3, <3>1, <3>3 DEF JobRow
    <3> QED
      BY <1>2, <2>3, <3>2, <3>3, EnvironmentRow
  <2> QED
    BY <2>1, <2>2, <2>3 DEF CollectInv
<1>3. CASE UNCHANGED vars
  BY <1>3 DEF CollectInv, vars, history
<1> QED
  BY <1>1, <1>2, <1>3, LanesAssumption DEF Next, WorkerStep

\* A job shows success only if its own collection came to an end without an
\* error: whatever fails, is lost, is late or is done twice, the lanes write
\* success only after it, and write it into the row of the job they collected.
THEOREM SuccessIsCollected == Spec => []SucceededWasCollected
<1>1. Init => CollectInv
  BY DEF Init, JobsInit, NoJobRow, CollectInv, SuccessSteps
<1>2. CollectInv => SucceededWasCollected
  BY DEF CollectInv, SucceededWasCollected
<1> QED
  BY <1>1, <1>2, TypesHold, CollectInvStep, PTL DEF Spec

-------------------------------------------------------------------------------
\* The slots a schedule passes.

\* What a worker plans, leases and holds, by the step it is at.
PlanInv ==
    \A w \in Workers :
        /\ pc[w] = "insert_job" => mine[w].job = Planned(w)
        /\ pc[w] = "commit_lease" => jobs[mine[w].job].lease # "live"
        /\ pc[w] = "advance" => mine[w].mode = "heartbeat"
        /\ pc[w] \in OwnSteps => LaneOf(mine[w].job) = mine[w].lane

LEMMA ScheduleMoves ==
    ASSUME TypeInv, NEW w \in Workers, WorkerStep(w)
    PROVE  era' = era /\ (schedules' = schedules \/ Advance(w))
<1>1. CASE PlanStep(w) \/ LeaseStep(w) \/ LockStep(w)
  BY <1>1 DEF PlanStep, Guard, ReadSchedule, ReadJobs, InsertPlanned, LeaseStep, CountLeases, PickJob,
              CommitLease, ReleaseForeign, LockStep, AcquireLock, RenewLock, ReleaseLock, control, history
<1>2. CASE WorkStep(w)
  BY <1>2 DEF WorkStep, MarkRunning, Collect, WriteSuccess, ReleaseSuccess, Advance, ReadAttempts,
              WriteFailure, ReleaseFailure, control, history
<1>3. CASE FaultStep(w) \/ StartHeartbeat(w) \/ \E l \in OneShotLanes : StartOneShot(w, l)
  BY <1>3 DEF FaultStep, Crash, FailAndThrow, FailUnnoticed, FailedRelease, StartHeartbeat, StartOneShot,
              control, history
<1> QED
  BY <1>1, <1>2, <1>3 DEF WorkerStep, Step

LEMMA LockedRowStays ==
    ASSUME TypeInv, RowInv, NEW w \in Workers, Keeps(w), Touches(w),
           NEW v \in Workers, pc[v] = "commit_lease"
    PROVE  jobs'[mine[v].job] = jobs[mine[v].job]
<1>1. mine[v].job \in JobIds /\ RowLocked(mine[v].job) /\ jobs[mine[v].job].status # "absent"
  BY StatusSets DEF RowInv, RowLocked, TypeInv, WorkersInv, JobSteps
<1> QED
  BY <1>1, TouchedRow

LEMMA CommitLane ==
    ASSUME TypeInv, NEW w \in Workers, CommitLease(w)
    PROVE  /\ pc[w] = "commit_lease"
           /\ pc'[w] \in {"mark_running", "release_foreign"}
           /\ pc'[w] = "mark_running" => LaneOf(mine[w].job) = mine[w].lane
BY ContinueLeaves DEF CommitLease, TypeInv

LEMMA PlanInvStep == TypeInv /\ RowInv /\ PlanInv /\ [Next]_vars => PlanInv'
<1> SUFFICES ASSUME TypeInv, RowInv, PlanInv, [Next]_vars PROVE PlanInv'
  OBVIOUS
<1>1. ASSUME NEW w \in Workers, WorkerStep(w), NEW v \in Workers
      PROVE  /\ pc'[v] = "insert_job" => mine'[v].job = Planned(v)'
             /\ pc'[v] = "advance" => mine'[v].mode = "heartbeat"
             /\ pc'[v] \in OwnSteps => LaneOf(mine'[v].job) = mine'[v].lane
  <2>1. CASE v # w
    BY <1>1, <2>1, OthersStay DEF PlanInv, Planned
  <2>2. CASE v = w
    <3>1. CASE pc'[w] \notin AfterReading
      BY <2>2, <3>1, PathSets
    <3>2. CASE pc'[w] = "read_jobs"
      BY <2>2, <3>2, PathSets
    <3>3. CASE pc[w] \in AfterReading /\ pc'[w] \in AfterReading \ {"read_jobs"}
      <4>0. Path(w)
        BY <1>1, WorkerPath
      <4>1. /\ mine'[w].lane = mine[w].lane /\ mine'[w].mode = mine[w].mode /\ mine'[w].next = mine[w].next
            /\ pc'[w] = "insert_job" => mine'[w].job = Planned(w)
            /\ pc'[w] \in OwnSteps => CommitLease(w) \/ (pc[w] \in OwnSteps /\ mine'[w].job = mine[w].job)
        BY <3>3, <4>0 DEF Path
      <4>2. pc'[w] = "advance" => mine[w].mode = "heartbeat"
        BY <3>3, <4>0, PathSets, CommitLane DEF Path
      <4>3. pc'[w] = "insert_job" => mine'[w].job = Planned(w)'
        BY <4>1 DEF Planned
      <4>4. pc'[w] \in OwnSteps => LaneOf(mine'[w].job) = mine'[w].lane
        <5>1. CASE CommitLease(w)
          BY <5>1, CommitLane, CommitFacts, PathSets
        <5>2. CASE pc[w] \in OwnSteps /\ mine'[w].job = mine[w].job
          BY <4>1, <5>2 DEF PlanInv
        <5> QED
          BY <4>1, <5>1, <5>2
      <4> QED
        BY <2>2, <4>1, <4>2, <4>3, <4>4
    <3> QED
      BY <1>1, <3>1, <3>2, <3>3, WorkerPath DEF Path
  <2> QED
    BY <2>1, <2>2
<1>2. ASSUME NEW w \in Workers, WorkerStep(w), NEW v \in Workers, pc'[v] = "commit_lease"
      PROVE  jobs'[mine'[v].job].lease # "live"
  <2>1. CASE Keeps(w) /\ Touches(w)
    <3>1. v # w /\ pc[v] = "commit_lease" /\ mine'[v] = mine[v]
      BY <1>2, <2>1 DEF Keeps
    <3> QED
      BY <2>1, <3>1, LockedRowStays DEF PlanInv
  <2>2. CASE PickJob(w) /\ Goto(w, "commit_lease") /\ jobs' = jobs
    <3>1. CASE v = w
      <4>1. ~LaneOver(w)
        BY <1>2, <3>1, LeavingPath DEF AfterReading, TypeInv
      <4>2. PICK j \in Earliest(Eligible(LockedRows)) : mine' = [mine EXCEPT ![w].job = j]
        BY <2>2, <4>1 DEF PickJob
      <4>3. jobs[j].lease # "live" /\ mine'[w].job = j
        BY <4>2 DEF Earliest, Eligible, TypeInv, WorkersInv, Memory
      <4> QED
        BY <2>2, <3>1, <4>3
    <3>2. CASE v # w
      BY <1>2, <2>2, <3>2, OthersStay DEF PlanInv
    <3> QED
      BY <3>1, <3>2
  <2>3. CASE CommitLease(w)
    <3>1. v # w /\ pc[v] = "commit_lease" /\ mine'[v] = mine[v]
      BY <1>2, <2>3, OthersStay, CommitLane
    <3>2. mine[v].job # mine[w].job /\ mine[v].job \in JobIds
      BY <2>3, <3>1, CommitLane DEF RowInv, TypeInv, WorkersInv, JobSteps
    <3>3. jobs'[mine[v].job] = jobs[mine[v].job]
      BY <2>3, <3>2, CommitFacts
    <3> QED
      BY <3>1, <3>3 DEF PlanInv
  <2> QED
    BY <1>2, <2>1, <2>2, <2>3, WorkerSteps DEF WorkerStep
<1>3. CASE Environment
  <2>1. pc' = pc /\ mine' = mine
    BY <1>3, EnvironmentWorkers
  <2>2. ASSUME NEW w \in Workers, pc[w] = "commit_lease" PROVE jobs'[mine[w].job].lease # "live"
    <3>1. mine[w].job \in JobIds
      BY <2>2 DEF TypeInv, WorkersInv, JobSteps
    <3>2. jobs[mine[w].job] \in JobRow
      BY <3>1 DEF TypeInv
    <3>3. CASE \E status : jobs'[mine[w].job] = Unleased(jobs[mine[w].job], status)
      BY <3>2, <3>3, UnleasedRow
    <3>4. CASE jobs'[mine[w].job] = [jobs[mine[w].job] EXCEPT !.lease = "expired"]
      BY <3>2, <3>4 DEF JobRow
    <3> QED
      BY <1>3, <2>2, <3>1, <3>3, <3>4, EnvironmentRow DEF PlanInv
  <2> QED
    BY <2>1, <2>2 DEF PlanInv, Planned
<1>4. CASE UNCHANGED vars
  BY <1>4 DEF PlanInv, Planned, vars
<1>5. CASE \E w \in Workers : WorkerStep(w)
  BY <1>1, <1>2, <1>5 DEF PlanInv
<1> QED
  BY <1>3, <1>4, <1>5, LanesAssumption DEF Next, WorkerStep

ModeInv == \A w \in Workers : pc[w] # "idle" => mine[w].mode \in {"heartbeat", "one_shot"}

LEMMA ModeMoves ==
    ASSUME TypeInv, NEW w \in Workers, WorkerStep(w), pc'[w] # "idle"
    PROVE  \/ pc[w] # "idle" /\ mine'[w].mode = mine[w].mode
           \/ StartHeartbeat(w) /\ mine'[w].mode = "heartbeat"
           \/ (\E l \in OneShotLanes : StartOneShot(w, l)) /\ mine'[w].mode = "one_shot"
<1>1. ASSUME LaneOver(w) \/ Throw(w) \/ End(w), pc[w] # "idle" PROVE mine'[w].mode = mine[w].mode
  BY <1>1 DEF LaneOver, Throw, EnterLane, Continue, End, Goto, NoMemory, TypeInv, WorkersInv
<1> USE ContinueLeaves DEF TypeInv
<1>2. CASE PlanStep(w)
  BY <1>1, <1>2 DEF PlanStep, Guard, ReadSchedule, ReadJobs, InsertPlanned, Goto, WorkersInv, Memory
<1>3. CASE LeaseStep(w)
  BY <1>1, <1>3 DEF LeaseStep, CountLeases, PickJob, CommitLease, ReleaseForeign, Goto, WorkersInv, Memory
<1>4. CASE WorkStep(w)
  <2>1. CASE Collect(w)
    BY <2>1 DEF Collect, Goto, WorkersInv, Memory
  <2>2. CASE ReadAttempts(w)
    BY <2>2 DEF ReadAttempts, DecideRetry, Goto, WorkersInv, Memory
  <2>3. CASE MarkRunning(w) \/ WriteSuccess(w) \/ ReleaseSuccess(w) \/ Advance(w) \/ WriteFailure(w) \/ ReleaseFailure(w)
    BY <1>1, <2>3 DEF MarkRunning, WriteSuccess, ReleaseSuccess, Advance, WriteFailure, ReleaseFailure
  <2> QED
    BY <1>4, <2>1, <2>2, <2>3 DEF WorkStep
<1>5. CASE FaultStep(w)
  <2>1. CASE Crash(w)
    BY <2>1 DEF Crash, End, Goto, WorkersInv
  <2>2. CASE FailAndThrow(w)
    BY <1>1, <2>2 DEF FailAndThrow, ThrowingSteps
  <2>3. CASE FailUnnoticed(w)
    BY <1>1, <2>3 DEF FailUnnoticed, NextAfterFailedWrite, DecideRetry, Goto, WorkersInv, Memory
  <2>4. CASE FailedRelease(w)
    BY <2>4 DEF FailedRelease, Goto, WorkersInv, Memory
  <2> QED
    BY <1>5, <2>1, <2>2, <2>3, <2>4 DEF FaultStep
<1>6. CASE LockStep(w)
  <2>1. CASE End(w)
    BY <2>1 DEF End, Goto, WorkersInv
  <2>2. CASE EnterLane(w, LaneOrder[1])
    BY <1>6, <2>2 DEF LockStep, AcquireLock, RenewLock, ReleaseLock, EnterLane, NoMemory, WorkersInv
  <2>3. CASE Continue(w, "renew_lock") \/ Continue(w, "release_lock")
    BY <1>6, <2>3 DEF LockStep, AcquireLock, RenewLock, ReleaseLock
  <2> QED
    BY <1>6, <2>1, <2>2, <2>3 DEF LockStep, AcquireLock, RenewLock, ReleaseLock
<1>7. CASE StartHeartbeat(w) \/ \E l \in OneShotLanes : StartOneShot(w, l)
  BY <1>7 DEF StartHeartbeat, StartOneShot, NoMemory, WorkersInv
<1> QED
  BY <1>2, <1>3, <1>4, <1>5, <1>6, <1>7 DEF WorkerStep, Step

LEMMA ModeInvStep == TypeInv /\ ModeInv /\ [Next]_vars => ModeInv'
<1> SUFFICES ASSUME TypeInv, ModeInv, [Next]_vars PROVE ModeInv'
  OBVIOUS
<1>1. ASSUME NEW w \in Workers, WorkerStep(w) PROVE ModeInv'
  BY <1>1, ModeMoves, OthersStay DEF ModeInv
<1>2. CASE Environment
  BY <1>2, EnvironmentWorkers DEF ModeInv
<1>3. CASE UNCHANGED vars
  BY <1>3 DEF ModeInv, vars
<1> QED
  BY <1>1, <1>2, <1>3, LanesAssumption DEF Next, WorkerStep

\* A worker that still has the lease it was given.
HasLease(w, j) ==
    /\ jobs[j].owner = Owner(w) /\ jobs[j].grantee = w
    /\ jobs[j].lease = "live" /\ jobs[j].status # "absent"

IsOver(j) == jobs[j].status = "succeeded" /\ jobs[j].owner = Nobody

\* A job that waits, is worked, or may be written by a worker of its lane.
Live(j) ==
    \/ jobs[j].status \in Active
    \/ \E w \in Workers : Holds(w, j) /\ mine[w].lane = LaneOf(j) /\ jobs[j].owner = Owner(w)

LEMMA ForeignStep ==
    ASSUME TypeInv, NEW w \in Workers, WorkerStep(w), pc[w] = "release_foreign"
    PROVE  jobs' = jobs \/ Release(mine[w].job, Owner(w), "blocked")
<1>1. CASE LockStep(w) \/ PlanStep(w) \/ WorkStep(w)
  BY <1>1 DEF LockStep, AcquireLock, RenewLock, ReleaseLock, PlanStep, Guard, ReadSchedule, ReadJobs,
              InsertPlanned, WorkStep, MarkRunning, Collect, WriteSuccess, ReleaseSuccess, Advance,
              ReadAttempts, WriteFailure, ReleaseFailure
<1>2. CASE LeaseStep(w)
  BY <1>2 DEF LeaseStep, CountLeases, PickJob, CommitLease, ReleaseForeign
<1>3. CASE FaultStep(w) \/ StartHeartbeat(w) \/ \E l \in OneShotLanes : StartOneShot(w, l)
  BY <1>3 DEF FaultStep, Crash, FailAndThrow, FailUnnoticed, FailedRelease, StartHeartbeat, StartOneShot
<1> QED
  BY <1>1, <1>2, <1>3 DEF WorkerStep, Step

\* No row comes to life but one that is inserted.
LEMMA LiveStep ==
    ASSUME TypeInv, RowInv, PlanInv, [Next]_vars, "owner" \notin overlap', NEW j \in JobIds, Live(j)'
    PROVE  \/ Live(j)
           \/ /\ jobs'[j] # jobs[j]
              /\ \E w \in Workers : pc[w] = "insert_job" /\ mine[w].job = j
<1>1. ASSUME NEW w \in Workers, WorkerStep(w), Keeps(w), Touches(w), jobs'[j].status \in Active
      PROVE  \/ Live(j)
             \/ jobs'[j] # jobs[j] /\ pc[w] = "insert_job" /\ mine[w].job = j
  <2>1. CASE jobs'[j] = jobs[j]
    BY <1>1, <2>1 DEF Live
  <2>2. CASE jobs'[j] # jobs[j] /\ pc[w] = "insert_job" /\ InsertJob(mine[w].job, mine[w].at)
    BY <2>2 DEF InsertJob, TypeInv
  <2>3. CASE /\ jobs'[j] # jobs[j] /\ pc[w] \in HoldingSteps /\ jobs[mine[w].job].owner = Owner(w)
             /\ \E row : jobs' = [jobs EXCEPT ![mine[w].job] = row]
    <3>1. j = mine[w].job /\ Holds(w, j)
      BY <2>3 DEF Holds, TypeInv
    <3>2. CASE pc[w] \in OwnSteps
      BY <2>3, <3>1, <3>2 DEF Live, PlanInv
    <3>3. CASE pc[w] = "release_foreign"
      <4>1. jobs'[j].status = jobs[j].status \/ jobs'[j].status = "blocked"
        BY <1>1, <3>1, <3>3, ForeignStep, UpdatedStatus DEF TypeInv
      <4> QED
        BY <1>1, <4>1, StatusSets DEF Live, Ended
    <3> QED
      BY <2>3, <3>2, <3>3, PathSets
  <2> QED
    BY <1>1, <2>1, <2>2, <2>3 DEF Touches
<1>2. ASSUME NEW w \in Workers, WorkerStep(w), Keeps(w), Touches(w),
             NEW v \in Workers, Holds(v, j)', mine'[v].lane = LaneOf(j), jobs'[j].owner = Owner(v)'
      PROVE  Live(j)
  <2>1. Holds(v, j) /\ jobs[j].owner = Owner(v)
    BY <1>2, KeepsFence
  <2>2. mine[v].lane = LaneOf(j)
    BY <1>2 DEF Keeps, Holds
  <2> QED
    BY <2>1, <2>2 DEF Live
<1>3. ASSUME NEW w \in Workers, WorkerStep(w), jobs' = jobs, PickJob(w), Goto(w, "commit_lease")
      PROVE  Live(j)
  <2>1. CASE jobs'[j].status \in Active
    BY <1>3, <2>1 DEF Live
  <2>2. ASSUME NEW v \in Workers, Holds(v, j)', mine'[v].lane = LaneOf(j), jobs'[j].owner = Owner(v)'
        PROVE  Live(j)
    <3>1. v # w
      BY <1>3, <2>2 DEF Goto, Holds, HoldingSteps, TypeInv, WorkersInv
    <3>2. pc'[v] = pc[v] /\ mine'[v] = mine[v]
      BY <1>3, <3>1, OthersStay
    <3> QED
      BY <1>3, <2>2, <3>2 DEF Live, Holds, Owner
  <2> QED
    BY <2>1, <2>2 DEF Live
<1>4. ASSUME NEW w \in Workers, CommitLease(w) PROVE Live(j)
  <2>1. CASE j = mine[w].job
    BY <1>4, <2>1, CommitLane, StatusSets DEF RowInv, Live
  <2>2. CASE j # mine[w].job
    <3>1. jobs'[j] = jobs[j] /\ mine' = mine
      BY <1>4, <2>2, CommitFacts
    <3>2. \A v \in Workers : Holds(v, j)' => Holds(v, j)
      BY <1>4, <2>2, <3>1, CommitFacts DEF Holds
    <3> QED
      BY <3>1, <3>2 DEF Live, Owner
  <2> QED
    BY <2>1, <2>2
<1>5. CASE Environment
  <2>1. pc' = pc /\ mine' = mine /\ jobs[j] \in JobRow
    BY <1>5, EnvironmentWorkers DEF TypeInv
  <2>2. CASE jobs'[j] = jobs[j]
    BY <2>1, <2>2 DEF Live, Holds, Owner
  <2>3. CASE jobs[j].status \in Active
    BY <2>3 DEF Live
  <2>4. CASE jobs'[j] = [jobs[j] EXCEPT !.lease = "expired"]
    <3>1. jobs'[j].status = jobs[j].status /\ jobs'[j].owner = jobs[j].owner
      BY <2>1, <2>4 DEF JobRow
    <3> QED
      BY <2>1, <3>1 DEF Live, Holds, Owner
  <2> QED
    BY <1>5, <2>2, <2>3, <2>4, EnvironmentRow
<1>6. CASE UNCHANGED vars
  BY <1>6 DEF Live, Holds, Owner, vars
<1>7. CASE \E w \in Workers : WorkerStep(w)
  <2>1. PICK w \in Workers : WorkerStep(w)
    BY <1>7
  <2>2. CASE Keeps(w) /\ Touches(w)
    BY <1>1, <1>2, <2>1, <2>2 DEF Live
  <2> QED
    BY <1>3, <1>4, <2>1, <2>2, WorkerSteps DEF WorkerStep
<1> QED
  BY <1>5, <1>6, <1>7, LanesAssumption DEF Next, WorkerStep

\* A lease that is given is kept up to the release, as long as it does not run
\* out and the lane stays enabled.
LEMMA LeaseStays ==
    ASSUME TypeInv, RowInv, OwnerInv, PlanInv, [Next]_vars, overlap = {}, overlap' = {},
           NEW v \in Workers, pc[v] \in LeasedSteps, pc'[v] \in LeasedSteps,
           NEW j \in JobIds, mine[v].job = j, HasLease(v, j), schedules'[LaneOf(j)].enabled
    PROVE  mine'[v].job = j /\ HasLease(v, j)'
<1>0. /\ Holds(v, j) /\ jobs[j].grantee = v /\ jobs[j].lease = "live" /\ jobs[j] \in JobRow
      /\ pc[v] \in AfterReading /\ pc[v] # "commit_lease" /\ pc[v] # "read_schedule"
      /\ pc'[v] \in AfterReading \cap OwnSteps /\ pc'[v] # "read_jobs" /\ pc'[v] # "advance"
  BY PathSets DEF Holds, HasLease, TypeInv
<1>1. ASSUME mine'[v] = mine[v], jobs'[j] = jobs[j] PROVE mine'[v].job = j /\ HasLease(v, j)'
  BY <1>1 DEF HasLease, Owner
<1>2. ASSUME WorkerStep(v) PROVE mine'[v].job = j /\ HasLease(v, j)'
  <2>1. ~CommitLease(v) /\ Path(v)
    BY <1>0, <1>2, WorkerPath, CommitLane
  <2>2. mine'[v].lane = mine[v].lane /\ mine'[v].job = j
    BY <1>0, <2>1 DEF Path
  <2>3. \/ jobs' = jobs
        \/ \E status \in {"running", "succeeded"} : WriteStatus(j, Owner(v), status)
    BY <1>0, <2>1 DEF Path
  <2>4. /\ jobs'[j].owner = jobs[j].owner /\ jobs'[j].grantee = jobs[j].grantee
        /\ jobs'[j].lease = jobs[j].lease /\ jobs'[j].status \in {jobs[j].status, "running", "succeeded"}
    BY <1>0, <2>3 DEF WriteStatus, UpdateOwned, JobRow, TypeInv
  <2> QED
    BY <2>2, <2>4 DEF HasLease, Owner
<1>3. ASSUME NEW w \in Workers \ {v}, WorkerStep(w) PROVE mine'[v].job = j /\ HasLease(v, j)'
  <2>1. mine'[v] = mine[v]
    BY <1>3, OthersStay
  <2>2. jobs'[j] = jobs[j]
    <3>1. CASE Keeps(w) /\ Touches(w)
      <4>1. ~(Holds(w, j) /\ jobs[j].owner = Owner(w))
        BY <1>0 DEF OwnerInv
      <4> QED
        BY <3>1, <4>1, TouchedRow DEF HasLease
    <3>2. CASE CommitLease(w)
      <4>1. mine[w].job # j
        BY <1>0, <3>2, CommitLane DEF PlanInv
      <4> QED
        BY <3>2, <4>1, CommitFacts
    <3> QED
      BY <1>3, <3>1, <3>2, WorkerSteps DEF WorkerStep
  <2> QED
    BY <1>1, <2>1, <2>2
<1>4. CASE Environment
  <2>1. mine'[v] = mine[v]
    BY <1>4, EnvironmentWorkers
  <2>2. jobs'[j] = jobs[j]
    <3>1. CASE RecoverLeases
      BY <1>0, <3>1 DEF RecoverLeases, RecoverExpired
    <3>2. CASE \E l \in Lanes : Disable(l)
      <4>1. PICK l \in Lanes : Disable(l)
        BY <3>2
      <4>2. ~schedules'[l].enabled
        BY <4>1 DEF Disable, TypeInv, ControlInv
      <4> QED
        BY <4>1, <4>2 DEF Disable, CancelLane
    <3>3. ASSUME NEW k \in JobIds, ExpireLease(k) \/ OutliveLease(k) PROVE jobs'[j] = jobs[j]
      <4>1. ExpireLease(k)
        BY <3>3 DEF OutliveLease
      <4>2. k # j
        BY <1>0, <4>1 DEF ExpireLease, Works
      <4> QED
        BY <4>1, <4>2 DEF ExpireLease, LeaseRunsOut, TypeInv
    <3>4. CASE UNCHANGED jobs
      BY <3>4
    <3> QED
      BY <1>4, <3>1, <3>2, <3>3, <3>4 DEF Environment, Tick, ExpireLock, OutliveLock, EnableCheck, EnableWrite
  <2> QED
    BY <1>1, <2>1, <2>2
<1>5. CASE UNCHANGED vars
  BY <1>1, <1>5 DEF vars
<1> QED
  BY <1>2, <1>3, <1>4, <1>5, LanesAssumption DEF Next, WorkerStep

LEMMA OverStays ==
    ASSUME TypeInv, RowInv, [Next]_vars, NEW j \in JobIds, IsOver(j)
    PROVE  IsOver(j)'
BY ReleasedStep DEF IsOver, Ended

\* A heartbeat in an enabled lane works the slot the schedule stands at, with a
\* lease, and has it over when it moves the schedule.
Follows(w, l) ==
    /\ pc[w] \in AfterReading => mine[w].next = schedules[l].next
    /\ pc[w] \in LeasedSteps \cup {"advance"} => mine[w].job = <<l, "slot", mine[w].next>>
    /\ pc[w] \in LeasedSteps => HasLease(w, mine[w].job)
    /\ pc[w] = "advance" => IsOver(mine[w].job)

HeartbeatIn(w, l) == mine[w].mode = "heartbeat" /\ mine[w].lane = l

\* The slots passed are over, only the next one is live, and heartbeats follow.
LaneInv(l) ==
    /\ \A s \in era[l] .. (schedules[l].next - 1) : s \in 1 .. MaxClock /\ IsOver(<<l, "slot", s>>)
    /\ \A s \in 1 .. MaxClock : Live(<<l, "slot", s>>) => s = schedules[l].next
    /\ \A w \in Workers : HeartbeatIn(w, l) => Follows(w, l)

PassInv == overlap = {} => \A l \in Lanes : schedules[l].enabled => LaneInv(l)

LEMMA JobTuples ==
    /\ \A l \in Lanes, s \in 1 .. MaxClock : <<l, "slot", s>> \in JobIds
    /\ \A j \in JobIds : /\ j = <<j[1], j[2], j[3]>> /\ j[3] \in 1 .. MaxClock
                         /\ j[2] \in {"slot", "shot"} /\ LaneOf(j) = j[1]
BY DEF JobIds, LaneOf

\* Where an enabled lane stands after a step: it was enabled before, and its
\* schedule is where it was or was advanced, or it has just been enabled.
LEMMA EnabledLane ==
    ASSUME TypeInv, [Next]_vars, NEW l \in Lanes, schedules'[l].enabled
    PROVE  \/ EnableWrite(l)
           \/ /\ schedules[l].enabled
              /\ era'[l] = era[l]
              /\ \/ schedules'[l] = schedules[l]
                 \/ \E w \in Workers : Advance(w) /\ mine[w].lane = l
<1>1. ASSUME NEW w \in Workers, WorkerStep(w)
      PROVE  /\ schedules[l].enabled
             /\ era'[l] = era[l]
             /\ \/ schedules'[l] = schedules[l]
                \/ Advance(w) /\ mine[w].lane = l
  <2>1. CASE schedules' = schedules
    BY <1>1, <2>1, ScheduleMoves
  <2>2. CASE Advance(w)
    BY <1>1, <2>2, ScheduleMoves DEF Advance, TypeInv, ControlInv
  <2> QED
    BY <1>1, <2>1, <2>2, ScheduleMoves
<1>2. CASE Environment
  <2>1. CASE \E k \in Lanes : EnableWrite(k)
    BY <2>1 DEF EnableWrite, TypeInv, ControlInv, HistoryInv
  <2>2. CASE \E k \in Lanes : Disable(k)
    BY <2>2 DEF Disable, TypeInv, ControlInv, history
  <2>3. CASE schedules' = schedules /\ era' = era
    BY <2>3
  <2> QED
    BY <1>2, <2>1, <2>2, <2>3
    DEF Environment, Tick, ExpireLock, RecoverLeases, OutliveLock, ExpireLease, OutliveLease, EnableCheck,
        control, history
<1>3. CASE UNCHANGED vars
  BY <1>3 DEF vars, control, history
<1> QED
  BY <1>1, <1>2, <1>3, LanesAssumption DEF Next, WorkerStep

\* An enabled lane nobody is at work in.
LEMMA FreshLane ==
    ASSUME TypeInv, NEW l \in Lanes, EnableWrite(l), overlap' = {}
    PROVE  LaneInv(l)'
<1>1. ~Busy(l)
  BY DEF EnableWrite
<1>2. jobs' = jobs /\ pc' = pc /\ mine' = mine /\ era'[l] = clock + 1 /\ schedules'[l].next = clock + 1
  BY DEF EnableWrite, TypeInv, ControlInv, HistoryInv
<1>3. \A w \in Workers : mine'[w].lane # l
  BY <1>1, <1>2 DEF Busy
<1>4. \A s \in 1 .. MaxClock : ~Live(<<l, "slot", s>>)'
  <2>1. ASSUME NEW s \in 1 .. MaxClock PROVE ~Live(<<l, "slot", s>>)'
    <3>1. <<l, "slot", s>> \in JobIds /\ LaneOf(<<l, "slot", s>>) = l
      BY JobTuples DEF LaneOf
    <3> QED
      BY <1>1, <1>2, <1>3, <3>1 DEF Busy, Live
  <2> QED
    BY <2>1
<1>5. era'[l] .. (schedules'[l].next - 1) = {}
  BY <1>2 DEF TypeInv, ControlInv
<1> QED
  BY <1>3, <1>4, <1>5 DEF LaneInv, HeartbeatIn

AllInv == TypeInv /\ LockInv /\ RowInv /\ OwnerInv /\ PlanInv /\ ModeInv

\* While the schedule stands, no other slot comes to life.
LEMMA LiveSlots ==
    ASSUME AllInv, [Next]_vars, overlap' = {}, NEW l \in Lanes, LaneInv(l),
           NEW s \in 1 .. MaxClock, Live(<<l, "slot", s>>)'
    PROVE  s = schedules[l].next
<1> DEFINE j == <<l, "slot", s>>
<1>1. j \in JobIds
  BY JobTuples
<1>2. CASE Live(j)
  BY <1>2 DEF LaneInv
<1>3. ASSUME NEW w \in Workers, pc[w] = "insert_job", mine[w].job = j PROVE s = schedules[l].next
  <2>1. j = Planned(w)
    BY <1>3 DEF AllInv, PlanInv
  <2>2. mine[w].lane = l /\ mine[w].mode # "one_shot" /\ mine[w].next = s
    BY <2>1 DEF Planned
  <2>3. HeartbeatIn(w, l)
    BY <1>3, <2>2 DEF AllInv, ModeInv, HeartbeatIn
  <2>4. Follows(w, l)
    BY <2>3 DEF LaneInv
  <2> QED
    BY <1>3, <2>2, <2>4, PathSets DEF Follows
<1>4. "owner" \notin overlap'
  OBVIOUS
<1> HIDE DEF j
<1>5. Live(j) \/ \E w \in Workers : pc[w] = "insert_job" /\ mine[w].job = j
  BY <1>1, <1>4, LiveStep DEF AllInv, j
<1> QED
  BY <1>2, <1>3, <1>5

\* The heartbeat that makes the step follows.
LEMMA ActorFollows ==
    ASSUME AllInv, [Next]_vars, overlap = {}, overlap' = {}, NEW l \in Lanes, LaneInv(l),
           schedules'[l] = schedules[l], schedules[l].enabled,
           NEW w \in Workers, WorkerStep(w), HeartbeatIn(w, l)'
    PROVE  Follows(w, l)'
<1> USE PathSets
<1>0. Path(w)
  BY WorkerPath DEF AllInv
<1>1. CASE pc'[w] \notin AfterReading
  BY <1>1 DEF Follows
<1>2. CASE pc[w] = "read_schedule" /\ pc'[w] = "read_jobs"
  BY <1>0, <1>2 DEF Path, Follows, HeartbeatIn
<1>3. CASE pc[w] \in AfterReading /\ pc'[w] \in AfterReading /\ pc[w] # "read_schedule"
  <2>1. mine'[w].lane = mine[w].lane /\ mine'[w].mode = mine[w].mode /\ mine'[w].next = mine[w].next
    BY <1>0, <1>3 DEF Path
  <2>2. HeartbeatIn(w, l) /\ Follows(w, l)
    BY <2>1 DEF HeartbeatIn, LaneInv
  <2>3. mine'[w].next = schedules'[l].next
    BY <1>3, <2>1, <2>2 DEF Follows
  <2>4. CASE pc'[w] \notin LeasedSteps \cup {"advance"}
    BY <2>3, <2>4 DEF Follows
  <2>5. CASE pc[w] \in LeasedSteps /\ pc'[w] \in LeasedSteps
    <3> DEFINE j == mine[w].job
    <3>1. j = <<l, "slot", mine[w].next>> /\ HasLease(w, j) /\ j \in JobIds /\ LaneOf(j) = l
      <4>1. j \in JobIds
        BY <2>5 DEF AllInv, TypeInv, WorkersInv, JobSteps
      <4> QED
        BY <2>2, <2>5, <4>1 DEF Follows, LaneOf
    <3>2. mine'[w].job = j /\ HasLease(w, j)'
      BY <2>5, <3>1, LeaseStays DEF AllInv
    <3>3. HasLease(w, mine[w].job)'
      BY <3>2 DEF HasLease
    <3> QED
      BY <2>1, <2>3, <2>5, <3>1, <3>2, <3>3 DEF Follows
  <2>6. CASE pc[w] = "release_success" /\ pc'[w] = "advance"
    <3> DEFINE j == mine[w].job
    <3>1. j = <<l, "slot", mine[w].next>> /\ HasLease(w, j) /\ j \in JobIds
      BY <2>2, <2>6 DEF Follows, AllInv, TypeInv, WorkersInv, JobSteps
    <3>2. ~CommitLease(w) /\ mine'[w].job = j /\ Release(j, Owner(w), "succeeded")
      BY <1>0, <2>6, CommitLane DEF Path, AllInv
    <3>3. jobs'[j] = Unleased(jobs[j], "succeeded")
      BY <3>1, <3>2 DEF Release, UpdateOwned, HasLease, AllInv, TypeInv
    <3>4. jobs'[j].status = "succeeded" /\ jobs'[j].owner = Nobody
      BY <3>1, <3>3, UnleasedRow DEF AllInv, TypeInv
    <3>5. IsOver(mine[w].job)'
      BY <3>2, <3>4 DEF IsOver
    <3> QED
      BY <2>1, <2>3, <2>6, <3>1, <3>2, <3>5 DEF Follows
  <2>7. CASE CommitLease(w) /\ pc'[w] \in LeasedSteps
    <3> DEFINE j == mine[w].job
    <3>1. /\ pc[w] = "commit_lease" /\ pc'[w] = "mark_running" /\ LaneOf(j) = l
          /\ j \in JobIds /\ mine' = mine /\ jobs[j] \in JobRow
      BY <2>2, <2>7, CommitLane, CommitFacts DEF AllInv, HeartbeatIn, TypeInv
    <3>2. j[2] = "slot"
      <4>1. ~(mine[w].mode = "heartbeat" /\ j[2] = "shot")
        BY <2>7 DEF CommitLease
      <4> QED
        BY <2>2, <3>1, <4>1, JobTuples DEF HeartbeatIn
    <3>3. j = <<l, "slot", j[3]>> /\ j[3] \in 1 .. MaxClock
      BY <3>1, <3>2, JobTuples
    <3>4. Live(j)
      BY <3>1, StatusSets DEF AllInv, RowInv, Live
    <3>5. j[3] = mine[w].next
      BY <2>2, <3>1, <3>3, <3>4 DEF LaneInv, Follows
    <3>6. HasLease(w, mine[w].job)'
      <4>1. /\ jobs'[j] = [jobs[j] EXCEPT !.status = "leased", !.lease = "live",
                                          !.owner = Owner(w), !.grantee = w]
            /\ Owner(w)' = Owner(w)
        BY <2>7, CommitFacts DEF AllInv
      <4> QED
        BY <3>1, <4>1 DEF HasLease, JobRow
    <3> QED
      BY <2>3, <3>1, <3>3, <3>5, <3>6 DEF Follows
  <2>8. CommitLease(w) => pc'[w] # "advance"
    BY CommitLane DEF AllInv
  <2> QED
    BY <1>0, <1>3, <2>4, <2>5, <2>6, <2>7, <2>8 DEF Path
<1> QED
  BY <1>0, <1>1, <1>2, <1>3 DEF Path

\* So does every other one.
LEMMA OthersFollow ==
    ASSUME AllInv, [Next]_vars, overlap = {}, overlap' = {}, NEW l \in Lanes, LaneInv(l),
           schedules'[l] = schedules[l], schedules[l].enabled,
           NEW v \in Workers, pc'[v] = pc[v], mine'[v] = mine[v], HeartbeatIn(v, l)'
    PROVE  Follows(v, l)'
<1>1. Follows(v, l)
  BY DEF LaneInv, HeartbeatIn
<1>2. pc[v] \in LeasedSteps \cup {"advance"} => mine[v].job \in JobIds
  BY PathSets DEF AllInv, TypeInv, WorkersInv, JobSteps
<1>3. pc[v] \in LeasedSteps => HasLease(v, mine[v].job)'
  <2> SUFFICES ASSUME pc[v] \in LeasedSteps PROVE HasLease(v, mine[v].job)'
    OBVIOUS
  <2> DEFINE j == mine[v].job
  <2>1. j \in JobIds /\ HasLease(v, j) /\ LaneOf(j) = l
    BY <1>1, <1>2 DEF Follows, LaneOf
  <2>2. HasLease(v, j)'
    BY <2>1, LeaseStays DEF AllInv
  <2> QED
    BY <2>2
<1>4. pc[v] = "advance" => IsOver(mine[v].job)'
  <2> SUFFICES ASSUME pc[v] = "advance" PROVE IsOver(mine[v].job)'
    OBVIOUS
  <2> DEFINE j == mine[v].job
  <2>1. j \in JobIds /\ IsOver(j)
    BY <1>1, <1>2 DEF Follows
  <2>2. IsOver(j)'
    BY <2>1, OverStays DEF AllInv
  <2> QED
    BY <2>2
<1> QED
  BY <1>1, <1>3, <1>4 DEF Follows

\* A step that leaves the schedule of an enabled lane alone.
LEMMA StandingLane ==
    ASSUME AllInv, [Next]_vars, overlap = {}, overlap' = {}, NEW l \in Lanes, LaneInv(l),
           schedules'[l] = schedules[l], schedules[l].enabled, era'[l] = era[l]
    PROVE  LaneInv(l)'
<1>1. ASSUME NEW s \in era[l] .. (schedules[l].next - 1)
      PROVE  s \in 1 .. MaxClock /\ IsOver(<<l, "slot", s>>)'
  <2>1. s \in 1 .. MaxClock /\ IsOver(<<l, "slot", s>>)
    BY <1>1 DEF LaneInv
  <2>2. <<l, "slot", s>> \in JobIds
    BY <2>1, JobTuples
  <2> QED
    BY <2>1, <2>2, OverStays DEF AllInv
<1>2. ASSUME NEW s \in 1 .. MaxClock, Live(<<l, "slot", s>>)' PROVE s = schedules[l].next
  BY <1>2, LiveSlots
<1>3. ASSUME NEW v \in Workers, HeartbeatIn(v, l)' PROVE Follows(v, l)'
  <2>1. CASE pc'[v] = pc[v] /\ mine'[v] = mine[v]
    BY <1>3, <2>1, OthersFollow
  <2>2. ASSUME NEW w \in Workers, WorkerStep(w) PROVE Follows(v, l)'
    <3>1. CASE v = w
      BY <1>3, <2>2, <3>1, ActorFollows
    <3>2. CASE v # w
      BY <2>1, <2>2, <3>2, OthersStay DEF AllInv
    <3> QED
      BY <3>1, <3>2
  <2>3. CASE Environment
    BY <2>1, <2>3, EnvironmentWorkers
  <2>4. CASE UNCHANGED vars
    BY <2>1, <2>4 DEF vars
  <2> QED
    BY <2>2, <2>3, <2>4, LanesAssumption DEF Next, WorkerStep
<1> QED
  BY <1>1, <1>2, <1>3 DEF LaneInv

\* A heartbeat passes the slot it worked, which is over, and is the only one
\* past the reading of the schedule.
LEMMA AdvancedLane ==
    ASSUME AllInv, [Next]_vars, overlap = {}, overlap' = {}, NEW l \in Lanes, LaneInv(l),
           NEW w \in Workers, Advance(w), mine[w].lane = l, era'[l] = era[l]
    PROVE  LaneInv(l)'
<1> DEFINE next == mine[w].next
           j == <<l, "slot", next>>
<1>1. /\ pc[w] = "advance" /\ pc[w] \in AfterReading /\ jobs' = jobs /\ WorkerStep(w)
      /\ HeartbeatIn(w, l)
  BY PathSets DEF Advance, WorkerStep, Step, WorkStep, AllInv, PlanInv, HeartbeatIn
<1>2. Follows(w, l)
  BY <1>1 DEF LaneInv
<1>3. mine[w].job = j /\ IsOver(j) /\ schedules[l].next = next /\ next \in Nat
  BY <1>1, <1>2 DEF Follows, AllInv, TypeInv, ControlInv
<1>4. j \in JobIds /\ next \in 1 .. MaxClock
  <2>1. j \in JobIds
    BY <1>1, <1>3, PathSets DEF AllInv, TypeInv, WorkersInv, JobSteps
  <2> QED
    BY <2>1 DEF JobIds
<1>5. schedules'[l].next = next + 1
  BY DEF Advance, AllInv, TypeInv, ControlInv
<1>6. ASSUME NEW s \in era[l] .. next PROVE s \in 1 .. MaxClock /\ IsOver(<<l, "slot", s>>)'
  <2>1. s \in 1 .. MaxClock /\ IsOver(<<l, "slot", s>>)
    <3>1. CASE s = next
      BY <1>3, <1>4, <3>1
    <3>2. CASE s # next
      <4>1. era[l] \in Nat
        BY DEF AllInv, TypeInv, HistoryInv
      <4>2. s \in era[l] .. (schedules[l].next - 1)
        BY <1>3, <1>6, <3>2, <4>1
      <4> QED
        BY <4>2 DEF LaneInv
    <3> QED
      BY <3>1, <3>2
  <2> QED
    BY <1>1, <2>1 DEF IsOver
<1>7. ASSUME NEW s \in 1 .. MaxClock PROVE ~Live(<<l, "slot", s>>)'
  <2> SUFFICES ASSUME Live(<<l, "slot", s>>)' PROVE FALSE
    OBVIOUS
  <2>1. s = next
    BY <1>3, <1>7, LiveSlots
  <2>2. Live(j)
    <3>1. "owner" \notin overlap'
      OBVIOUS
    <3> QED
      BY <1>1, <1>4, <2>1, <3>1, LiveStep DEF AllInv
  <2>3. jobs[j].status \notin Active
    BY <1>3, StatusSets DEF IsOver, Ended, Active, Waiting, Leased
  <2>4. \A v \in Workers : pc[v] \in HoldingSteps => Owner(v) # Nobody
    BY OwnerIsOwner, JobsAssumption, HoldingFacts DEF AllInv, TypeInv
  <2> QED
    BY <1>3, <2>2, <2>3, <2>4 DEF IsOver, Live, Holds
<1>8. ASSUME NEW v \in Workers, HeartbeatIn(v, l)' PROVE Follows(v, l)'
  <2>1. pc'[v] \notin AfterReading
    <3>1. CASE v = w
      BY <3>1, LeavingPath DEF Advance, AllInv, TypeInv
    <3>2. CASE v # w
      <4>1. pc'[v] = pc[v] /\ mine'[v] = mine[v]
        BY <1>1, <3>2, OthersStay DEF AllInv
      <4>2. Inside(w)
        BY <1>1 DEF Inside, HeartbeatIn
      <4>3. ~Inside(v)
        <5>1. Inside(v) => lock = [token |-> v, state |-> "live"]
          BY DEF AllInv, LockInv
        <5>2. lock = [token |-> w, state |-> "live"]
          BY <4>2 DEF AllInv, LockInv
        <5> QED
          BY <3>2, <5>1, <5>2
      <4> QED
        BY <1>8, <4>1, <4>3 DEF Inside, HeartbeatIn, AfterReading, HoldingSteps
    <3> QED
      BY <3>1, <3>2
  <2> QED
    BY <2>1, PathSets DEF Follows
<1>9. era'[l] .. (schedules'[l].next - 1) = era[l] .. next
  BY <1>3, <1>5
<1> HIDE DEF next
<1> QED
  BY <1>6, <1>7, <1>8, <1>9 DEF LaneInv

LEMMA PassInvStep == AllInv /\ PassInv /\ [Next]_vars => PassInv'
<1> SUFFICES ASSUME AllInv, PassInv, [Next]_vars, overlap' = {},
                    NEW l \in Lanes, schedules'[l].enabled
             PROVE  LaneInv(l)'
  BY DEF PassInv
<1>1. CASE EnableWrite(l)
  BY <1>1, FreshLane DEF AllInv
<1>2. CASE ~EnableWrite(l)
  <2>1. overlap = {}
    <3>1. overlap \subseteq overlap'
      BY OverlapGrows, EnvironmentWorkers, LanesAssumption DEF Next, AllInv, vars, history
    <3> QED
      BY <3>1
  <2>2. /\ schedules[l].enabled
        /\ era'[l] = era[l]
        /\ \/ schedules'[l] = schedules[l]
           \/ \E w \in Workers : Advance(w) /\ mine[w].lane = l
    BY <1>2, EnabledLane DEF AllInv
  <2>3. LaneInv(l)
    BY <2>1, <2>2 DEF PassInv
  <2> QED
    BY <2>1, <2>2, <2>3, StandingLane, AdvancedLane
<1> QED
  BY <1>1, <1>2

LEMMA InitialLanes == Init => RowInv /\ LockInv /\ OwnerInv /\ PlanInv /\ ModeInv /\ PassInv
<1> SUFFICES ASSUME Init PROVE RowInv /\ LockInv /\ OwnerInv /\ PlanInv /\ ModeInv /\ PassInv
  OBVIOUS
<1>1. RowInv /\ LockInv /\ OwnerInv
  BY DEF Init, JobsInit, NoJobRow, RowInv, LockInv, OwnerInv, Inside, Holds, HoldingSteps
<1>2. PlanInv /\ ModeInv
  BY PathSets DEF Init, PlanInv, ModeInv
<1>3. ASSUME NEW l \in Lanes, schedules[l].enabled PROVE LaneInv(l)
  <2>1. era[l] = 1 /\ schedules[l].next = 1 /\ \A w \in Workers : mine[w].mode # "heartbeat"
    BY <1>3 DEF Init, NoMemory
  <2>2. \A j \in JobIds : ~Live(j)
    BY StatusSets DEF Init, JobsInit, NoJobRow, Live, Holds, HoldingSteps
  <2> QED
    BY <2>1, <2>2, JobTuples DEF LaneInv, HeartbeatIn
<1> QED
  BY <1>1, <1>2, <1>3 DEF PassInv

\* While leases outlast the work, a heartbeat that moves a schedule has the
\* slot's job behind it, released as succeeded: no slot is skipped, however
\* workers, one-shot calls, operators, crashes and failures come in between.
THEOREM PassedSlotsAreWorked == Spec => []PassedSlotsSucceeded
<1>1. AllInv /\ PassInv /\ [Next]_vars => AllInv' /\ PassInv'
  <2> SUFFICES ASSUME AllInv, PassInv, [Next]_vars PROVE AllInv' /\ PassInv'
    OBVIOUS
  <2>1. TypeInv' /\ LockInv' /\ RowInv' /\ OwnerInv' /\ PlanInv' /\ ModeInv'
    BY TypeStep, LockInvStep, RowInvStep, OwnerInvStep, PlanInvStep, ModeInvStep DEF AllInv
  <2> QED
    BY <2>1, PassInvStep DEF AllInv
<1>2. Init => AllInv /\ PassInv
  BY TypeInit, InitialLanes DEF AllInv
<1>3. AllInv /\ PassInv => PassedSlotsSucceeded
  <2> SUFFICES ASSUME PassInv, overlap = {}, NEW l \in Lanes, schedules[l].enabled,
                      NEW s \in era[l] .. (schedules[l].next - 1)
               PROVE  s <= MaxClock /\ jobs[<<l, "slot", s>>].status = "succeeded"
    BY DEF PassedSlotsSucceeded
  <2>1. s \in 1 .. MaxClock /\ IsOver(<<l, "slot", s>>)
    BY DEF PassInv, LaneInv
  <2> QED
    BY <2>1, JobsAssumption DEF IsOver
<1> QED
  BY <1>1, <1>2, <1>3, PTL DEF Spec

-------------------------------------------------------------------------------
\* What the cases that void these promises come from, and what holds for good
\* where they cannot come.

\* The job is given to a worker while another one of its owner holds it.
Late(w) == \E v \in Workers \ {w} : Holds(v, mine[w].job) /\ Owner(v) = Owner(w)

LEMMA OverlapMoves ==
    ASSUME [Next]_vars, NEW kind \in overlap' \ overlap
    PROVE  \/ kind = "lock" /\ OutliveLock
           \/ kind = "lease" /\ \E j \in JobIds : OutliveLease(j)
           \/ kind = "enable" /\ \E l \in Lanes : EnableWrite(l)
           \/ kind = "owner" /\ \E w \in Workers : CommitLease(w) /\ Late(w)
           \/ /\ kind = "shot"
              /\ \E w \in Workers : CommitLease(w) /\ mine[w].mode = "heartbeat" /\ mine[w].job[2] = "shot"
<1>1. ASSUME NEW w \in Workers, WorkerStep(w) PROVE overlap' = overlap \/ CommitLease(w)
  <2>1. CASE PlanStep(w) \/ LeaseStep(w) \/ LockStep(w)
    BY <2>1 DEF PlanStep, Guard, ReadSchedule, ReadJobs, InsertPlanned, LeaseStep, CountLeases, PickJob,
                ReleaseForeign, LockStep, AcquireLock, RenewLock, ReleaseLock, history
  <2>2. CASE WorkStep(w)
    BY <2>2 DEF WorkStep, MarkRunning, Collect, WriteSuccess, ReleaseSuccess, Advance, ReadAttempts,
                WriteFailure, ReleaseFailure, history
  <2>3. CASE FaultStep(w) \/ StartHeartbeat(w) \/ \E l \in OneShotLanes : StartOneShot(w, l)
    BY <2>3 DEF FaultStep, Crash, FailAndThrow, FailUnnoticed, FailedRelease, StartHeartbeat, StartOneShot,
                history
  <2> QED
    BY <1>1, <2>1, <2>2, <2>3 DEF WorkerStep, Step
<1>2. ASSUME NEW w \in Workers, CommitLease(w)
      PROVE  \/ kind = "owner" /\ Late(w)
             \/ kind = "shot" /\ mine[w].mode = "heartbeat" /\ mine[w].job[2] = "shot"
  BY <1>2 DEF CommitLease, Late
<1>3. CASE Environment
  <2>1. CASE OutliveLock
    BY <2>1 DEF OutliveLock
  <2>2. CASE \E j \in JobIds : ExpireLease(j) \/ OutliveLease(j)
    BY <2>2 DEF ExpireLease, OutliveLease, history
  <2>3. CASE \E l \in Lanes : EnableCheck(l) \/ EnableWrite(l) \/ Disable(l)
    BY <2>3 DEF EnableCheck, EnableWrite, Disable, history
  <2>4. CASE Tick \/ ExpireLock \/ RecoverLeases
    BY <2>4 DEF Tick, ExpireLock, RecoverLeases, history
  <2> QED
    BY <1>3, <2>1, <2>2, <2>3, <2>4 DEF Environment
<1>4. CASE UNCHANGED vars
  BY <1>4 DEF vars, history
<1>5. CASE \E w \in Workers : WorkerStep(w)
  BY <1>1, <1>2, <1>5
<1> QED
  BY <1>3, <1>4, <1>5, LanesAssumption DEF Next, WorkerStep

LEMMA AllInvHolds == Spec => []AllInv
<1>1. AllInv /\ [Next]_vars => AllInv'
  BY TypeStep, LockInvStep, RowInvStep, OwnerInvStep, PlanInvStep, ModeInvStep DEF AllInv
<1>2. Init => AllInv
  BY TypeInit, InitialLanes DEF AllInv
<1> QED
  BY <1>1, <1>2, PTL DEF Spec

\* This has not gone wrong with leases so far.
Spared(kind) == kind \notin overlap

LEMMA LockLasts ==
    ASSUME "slow_lock" \notin Faults
    PROVE  Spec => []Spared("lock")
<1>1. Init => Spared("lock")
  BY DEF Init, Spared
<1>2. Spared("lock") /\ [Next]_vars => Spared("lock")'
  BY OverlapMoves DEF Spared, OutliveLock, Fault
<1> QED
  BY <1>1, <1>2, PTL DEF Spec

\* As long as no heartbeat outlasts its lock, two of them are never in their
\* lanes together: crashes, failing statements and locks that run out after a
\* crash do not let a second one in.
THEOREM HeartbeatsNeverMeet ==
    ASSUME "slow_lock" \notin Faults
    PROVE  Spec => [](\A v, w \in Workers : InLanes(v) /\ InLanes(w) => v = w)
<1>1. HeartbeatsExclude /\ Spared("lock") => \A v, w \in Workers : InLanes(v) /\ InLanes(w) => v = w
  BY DEF HeartbeatsExclude, Spared
<1> QED
  BY <1>1, HeartbeatExclusion, LockLasts, PTL

\* The fence and the limit of attempts, without a condition.
Fenced ==
    /\ \A w \in Workers, j \in JobIds : Holds(w, j) /\ jobs[j].owner = Owner(w) => jobs[j].grantee = w
    /\ \A j \in JobIds : AttemptsLeft(j)

LEMMA FencedHolds == OwnerIsGrantee /\ AttemptsAreBounded /\ Spared("owner") => Fenced
BY DEF OwnerIsGrantee, AttemptsAreBounded, Spared, Fenced, AttemptsLeft

\* Where every invocation runs in a process of its own, the text "<lane>:<pid>"
\* names a lease as well as a token would: no late worker writes, and no job
\* gets more attempts than allowed, however slow, crashed or repeated they are.
THEOREM OwnProcessFence ==
    ASSUME \A v, w \in Workers : ProcessOf[v] = ProcessOf[w] => v = w
    PROVE  Spec => []Fenced
<1>1. Spared("owner") /\ [Next]_vars => Spared("owner")'
  <2>1. \A w \in Workers : ~Late(w)
    BY DEF Late, Owner
  <2> QED
    BY <2>1, OverlapMoves DEF Spared
<1>2. Init => Spared("owner")
  BY DEF Init, Spared
<1> QED
  BY <1>1, <1>2, FencedHolds, OwnerFence, AttemptLimit, PTL DEF Spec

-------------------------------------------------------------------------------
\* The cron alone: no one-shot call, and no heartbeat outlasts its lock.

OnlyHeartbeats == \A w \in Workers : pc[w] # "idle" => mine[w].mode = "heartbeat"

LEMMA OnlyHeartbeatsStep ==
    ASSUME Callers = {}
    PROVE  TypeInv /\ OnlyHeartbeats /\ [Next]_vars => OnlyHeartbeats'
<1> SUFFICES ASSUME TypeInv, OnlyHeartbeats, [Next]_vars PROVE OnlyHeartbeats'
  OBVIOUS
<1>1. ASSUME NEW w \in Workers, Step(w) \/ FaultStep(w) \/ StartHeartbeat(w) PROVE OnlyHeartbeats'
  <2>1. WorkerStep(w)
    BY <1>1 DEF WorkerStep
  <2>2. ASSUME NEW l \in OneShotLanes, StartOneShot(w, l) PROVE FALSE
    <3>1. pc[w] = "idle" /\ pc'[w] = "guard" /\ clock' # clock
      BY <2>2 DEF StartOneShot, Goto, TypeInv, WorkersInv, ControlInv
    <3>2. pc[w] # "idle" \/ pc'[w] = "acquire_lock"
      BY <1>1, <3>1 DEF Step, LockStep, AcquireLock, RenewLock, ReleaseLock, PlanStep, Guard, ReadSchedule,
         ReadJobs, InsertPlanned, LeaseStep, CountLeases, PickJob, CommitLease, ReleaseForeign, WorkStep,
         MarkRunning, Collect, WriteSuccess, ReleaseSuccess, Advance, ReadAttempts, WriteFailure,
         ReleaseFailure, FaultStep, Crash, FailAndThrow, ThrowingSteps, FailUnnoticed, NextAfterFailedWrite,
         FailedRelease, StartHeartbeat, Goto, TypeInv, WorkersInv
    <3> QED
      BY <3>1, <3>2
  <2> QED
    BY <2>1, <2>2, ModeMoves, OthersStay DEF OnlyHeartbeats
<1>2. CASE Environment
  BY <1>2, EnvironmentWorkers DEF OnlyHeartbeats
<1>3. CASE UNCHANGED vars
  BY <1>3 DEF OnlyHeartbeats, vars
<1> QED
  BY <1>1, <1>2, <1>3, LanesAssumption DEF Next

\* Whoever is past the acquisition of the lock has it, so that no worker is
\* left behind at a job that is given to another one.
CronInv == OnlyHeartbeats /\ "lock" \notin overlap /\ "owner" \notin overlap

LEMMA CronInvStep ==
    ASSUME Callers = {}, "slow_lock" \notin Faults
    PROVE  AllInv /\ CronInv /\ [Next]_vars => CronInv'
<1> SUFFICES ASSUME AllInv, CronInv, [Next]_vars PROVE CronInv'
  OBVIOUS
<1>1. OnlyHeartbeats'
  BY OnlyHeartbeatsStep DEF AllInv, CronInv
<1>2. "lock" \notin overlap'
  BY OverlapMoves DEF CronInv, OutliveLock, Fault
<1>3. ASSUME NEW w \in Workers, CommitLease(w), Late(w) PROVE FALSE
  <2>1. PICK v \in Workers \ {w} : Holds(v, mine[w].job)
    BY <1>3 DEF Late
  <2>2. Inside(v) /\ Inside(w)
    BY <1>3, <2>1 DEF CommitLease, Holds, HoldingSteps, Inside, CronInv, OnlyHeartbeats
  <2>3. lock = [token |-> v, state |-> "live"] /\ lock = [token |-> w, state |-> "live"]
    BY <2>2 DEF AllInv, LockInv, CronInv
  <2> QED
    BY <2>1, <2>3
<1>4. "owner" \notin overlap'
  BY <1>3, OverlapMoves DEF CronInv
<1> QED
  BY <1>1, <1>2, <1>4 DEF CronInv

LEMMA CronInvInit == Init => CronInv
BY DEF Init, CronInv, OnlyHeartbeats

\* With heartbeats alone, none of which outlasts its lock, the owner column is
\* a fence even though all of them run in one process: a job whose lease ran
\* out is not given away while its worker is still at it.
THEOREM CronFence ==
    ASSUME Callers = {}, "slow_lock" \notin Faults
    PROVE  Spec => []Fenced
<1>1. AllInv /\ CronInv /\ [Next]_vars => CronInv'
  BY CronInvStep
<1>2. CronInv => Spared("owner")
  BY DEF CronInv, Spared
<1> QED
  BY <1>1, <1>2, CronInvInit, AllInvHolds, FencedHolds, OwnerFence, AttemptLimit, PTL DEF Spec

\* Then, if no lane outlasts a lease and operators leave the schedules alone,
\* nothing is ever in the way of a slot.
ShotsAbsent == \A j \in JobIds : j[2] = "shot" => jobs[j] = NoJobRow

SchedulesStand ==
    /\ enabling = {}
    /\ \A l \in StartEnabled : era[l] = 1 /\ schedules[l].enabled

QuietInv == CronInv /\ ShotsAbsent /\ SchedulesStand /\ overlap = {}

LEMMA SchedulesStandStep ==
    ASSUME Operable = {}
    PROVE  TypeInv /\ SchedulesStand /\ [Next]_vars => SchedulesStand'
<1> SUFFICES ASSUME TypeInv, SchedulesStand, [Next]_vars PROVE SchedulesStand'
  OBVIOUS
<1>1. ASSUME NEW w \in Workers, WorkerStep(w) PROVE SchedulesStand'
  <2>1. enabling' = enabling
    <3>1. CASE PlanStep(w) \/ LeaseStep(w) \/ LockStep(w)
      BY <3>1 DEF PlanStep, Guard, ReadSchedule, ReadJobs, InsertPlanned, LeaseStep, CountLeases, PickJob,
                  CommitLease, ReleaseForeign, LockStep, AcquireLock, RenewLock, ReleaseLock, control
    <3>2. CASE WorkStep(w)
      BY <3>2 DEF WorkStep, MarkRunning, Collect, WriteSuccess, ReleaseSuccess, Advance, ReadAttempts,
                  WriteFailure, ReleaseFailure, control
    <3>3. CASE FaultStep(w) \/ StartHeartbeat(w) \/ \E l \in OneShotLanes : StartOneShot(w, l)
      BY <3>3 DEF FaultStep, Crash, FailAndThrow, FailUnnoticed, FailedRelease, StartHeartbeat, StartOneShot,
                  control
    <3> QED
      BY <1>1, <3>1, <3>2, <3>3 DEF WorkerStep, Step
  <2>2. era' = era /\ \A l \in Lanes : schedules'[l].enabled = schedules[l].enabled
    <3>1. era' = era /\ (schedules' = schedules \/ Advance(w))
      BY <1>1, ScheduleMoves
    <3>2. ASSUME Advance(w) PROVE \A l \in Lanes : schedules'[l].enabled = schedules[l].enabled
      <4>1. schedules' = [schedules EXCEPT ![mine[w].lane].next = mine[w].next + 1]
        BY <3>2 DEF Advance
      <4> QED
        BY <4>1 DEF TypeInv, ControlInv
    <3> QED
      BY <3>1, <3>2
  <2> QED
    BY <2>1, <2>2, LanesAssumption DEF SchedulesStand
<1>2. CASE Environment
  BY <1>2 DEF Environment, Tick, ExpireLock, RecoverLeases, OutliveLock, ExpireLease, OutliveLease,
       EnableCheck, EnableWrite, Disable, SchedulesStand, control, history
<1>3. CASE UNCHANGED vars
  BY <1>3 DEF SchedulesStand, vars, control, history
<1> QED
  BY <1>1, <1>2, <1>3, LanesAssumption DEF Next, WorkerStep

LEMMA ShotsAbsentStep ==
    AllInv /\ OnlyHeartbeats /\ ShotsAbsent /\ [Next]_vars => ShotsAbsent'
<1> SUFFICES ASSUME AllInv, OnlyHeartbeats, ShotsAbsent, [Next]_vars, NEW j \in JobIds, j[2] = "shot"
             PROVE  jobs'[j] = jobs[j]
  BY DEF ShotsAbsent
<1>1. /\ jobs[j].status = "absent" /\ jobs[j].owner = Nobody /\ jobs[j].lease = "none"
      /\ jobs \in [JobIds -> JobRow]
  BY DEF ShotsAbsent, NoJobRow, AllInv, TypeInv
<1>2. ASSUME NEW w \in Workers, WorkerStep(w) PROVE jobs'[j] = jobs[j]
  <2>1. CASE Keeps(w) /\ Touches(w)
    <3>1. CASE jobs' = jobs
      BY <3>1
    <3>2. CASE pc[w] = "insert_job" /\ InsertJob(mine[w].job, mine[w].at)
      <4>1. mine[w].job = <<mine[w].lane, "slot", mine[w].next>>
        BY <3>2 DEF AllInv, PlanInv, Planned, OnlyHeartbeats
      <4>2. mine[w].job # j
        BY <4>1
      <4> QED
        BY <1>1, <3>2, <4>2 DEF InsertJob
    <3>3. CASE /\ jobs[mine[w].job].owner = Owner(w) /\ pc[w] \in HoldingSteps
               /\ \E row : jobs' = [jobs EXCEPT ![mine[w].job] = row]
      <4>1. Owner(w) # Nobody
        BY <3>3, OwnerIsOwner, JobsAssumption, HoldingFacts DEF AllInv, TypeInv
      <4>2. mine[w].job # j
        BY <1>1, <3>3, <4>1
      <4> QED
        BY <1>1, <3>3, <4>2
    <3> QED
      BY <2>1, <3>1, <3>2, <3>3 DEF Touches
  <2>2. CASE jobs' = jobs
    BY <2>2
  <2>3. CASE CommitLease(w)
    <3>1. mine[w].job # j
      BY <1>1, <2>3, CommitLane, StatusSets DEF AllInv, RowInv
    <3> QED
      BY <2>3, <3>1, CommitFacts DEF AllInv
  <2> QED
    BY <1>2, <2>1, <2>2, <2>3, WorkerSteps DEF WorkerStep, AllInv
<1>3. CASE Environment
  BY <1>1, <1>3, EnvironmentRow, StatusSets DEF AllInv
<1>4. CASE UNCHANGED vars
  BY <1>4 DEF vars
<1> QED
  BY <1>2, <1>3, <1>4, LanesAssumption DEF Next, WorkerStep

LEMMA QuietInvStep ==
    ASSUME Callers = {}, Operable = {}, "slow_lock" \notin Faults, "slow_job" \notin Faults
    PROVE  AllInv /\ QuietInv /\ [Next]_vars => QuietInv'
<1> SUFFICES ASSUME AllInv, QuietInv, [Next]_vars PROVE QuietInv'
  OBVIOUS
<1>1. CronInv'
  BY CronInvStep DEF QuietInv
<1>2. ShotsAbsent'
  BY ShotsAbsentStep DEF QuietInv, CronInv
<1>3. SchedulesStand'
  BY SchedulesStandStep DEF QuietInv, AllInv
<1>4. overlap' = {}
  <2> SUFFICES ASSUME NEW kind \in overlap' PROVE FALSE
    OBVIOUS
  <2>1. kind \notin {"lock", "owner"}
    BY <1>1 DEF CronInv
  <2>2. ~\E j \in JobIds : OutliveLease(j)
    BY DEF OutliveLease, Fault
  <2>3. ~\E l \in Lanes : EnableWrite(l)
    BY DEF EnableWrite, QuietInv, SchedulesStand
  <2>4. ASSUME NEW w \in Workers, CommitLease(w) PROVE mine[w].job[2] # "shot"
    <3>1. mine[w].job \in JobIds /\ jobs[mine[w].job].status # "absent"
      BY <2>4, CommitFacts, CommitLane, StatusSets DEF AllInv, RowInv
    <3> QED
      BY <3>1 DEF QuietInv, ShotsAbsent, NoJobRow
  <2> QED
    BY <2>1, <2>2, <2>3, <2>4, OverlapMoves DEF QuietInv
<1> QED
  BY <1>1, <1>2, <1>3, <1>4 DEF QuietInv

\* Whatever crashes and fails, the cron skips no slot of a lane that is
\* enabled: every slot before the next one has succeeded, as long as lanes and
\* heartbeats keep to their leases and nobody else touches jobs or schedules.
THEOREM CronSkipsNoSlot ==
    ASSUME Callers = {}, Operable = {}, "slow_lock" \notin Faults, "slow_job" \notin Faults
    PROVE  Spec => [](\A l \in StartEnabled : \A s \in 1 .. (schedules[l].next - 1) :
                         s <= MaxClock /\ jobs[<<l, "slot", s>>].status = "succeeded")
<1>1. AllInv /\ QuietInv /\ [Next]_vars => QuietInv'
  BY QuietInvStep
<1>2. Init => QuietInv
  <2>1. Init => ShotsAbsent /\ overlap = {}
    BY DEF Init, JobsInit, ShotsAbsent
  <2>2. ASSUME Init PROVE SchedulesStand
    <3>1. \A l \in StartEnabled : schedules[l] = [enabled |-> l \in StartEnabled, next |-> 1]
      BY <2>2, LanesAssumption DEF Init
    <3>2. \A l \in StartEnabled : (l \in StartEnabled) = TRUE
      OBVIOUS
    <3>3. \A l \in StartEnabled : schedules[l] = [enabled |-> TRUE, next |-> 1]
      BY <3>1, <3>2, Zenon
    <3> QED
      BY <2>2, <3>3, LanesAssumption DEF Init, SchedulesStand
  <2> QED
    BY <2>1, <2>2, CronInvInit DEF QuietInv
<1>3. QuietInv /\ PassedSlotsSucceeded =>
         \A l \in StartEnabled : \A s \in 1 .. (schedules[l].next - 1) :
            s <= MaxClock /\ jobs[<<l, "slot", s>>].status = "succeeded"
  BY LanesAssumption DEF QuietInv, SchedulesStand, PassedSlotsSucceeded
<1> QED
  BY <1>1, <1>2, <1>3, AllInvHolds, PassedSlotsAreWorked, PTL DEF Spec

-------------------------------------------------------------------------------
\* The global cap, which the leasing function counts in one statement and fills
\* in another.

LEMMA FiniteJobs ==
    ASSUME IsFiniteSet(Lanes)
    PROVE  IsFiniteSet(JobIds)
<1> DEFINE pairs == Lanes \X {"slot", "shot"}
           nested == pairs \X (1 .. MaxClock)
           flat == [p \in nested |-> <<p[1][1], p[1][2], p[2]>>]
<1>1. IsFiniteSet({"slot", "shot"})
  <2>1. IsFiniteSet({"slot"})
    BY FS_Singleton
  <2>2. {"slot", "shot"} = {"slot"} \cup {"shot"}
    OBVIOUS
  <2> QED
    BY <2>1, <2>2, FS_AddElement
<1>2. IsFiniteSet(1 .. MaxClock)
  BY FS_Interval, JobsAssumption
<1>3. IsFiniteSet(pairs)
  BY <1>1, FS_Product
<1>4. IsFiniteSet(nested)
  BY <1>2, <1>3, FS_Product
<1>5. flat \in [nested -> JobIds]
  BY DEF JobIds
<1>6. ASSUME NEW j \in JobIds PROVE \E p \in nested : flat[p] = j
  <2>1. /\ <<<<j[1], j[2]>>, j[3]>> \in nested
        /\ j = <<j[1], j[2], j[3]>>
    BY DEF JobIds
  <2>2. flat[<<<<j[1], j[2]>>, j[3]>>] = <<j[1], j[2], j[3]>>
    BY <2>1
  <2> QED
    BY <2>1, <2>2
<1>7. flat \in Surjection(nested, JobIds)
  BY <1>5, <1>6 DEF Surjection
<1> HIDE DEF nested, flat
<1> QED
  BY <1>4, <1>7, FS_Surjection

LEMMA CapNotReached ==
    ASSUME IsFiniteSet(Lanes), ~GlobalCapReached
    PROVE  LiveLeases = {}
<1>1. IsFiniteSet(LiveLeases)
  BY FiniteJobs, FS_Subset DEF LiveLeases
<1>2. Cardinality(LiveLeases) \in Nat /\ ~(Cardinality(LiveLeases) >= 1)
  BY <1>1, FS_CardinalityType DEF GlobalCapReached, GlobalLimit
<1>3. Cardinality(LiveLeases) = 0
  BY <1>2
<1> QED
  BY <1>1, <1>3, FS_EmptySet

\* The worker in its lanes found no live lease when it counted, and the only
\* one there is while it holds a job is that job's.
CapInv ==
    /\ \A j, k \in LiveLeases : j = k
    /\ \A w \in Workers :
          /\ pc[w] \in {"pick_job", "commit_lease"} => LiveLeases = {}
          /\ pc[w] \in HoldingSteps => LiveLeases \subseteq {mine[w].job}

\* A worker gets to pick a job only past the count of live leases.
LEMMA CountedPath ==
    ASSUME IsFiniteSet(Lanes), TypeInv, NEW w \in Workers, WorkerStep(w), pc'[w] = "pick_job"
    PROVE  LiveLeases = {} /\ jobs' = jobs
<1> USE LeavingPath, ContinueLeaves, PathSets DEF TypeInv
<1>1. CASE CountLeases(w)
  BY <1>1, CapNotReached DEF CountLeases
<1>2. CASE PlanStep(w)
  BY <1>2 DEF PlanStep, Guard, ReadSchedule, ReadJobs, InsertPlanned, Goto, WorkersInv
<1>3. CASE PickJob(w) \/ CommitLease(w) \/ ReleaseForeign(w)
  BY <1>3 DEF PickJob, CommitLease, ReleaseForeign, Goto, WorkersInv
<1>4. CASE WorkStep(w)
  BY <1>4 DEF WorkStep, MarkRunning, Collect, WriteSuccess, ReleaseSuccess, Advance, ReadAttempts,
              DecideRetry, WriteFailure, ReleaseFailure, Goto, WorkersInv
<1>5. CASE FaultStep(w)
  BY <1>5 DEF FaultStep, Crash, FailAndThrow, FailUnnoticed, NextAfterFailedWrite, DecideRetry,
              FailedRelease, Goto, WorkersInv
<1>6. CASE LockStep(w) \/ StartHeartbeat(w) \/ \E l \in OneShotLanes : StartOneShot(w, l)
  <2>1. CASE AcquireLock(w)
    BY <2>1 DEF AcquireLock
  <2>2. CASE RenewLock(w)
    BY <2>2 DEF RenewLock, EnterLane, Goto, WorkersInv
  <2>3. CASE ReleaseLock(w)
    BY <2>3 DEF ReleaseLock
  <2>4. CASE StartHeartbeat(w)
    BY <2>4 DEF StartHeartbeat, Goto, WorkersInv
  <2>5. CASE \E l \in OneShotLanes : StartOneShot(w, l)
    BY <2>5 DEF StartOneShot, Goto, WorkersInv
  <2> QED
    BY <1>6, <2>1, <2>2, <2>3, <2>4, <2>5 DEF LockStep
<1> QED
  BY <1>1, <1>2, <1>3, <1>4, <1>5, <1>6 DEF WorkerStep, Step, LeaseStep

LEMMA CapInvStep ==
    ASSUME IsFiniteSet(Lanes)
    PROVE  AllInv /\ CronInv /\ CapInv /\ [Next]_vars => CapInv'
<1> SUFFICES ASSUME AllInv, CronInv, CapInv, [Next]_vars PROVE CapInv'
  OBVIOUS
<1> USE DEF AllInv
<1>1. LiveLeases \subseteq JobIds /\ LiveLeases' \subseteq JobIds
  BY DEF LiveLeases
<1>2. ASSUME NEW w \in Workers, WorkerStep(w) PROVE CapInv'
  <2>1. ASSUME NEW v \in Workers \ {w}, pc'[v] \in {"pick_job", "commit_lease"} \cup HoldingSteps,
               pc[w] \notin {"idle", "acquire_lock"}
        PROVE  FALSE
    <3>1. Inside(v) /\ Inside(w)
      BY <1>2, <2>1, OthersStay DEF HoldingSteps, Inside, CronInv, OnlyHeartbeats
    <3>2. lock = [token |-> v, state |-> "live"] /\ lock = [token |-> w, state |-> "live"]
      BY <3>1 DEF LockInv, CronInv
    <3> QED
      BY <2>1, <3>2
  <2>2. CASE CommitLease(w)
    <3>1. pc[w] = "commit_lease" /\ pc'[w] \in HoldingSteps /\ mine' = mine /\ LiveLeases = {}
      BY <2>2, CommitFacts, CommitLane DEF CapInv
    <3>2. LiveLeases' \subseteq {mine[w].job}
      <4> SUFFICES ASSUME NEW j \in LiveLeases', j # mine[w].job PROVE FALSE
        OBVIOUS
      <4>1. jobs'[j] = jobs[j]
        BY <1>1, <2>2, CommitFacts
      <4>2. j \in LiveLeases
        BY <4>1 DEF LiveLeases
      <4> QED
        BY <3>1, <4>2
    <3>3. \A v \in Workers \ {w} : pc'[v] \notin {"pick_job", "commit_lease"} \cup HoldingSteps
      BY <2>1, <3>1
    <3>4. pc'[w] \notin {"pick_job", "commit_lease"}
      BY <2>2, CommitLane
    <3> QED
      BY <3>1, <3>2, <3>3, <3>4 DEF CapInv
  <2>3. CASE ~CommitLease(w)
    <3>1. ASSUME NEW j \in LiveLeases' PROVE j \in LiveLeases \/ (Keeps(w) /\ Holds(w, j))
      <4>1. \/ jobs'[j] = jobs[j]
            \/ Keeps(w) /\ Holds(w, j)
            \/ jobs'[j].lease = "none"
        BY <1>1, <1>2, <2>3, TouchedRow, WorkerSteps DEF WorkerStep
      <4>2. jobs'[j].status \in Leased /\ jobs'[j].lease = "live"
        BY DEF LiveLeases
      <4> QED
        BY <1>1, <4>1, <4>2 DEF LiveLeases
    <3>2. CASE LiveLeases' \subseteq LiveLeases
      <4>1. \A j, k \in LiveLeases' : j = k
        BY <3>2 DEF CapInv
      <4>2. ASSUME NEW v \in Workers \ {w}
            PROVE  /\ pc'[v] \in {"pick_job", "commit_lease"} => LiveLeases' = {}
                   /\ pc'[v] \in HoldingSteps => LiveLeases' \subseteq {mine'[v].job}
        <5>1. pc'[v] = pc[v] /\ mine'[v] = mine[v]
          BY <1>2, OthersStay
        <5> QED
          BY <3>2, <5>1 DEF CapInv
      <4>3. pc'[w] \in {"pick_job", "commit_lease"} => LiveLeases' = {}
        <5>1. CASE pc'[w] = "pick_job"
          BY <1>2, <3>2, <5>1, CountedPath
        <5>2. CASE pc'[w] = "commit_lease"
          <6>1. PickJob(w)
            BY <1>2, <2>3, <5>2, WorkerSteps DEF WorkerStep, Keeps
          <6> QED
            BY <3>2, <6>1 DEF PickJob, CapInv
        <5> QED
          BY <5>1, <5>2
      <4>4. pc'[w] \in HoldingSteps => LiveLeases' \subseteq {mine'[w].job}
        <5>1. ASSUME pc'[w] \in HoldingSteps PROVE pc[w] \in HoldingSteps /\ mine'[w].job = mine[w].job
          <6>1. pc'[w] # "commit_lease"
            BY <5>1 DEF HoldingSteps
          <6> QED
            BY <1>2, <2>3, <5>1, <6>1, WorkerSteps DEF WorkerStep, Keeps, Goto, TypeInv, WorkersInv
        <5> QED
          BY <3>2, <5>1 DEF CapInv
      <4> QED
        BY <4>1, <4>2, <4>3, <4>4 DEF CapInv
    <3>3. CASE ~(LiveLeases' \subseteq LiveLeases)
      <4>1. Keeps(w) /\ pc[w] \in HoldingSteps
        BY <3>1, <3>3 DEF Holds
      <4>2. LiveLeases' \subseteq {mine[w].job}
        BY <3>1, <4>1 DEF Holds, CapInv
      <4>3. \A v \in Workers \ {w} : pc'[v] \notin {"pick_job", "commit_lease"} \cup HoldingSteps
        BY <2>1, <4>1 DEF HoldingSteps
      <4>4. pc'[w] \notin {"pick_job", "commit_lease"}
        <5>1. pc'[w] = "pick_job" => jobs' = jobs
          BY <1>2, CountedPath
        <5> QED
          BY <3>3, <4>1, <5>1 DEF Keeps, LiveLeases
      <4>5. pc'[w] \in HoldingSteps => mine'[w].job = mine[w].job
        BY <4>1 DEF Keeps
      <4> QED
        BY <4>2, <4>3, <4>4, <4>5 DEF CapInv
    <3> QED
      BY <3>2, <3>3
  <2> QED
    BY <2>2, <2>3
<1>3. CASE Environment
  <2>1. LiveLeases' \subseteq LiveLeases
    <3> SUFFICES ASSUME NEW j \in LiveLeases' PROVE j \in LiveLeases
      OBVIOUS
    <3>1. j \in JobIds /\ jobs'[j].status \in Leased /\ jobs'[j].lease = "live" /\ jobs[j] \in JobRow
      BY <1>1 DEF LiveLeases, TypeInv
    <3>2. CASE \E status \in {"retry_wait", "cancelled"} : jobs'[j] = Unleased(jobs[j], status)
      BY <3>1, <3>2, UnleasedRow
    <3>3. CASE jobs'[j] = [jobs[j] EXCEPT !.lease = "expired"]
      BY <3>1, <3>3 DEF JobRow
    <3>4. CASE jobs'[j] = jobs[j]
      BY <3>1, <3>4 DEF LiveLeases
    <3> QED
      BY <1>3, <3>1, <3>2, <3>3, <3>4, EnvironmentRow
  <2> QED
    BY <1>3, <2>1, EnvironmentWorkers DEF CapInv
<1>4. CASE UNCHANGED vars
  BY <1>4 DEF CapInv, LiveLeases, vars
<1> QED
  BY <1>2, <1>3, <1>4, LanesAssumption DEF Next, WorkerStep

\* Heartbeats alone keep the global cap of one live lease, although it is
\* counted in one statement and filled in a later one, and although a crashed
\* worker's lease stays live: the lock lets nobody in between the two.
THEOREM CronKeepsTheCap ==
    ASSUME IsFiniteSet(Lanes), Callers = {}, "slow_lock" \notin Faults
    PROVE  Spec => [](\A j, k \in LiveLeases : j = k)
<1>1. AllInv /\ CronInv /\ CapInv /\ [Next]_vars => CronInv' /\ CapInv'
  BY CronInvStep, CapInvStep
<1>2. Init => CapInv
  BY StatusSets DEF Init, JobsInit, NoJobRow, CapInv, LiveLeases, Leased, HoldingSteps
<1>3. CapInv => \A j, k \in LiveLeases : j = k
  BY DEF CapInv
<1> QED
  BY <1>1, <1>2, <1>3, CronInvInit, AllInvHolds, PTL DEF Spec

-------------------------------------------------------------------------------
\* The lease columns are set and cleared together.
LeaseColumns(j) ==
    /\ jobs[j].owner # Nobody <=> jobs[j].lease # "none"
    /\ jobs[j].status \in Leased => jobs[j].lease # "none"

\* Where a step of a worker that keeps its job writes a row.
LEMMA RowOfTouches ==
    ASSUME TypeInv, NEW w \in Workers, Touches(w), NEW j \in JobIds
    PROVE  \/ jobs'[j] = jobs[j]
           \/ pc[w] = "insert_job" /\ InsertJob(mine[w].job, mine[w].at)
           \/ Holds(w, j) /\ jobs[j].owner = Owner(w) /\ Writes(w, jobs'[j])
BY DEF Touches, Holds, TypeInv

LEMMA LeaseColumnsStep ==
    ASSUME TypeInv, [Next]_vars, NEW j \in JobIds, LeaseColumns(j)
    PROVE  LeaseColumns(j)'
<1>0. jobs[j] \in JobRow
  BY DEF TypeInv
<1>1. ASSUME NEW row, NEW status, row = Unleased(jobs[j], status), status \notin Leased
      PROVE  row.owner = Nobody /\ row.lease = "none" /\ row.status \notin Leased
  BY <1>0, <1>1, UnleasedRow
<1>2. ASSUME NEW w \in Workers, WorkerStep(w)
      PROVE  LeaseColumns(j)'
  <2>1. CASE Keeps(w) /\ Touches(w)
    <3>1. CASE jobs'[j] = jobs[j]
      BY <3>1 DEF LeaseColumns
    <3>2. CASE pc[w] = "insert_job" /\ InsertJob(mine[w].job, mine[w].at)
      <4>1. jobs'[j] # jobs[j] => jobs'[j] = [NoJobRow EXCEPT !.status = "queued", !.runAfter = mine[w].at]
        BY <3>2 DEF InsertJob, TypeInv
      <4>2. CASE jobs'[j] = [NoJobRow EXCEPT !.status = "queued", !.runAfter = mine[w].at]
        BY <4>2 DEF NoJobRow, LeaseColumns, Leased
      <4> QED
        BY <3>1, <4>1, <4>2
    <3>3. CASE Holds(w, j) /\ jobs[j].owner = Owner(w) /\ Writes(w, jobs'[j])
      <4>1. jobs[j].owner # Nobody /\ mine[w].job = j
        BY <3>3, OwnerIsOwner, JobsAssumption, HoldingFacts DEF Holds, TypeInv
      <4>2. mine[w].status \notin Leased /\ {"blocked", "succeeded"} \cap Leased = {}
        BY DEF TypeInv, WorkersInv, Memory, Leased
      <4>3. CASE jobs'[j].owner = jobs[j].owner /\ jobs'[j].lease = jobs[j].lease
        BY <4>1, <4>3 DEF LeaseColumns
      <4>4. CASE \E status : status \notin Leased /\ jobs'[j] = Unleased(jobs[j], status)
        BY <1>1, <4>4 DEF LeaseColumns
      <4>5. \/ \E status : status \notin Leased /\ jobs'[j] = Unleased(jobs[j], status)
            \/ jobs'[j].owner = jobs[j].owner /\ jobs'[j].lease = jobs[j].lease
        BY <1>0, <3>3, <4>1, <4>2 DEF Writes, JobRow
      <4> QED
        BY <4>3, <4>4, <4>5
    <3> QED
      BY <2>1, <3>1, <3>2, <3>3, RowOfTouches
  <2>2. CASE jobs' = jobs
    BY <2>2 DEF LeaseColumns
  <2>3. CASE CommitLease(w)
    <3>1. CASE j = mine[w].job
      <4>1. /\ jobs'[j] = [jobs[j] EXCEPT !.status = "leased", !.lease = "live",
                                          !.owner = Owner(w), !.grantee = w]
            /\ Owner(w) # Nobody
        BY <2>3, <3>1, CommitFacts, JobsAssumption
      <4> QED
        BY <1>0, <4>1 DEF JobRow, LeaseColumns
    <3>2. CASE j # mine[w].job
      BY <2>3, <3>2, CommitFacts DEF LeaseColumns
    <3> QED
      BY <3>1, <3>2
  <2> QED
    BY <1>2, <2>1, <2>2, <2>3, WorkerSteps DEF WorkerStep
<1>3. CASE Environment
  <2>1. CASE jobs'[j] = jobs[j]
    BY <2>1 DEF LeaseColumns
  <2>2. CASE \E status \in {"retry_wait", "cancelled"} : jobs'[j] = Unleased(jobs[j], status)
    <3>1. {"retry_wait", "cancelled"} \cap Leased = {}
      BY DEF Leased
    <3> QED
      BY <1>1, <2>2, <3>1 DEF LeaseColumns
  <2>3. CASE jobs[j].lease = "live" /\ jobs'[j] = [jobs[j] EXCEPT !.lease = "expired"]
    BY <1>0, <2>3 DEF JobRow, LeaseColumns
  <2> QED
    BY <1>3, <2>1, <2>2, <2>3, EnvironmentRow
<1>4. CASE UNCHANGED vars
  BY <1>4 DEF LeaseColumns, vars
<1> QED
  BY <1>2, <1>3, <1>4, LanesAssumption DEF Next, WorkerStep

\* A job that shows a lease can be recovered: no late write, no crash and no
\* failing statement leaves a leased or running job without a lease that runs
\* out, which neither the recovery nor the leasing function would ever pick.
THEOREM LeasedJobsAreRecoverable == Spec => []LeasedIsRecoverable
<1> DEFINE Columns == \A j \in JobIds : LeaseColumns(j)
<1>1. Init => Columns
  BY StatusSets DEF Init, JobsInit, NoJobRow, LeaseColumns, Leased
<1>2. TypeInv /\ Columns /\ [Next]_vars => Columns'
  BY LeaseColumnsStep
<1>3. Columns => LeasedIsRecoverable
  BY DEF LeaseColumns, LeasedIsRecoverable
<1> HIDE DEF Columns
<1> QED
  BY <1>1, <1>2, <1>3, TypesHold, PTL DEF Spec

-------------------------------------------------------------------------------
\* Jobs in the hands of workers.

\* The job was leased to this worker, and the lease is not over.
Leases(w, j) ==
    jobs[j].grantee = w /\ jobs[j].lease = "live" /\ jobs[j].status # "absent"

Released(j) == jobs[j].status \in Ended /\ jobs[j].owner = Nobody

\* Whoever holds a job leases it, or it ended and was released under its hands,
\* and nobody else holds it.
HandInv ==
    "lease" \notin overlap =>
        \A w \in Workers, j \in JobIds : Holds(w, j) =>
            /\ Leases(w, j) \/ Released(j)
            /\ \A v \in Workers : Holds(v, j) => v = w

\* A worker that writes under the fence keeps its lease, or gives it up and
\* either lets the job go or has ended it.
LEMMA WritingHand ==
    ASSUME TypeInv, NEW w \in Workers, WorkerStep(w), NEW j \in JobIds, Holds(w, j), Holds(w, j)',
           Leases(w, j), Writes(w, jobs'[j])
    PROVE  Leases(w, j)' \/ Released(j)'
<1>0. jobs[j] \in JobRow /\ mine[w].job = j
  BY DEF TypeInv, Holds
<1>1. CASE pc[w] \notin FailureSteps /\ \E status \in {"running", "succeeded"} :
              jobs'[j] = [jobs[j] EXCEPT !.status = status]
  BY <1>0, <1>1 DEF Leases, JobRow
<1>2. CASE /\ pc[w] = "write_failure"
           /\ jobs'[j] = [jobs[j] EXCEPT !.status = mine[w].status, !.attempts = mine[w].attempts]
  <2>1. mine[w].status # "absent"
    BY <1>2 DEF TypeInv, WorkersInv
  <2> QED
    BY <1>0, <1>2, <2>1 DEF Leases, JobRow
<1>3. CASE \E status \in {"blocked", "succeeded"} : jobs'[j] = Unleased(jobs[j], status)
  BY <1>0, <1>3, UnleasedRow DEF Released, Ended
<1>4. CASE pc[w] = "release_failure"
  <2>1. FailureMoves(w)
    BY AllFailureMoves DEF WorkerStep
  <2>2. pc'[w] \notin HoldingSteps
    BY <1>4, <2>1 DEF FailureMoves, FailureSteps
  <2> QED
    BY <2>2 DEF Holds
<1> QED
  BY <1>0, <1>1, <1>2, <1>3, <1>4 DEF Writes

\* A step of the surroundings takes a lease from its holder only by ending the
\* job, as long as the lease does not run out under him.
LEMMA SurroundedHand ==
    ASSUME TypeInv, Environment, "lease" \notin overlap', NEW w \in Workers, NEW j \in JobIds,
           Holds(w, j), Leases(w, j)
    PROVE  Leases(w, j)' \/ Released(j)'
<1>0. jobs[j] \in JobRow /\ jobs[j].lease = "live" /\ jobs[j].grantee = w
  BY DEF TypeInv, Leases
<1>1. CASE RecoverLeases
  <2>1. jobs'[j] = jobs[j]
    BY <1>0, <1>1 DEF RecoverLeases, RecoverExpired
  <2> QED
    BY <2>1 DEF Leases
<1>2. ASSUME NEW l \in Lanes, Disable(l) PROVE Leases(w, j)' \/ Released(j)'
  <2>1. jobs'[j] = jobs[j] \/ jobs'[j] = Unleased(jobs[j], "cancelled")
    BY <1>2 DEF Disable, CancelLane
  <2>2. CASE jobs'[j] = Unleased(jobs[j], "cancelled")
    BY <1>0, <2>2, UnleasedRow DEF Released, Ended
  <2> QED
    BY <2>1, <2>2 DEF Leases
<1>3. ASSUME NEW k \in JobIds, ExpireLease(k) \/ OutliveLease(k) PROVE Leases(w, j)' \/ Released(j)'
  <2>1. ExpireLease(k)
    BY <1>3 DEF OutliveLease
  <2>2. k # j
    BY <1>0, <2>1 DEF ExpireLease, Works
  <2>3. jobs'[j] = jobs[j]
    BY <2>1, <2>2 DEF ExpireLease, LeaseRunsOut, TypeInv
  <2> QED
    BY <2>3 DEF Leases
<1>4. CASE UNCHANGED jobs
  BY <1>4 DEF Leases
<1> QED
  BY <1>1, <1>2, <1>3, <1>4 DEF Environment, Tick, ExpireLock, OutliveLock, EnableCheck, EnableWrite

LEMMA HandInvStep == TypeInv /\ RowInv /\ PlanInv /\ HandInv /\ [Next]_vars => HandInv'
<1> SUFFICES ASSUME TypeInv, RowInv, PlanInv, HandInv, [Next]_vars, "lease" \notin overlap',
                    NEW w \in Workers, NEW j \in JobIds, Holds(w, j)'
             PROVE  /\ Leases(w, j)' \/ Released(j)'
                    /\ \A v \in Workers : Holds(v, j)' => v = w
  BY DEF HandInv
<1>1. ASSUME NEW u \in Workers, Holds(u, j), "lease" \notin overlap
      PROVE  /\ Leases(u, j) \/ Released(j)
             /\ \A v \in Workers : Holds(v, j) => v = u
  BY <1>1 DEF HandInv
<1>2. Released(j) => Released(j)'
  BY ReleasedStep DEF Released
<1>3. ASSUME NEW x \in Workers, WorkerStep(x), Keeps(x), Touches(x)
      PROVE  /\ Leases(w, j)' \/ Released(j)'
             /\ \A v \in Workers : Holds(v, j)' => v = w
  <2>1. "lease" \notin overlap
    BY <1>3, OverlapGrows DEF WorkerStep
  <2>2. \A v \in Workers : Holds(v, j)' => Holds(v, j)
    BY <1>3 DEF Keeps, Holds
  <2>3. \A v \in Workers : Holds(v, j) => v = w
    BY <1>1, <2>1, <2>2
  <2>4. ASSUME Leases(w, j) PROVE Leases(w, j)' \/ Released(j)'
    <3>1. CASE jobs'[j] = jobs[j]
      BY <2>4, <3>1 DEF Leases
    <3>2. CASE Holds(x, j) /\ Writes(x, jobs'[j])
      <4>1. x = w
        BY <2>3, <3>2
      <4>2. Holds(w, j) /\ WorkerStep(w) /\ Writes(w, jobs'[j])
        BY <1>3, <3>2, <4>1
      <4> QED
        BY <2>4, <4>2, WritingHand
    <3>3. jobs[j].status # "absent"
      BY <2>4 DEF Leases
    <3> QED
      BY <1>3, <3>1, <3>2, <3>3, TouchedRow
  <2>5. Leases(w, j) \/ Released(j)
    BY <1>1, <2>1, <2>2
  <2> QED
    BY <1>2, <2>2, <2>3, <2>4, <2>5
<1>4. ASSUME NEW x \in Workers, WorkerStep(x), PickJob(x), Goto(x, "commit_lease"), jobs' = jobs
      PROVE  /\ Leases(w, j)' \/ Released(j)'
             /\ \A v \in Workers : Holds(v, j)' => v = w
  <2>1. "lease" \notin overlap
    BY <1>4, OverlapGrows DEF WorkerStep
  <2>2. ASSUME NEW v \in Workers, Holds(v, j)' PROVE Holds(v, j)
    <3>1. v # x
      BY <1>4, <2>2 DEF Goto, Holds, HoldingSteps, TypeInv, WorkersInv
    <3>2. pc'[v] = pc[v] /\ mine'[v] = mine[v]
      BY <1>4, <3>1, OthersStay
    <3> QED
      BY <2>2, <3>2 DEF Holds
  <2> QED
    BY <1>1, <1>4, <2>1, <2>2 DEF Leases, Released
<1>5. ASSUME NEW x \in Workers, CommitLease(x)
      PROVE  /\ Leases(w, j)' \/ Released(j)'
             /\ \A v \in Workers : Holds(v, j)' => v = w
  <2>1. "lease" \notin overlap
    BY <1>5, OverlapGrows DEF Step, LeaseStep
  <2>2. mine' = mine /\ \A v \in Workers \ {x} : Holds(v, j)' => Holds(v, j)
    BY <1>5, CommitFacts DEF Holds
  <2>3. CASE j = mine[x].job
    <3>1. jobs[j].status \in Waiting /\ jobs[j].lease # "live"
      BY <1>5, <2>3 DEF CommitLease, RowInv, PlanInv
    <3>2. \A v \in Workers : ~Holds(v, j)
      BY <1>1, <2>1, <3>1, StatusSets DEF Leases, Released
    <3>3. \A v \in Workers : Holds(v, j)' => v = x
      BY <2>2, <3>2
    <3>4. jobs'[j] = [jobs[j] EXCEPT !.status = "leased", !.lease = "live",
                                     !.owner = Owner(x), !.grantee = x]
      BY <1>5, <2>3, CommitFacts
    <3>5. Leases(x, j)'
      BY <3>4 DEF Leases, TypeInv, JobRow
    <3> QED
      BY <3>3, <3>5
  <2>4. CASE j # mine[x].job
    <3>1. jobs'[j] = jobs[j]
      BY <1>5, <2>4, CommitFacts
    <3>2. \A v \in Workers : Holds(v, j)' => Holds(v, j)
      BY <2>2, <2>4 DEF Holds
    <3> QED
      BY <1>1, <2>1, <3>1, <3>2 DEF Leases, Released
  <2> QED
    BY <2>3, <2>4
<1>6. CASE Environment
  <2>1. "lease" \notin overlap /\ \A v \in Workers : Holds(v, j)' <=> Holds(v, j)
    BY <1>6, EnvironmentWorkers DEF Holds
  <2> QED
    BY <1>1, <1>2, <1>6, <2>1, SurroundedHand
<1>7. CASE UNCHANGED vars
  BY <1>1, <1>7 DEF vars, history, Leases, Released, Holds
<1>8. CASE \E x \in Workers : WorkerStep(x)
  BY <1>3, <1>4, <1>5, <1>8, WorkerSteps DEF WorkerStep
<1> QED
  BY <1>6, <1>7, <1>8, LanesAssumption DEF Next, WorkerStep

\* No job is in the hands of two workers until a lease runs out under its
\* holder, although a lane counts leases in one statement and picks its row in
\* another, one-shot calls take no lock, and a job is written as waiting or as
\* ended before its lease is released (lease_external_collection_job_v1 and the
\* lanes' catch blocks).
THEOREM JobsHaveOneHand == Spec => []JobInOneHand
<1>1. Init => HandInv
  BY DEF Init, HandInv, Holds, HoldingSteps
<1>2. TypeInv /\ RowInv /\ PlanInv /\ HandInv /\ [Next]_vars => HandInv'
  BY HandInvStep
<1>3. AllInv => TypeInv /\ RowInv /\ PlanInv
  BY DEF AllInv
<1>4. HandInv => JobInOneHand
  BY DEF HandInv, JobInOneHand
<1> QED
  BY <1>1, <1>2, <1>3, <1>4, AllInvHolds, PTL DEF Spec

===============================================================================
