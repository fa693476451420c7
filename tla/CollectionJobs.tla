----------------------------- MODULE CollectionJobs -----------------------------
(***************************************************************************)
(* The table external_collection_jobs_v1 and the statements made on it:    *)
(* the leasing functions of the B2 migration, the UPDATEs of the lanes,    *)
(* and the retry policy that decides what follows a failed attempt.        *)
(*                                                                         *)
(* A lease is named by its owner, the text "<lane>:<pid>", and by nothing  *)
(* else: there is no token and no epoch.  That a lease runs out is a step  *)
(* of time, so a lease is "live", "expired" or "none" rather than a date.  *)
(***************************************************************************)
EXTENDS Naturals, FiniteSets

CONSTANTS
    Lanes,          \* the source lanes and the probe lane, each with its own schedule
    Processes,      \* operating-system processes (process.pid)
    Workers,        \* invocations that lease and work jobs
    Nobody,         \* the owner, or the grantee, of a job that nobody leases
    MaxClock,       \* bound: instants at which something can be planned
    MaxAttempts     \* maximum_attempts of every schedule

Owners == Lanes \X Processes

\* A job is identified by its schedule, the instant it is planned for, and
\* whether the schedule or a one-shot call planned it: a one-shot call plans
\* for the millisecond it arrives in, which no schedule's slot falls on.
JobIds == Lanes \X {"slot", "shot"} \X (1 .. MaxClock)

LaneOf(j) == j[1]

ASSUME JobsAssumption ==
    /\ Nobody \notin Owners \cup Workers
    /\ MaxClock \in Nat \ {0}
    /\ MaxAttempts \in Nat \ {0}

-------------------------------------------------------------------------------
VARIABLE jobs

Waiting == {"queued", "retry_wait"}
Leased == {"leased", "running"}
Active == Waiting \cup Leased
Ended == {"succeeded", "failed", "blocked", "cancelled"}

\* grantee is no column: it remembers which worker the lease was given to.
JobRow == [status : {"absent"} \cup Active \cup Ended, attempts : Nat, runAfter : Nat,
           owner : Owners \cup {Nobody}, lease : {"none", "live", "expired"},
           grantee : Workers \cup {Nobody}]

NoJobRow == [status |-> "absent", attempts |-> 0, runAfter |-> 0,
             owner |-> Nobody, lease |-> "none", grantee |-> Nobody]

JobsInit == jobs = [j \in JobIds |-> NoJobRow]

\* INSERT under unique(schedule_id, planned_for, input_fingerprint); a
\* duplicate is an error the lanes ignore.
InsertJob(j, now) ==
    jobs' = IF jobs[j].status = "absent"
            THEN [jobs EXCEPT ![j] = [NoJobRow EXCEPT !.status = "queued", !.runAfter = now]]
            ELSE jobs

\* What counts towards the caps.
LiveLeases == {j \in JobIds : jobs[j].status \in Leased /\ jobs[j].lease = "live"}

GlobalLimit == 1
KeyLimit == 1

GlobalCapReached == Cardinality(LiveLeases) >= GlobalLimit

\* Each lane's schedule has a concurrency key of its own.
KeyCapReached(j) == Cardinality({k \in LiveLeases : LaneOf(k) = LaneOf(j)}) >= KeyLimit

\* The rows the leasing function may pick, of which it takes the one with the
\* earliest run_after.  Neither next_retry_at nor attempt_count matters.
Eligible(skipped) ==
    {j \in JobIds \ skipped : jobs[j].status \in Waiting /\ jobs[j].lease # "live"}

Earliest(S) == {j \in S : \A k \in S : jobs[j].runAfter <= jobs[k].runAfter}

Lease(j, owner, worker) ==
    jobs' = [jobs EXCEPT ![j] = [@ EXCEPT !.status = "leased", !.lease = "live",
                                          !.owner = owner, !.grantee = worker]]

\* Variant the runs must reject: an UPDATE by job_id alone.
UpdateAnyone(j, owner, row) ==
    jobs' = [jobs EXCEPT ![j] = row]

\* UPDATE ... WHERE job_id = j AND lease_owner = owner.  The lanes never look
\* at how many rows it matched, nor at the expiry of the lease.
UpdateOwned(j, owner, row) ==
    jobs' = IF jobs[j].owner = owner THEN [jobs EXCEPT ![j] = row] ELSE jobs

WriteStatus(j, owner, status) ==
    UpdateOwned(j, owner, [jobs[j] EXCEPT !.status = status])

WriteFailedAttempt(j, owner, status, attempts) ==
    UpdateOwned(j, owner, [jobs[j] EXCEPT !.status = status, !.attempts = attempts])

Unleased(row, status) ==
    [row EXCEPT !.status = status, !.lease = "none", !.owner = Nobody, !.grantee = Nobody]

Release(j, owner, status) ==
    UpdateOwned(j, owner, Unleased(jobs[j], status))

\* Variant the runs must reject: the owner column is not cleared.
RecoverStatusOnly ==
    jobs' = [j \in JobIds |->
        IF jobs[j].status \in Leased /\ jobs[j].lease = "expired"
        THEN [jobs[j] EXCEPT !.status = "retry_wait", !.lease = "none", !.grantee = Nobody]
        ELSE jobs[j]]

\* Variant the runs must reject: a lease whose holder never got to mark the
\* job as running is not recovered.
RecoverRunning ==
    jobs' = [j \in JobIds |->
        IF jobs[j].status = "running" /\ jobs[j].lease = "expired"
        THEN Unleased(jobs[j], "retry_wait") ELSE jobs[j]]

\* A lease that was lost does not count as an attempt.
RecoverExpired ==
    jobs' = [j \in JobIds |->
        IF jobs[j].status \in Leased /\ jobs[j].lease = "expired"
        THEN Unleased(jobs[j], "retry_wait") ELSE jobs[j]]

\* The first half of the disable functions.
CancelLane(l) ==
    jobs' = [j \in JobIds |->
        IF LaneOf(j) = l /\ jobs[j].status \in Active THEN Unleased(jobs[j], "cancelled") ELSE jobs[j]]

LeaseRunsOut(j) ==
    /\ jobs[j].lease = "live"
    /\ jobs' = [jobs EXCEPT ![j].lease = "expired"]

-------------------------------------------------------------------------------
\* Variant the runs must reject: one attempt too many.
RetryOneTooMany(class, attempts) ==
    IF class = "retryable" /\ attempts <= MaxAttempts THEN "retry_wait" ELSE "failed"

\* nextJobStateAfterFailure.  No lane produces an error code of a blocking
\* class, and an unknown code is a permanent one.
NextStatusAfterFailure(class, attempts) ==
    IF class = "retryable" /\ attempts < MaxAttempts THEN "retry_wait" ELSE "failed"

===============================================================================
