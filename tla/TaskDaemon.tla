------------------------------ MODULE TaskDaemon ------------------------------
(***************************************************************************)
(* The production daemon of orchestration V4: a host that polls GitHub for *)
(* tasks and runs each in a child process under a capacity slot            *)
(* (scripts/orchestration-v4/production/, runner/ and state-store/).       *)
(*                                                                         *)
(* The host is one JavaScript thread.  An action is the synchronous code   *)
(* between two awaits; where a crash between two writes of such a section  *)
(* leaves something behind, the section is split in two, and thread keeps  *)
(* everybody else out until it is over.  Up to Cardinality(Polls) polls    *)
(* are under way at once.  The awaits of a poll up to its claims are on    *)
(* calls that do not wait, so that the polls interleave there with each    *)
(* other but with nothing that comes from outside; the runners are resumed *)
(* from outside.                                                           *)
(***************************************************************************)
EXTENDS TaskStates, Naturals, FiniteSets, Functions

CONSTANTS
    Tasks,              \* task contracts on GitHub
    Slots,              \* capacity slots of the workers
    Polls,              \* the polls that may be under way at once
    Nobody,             \* no slot, no poll, nobody on the thread
    Upstream,           \* task -> the tasks its contract depends on
    MaxAttempts,        \* task -> max_attempts of its contract
    EvidenceOnly,       \* tasks that change no code: there is nothing to publish
    Verifiers,          \* those of them that a deterministic verifier runs
    Conflicting,        \* pairs of tasks that own common files
    Late,               \* tasks whose issues are not ready at the start
    Withdrawable,       \* tasks whose issues may lose the ready label
    TaskLimit,          \* tasks that the delivery selection holds at most
    MaxCrashes          \* bound: how often the host dies

ASSUME DaemonAssumption ==
    /\ Nobody \notin Tasks \cup Slots \cup Polls
    /\ Tasks \cap Polls = {}
    /\ Upstream \in [Tasks -> SUBSET Tasks]
    /\ MaxAttempts \in [Tasks -> Nat \ {0}]
    /\ EvidenceOnly \subseteq Tasks
    /\ Verifiers \subseteq EvidenceOnly
    /\ Conflicting \subseteq SUBSET Tasks
    /\ Late \subseteq Tasks
    /\ Withdrawable \subseteq Tasks \ Late
    /\ Slots \subseteq Nat
    /\ TaskLimit \in Nat \ {0}
    /\ MaxCrashes \in Nat

-------------------------------------------------------------------------------
VARIABLES
    up,             \* the host process is alive
    thread,         \* whose synchronous section is under way, or Nobody
    ready,          \* the tasks whose issues GitHub shows as ready
    task,           \* the table of tasks
    edges,          \* task_dependencies: pairs of a task and its upstream
    poll,           \* each poll: its step, the tasks it has in hand, its jobs
    runner,         \* runV4Task of each task: its step, and the poll that awaits it
    children,       \* tasks with a process this host has started and not seen end
    delivery,       \* the change of each task: "none", "merged", "deployed"
    crashes,        \* how often the host died
    torn            \* history: tasks the host died over before their edges were written

store == <<task, edges>>
outside == <<ready, delivery, crashes, torn>>
vars == <<up, thread, store, poll, runner, children, outside>>

NoTask == [state |-> Absent, slot |-> Nobody, attempt |-> 0, corrections |-> 0, result |-> "none"]
IdlePoll == [step |-> "idle", work |-> {}, jobs |-> {}]
NoRunner == [step |-> "none", poll |-> Nobody]

Init ==
    /\ up = TRUE
    /\ thread = Nobody
    /\ ready = Tasks \ Late
    /\ task = [t \in Tasks |-> NoTask]
    /\ edges = {}
    /\ poll = [p \in Polls |-> IdlePoll]
    /\ runner = [t \in Tasks |-> NoRunner]
    /\ children = {}
    /\ delivery = [t \in Tasks |-> "none"]
    /\ crashes = 0
    /\ torn = {}

-------------------------------------------------------------------------------
\* The table of tasks.

In(t, states) == task[t].state \in states

ActiveTasks == {t \in Tasks : In(t, Active)}

Occupied == {task[t].slot : t \in ActiveTasks}

\* A task that ends: its row keeps no slot.
Ended(row, to) == [row EXCEPT !.state = to, !.slot = Nobody]

\* listRunnableTasks, and the same condition of the continuity policy
Runnable(t) == In(t, {"READY"}) /\ \A e \in edges : e[1] = t => In(e[2], {"COMPLETE"})

-------------------------------------------------------------------------------
\* A poll: intake, reconciliation, decision, claims.

Step(p, step, work, jobs) == poll' = [poll EXCEPT ![p] = [step |-> step, work |-> work, jobs |-> jobs]]

\* Every issue that is shown ready and has no row gets one.
New == {t \in ready : In(t, {Absent})}

Import(p) ==
    /\ up /\ thread = Nobody
    /\ poll[p].step = "idle" /\ New # {}
    /\ task' = [t \in Tasks |-> IF t \in New THEN [task[t] EXCEPT !.state = "READY"] ELSE task[t]]
    /\ Step(p, "edges", New, {})
    /\ thread' = p
    /\ UNCHANGED <<up, edges, runner, children, outside>>

\* Variant the runs must reject: a row whose upstream has none keeps waiting.
RecordEdgesOnly(p) ==
    LET known(t) == {u \in Upstream[t] : ~In(u, {Absent})} IN
    /\ thread = p /\ poll[p].step = "edges"
    /\ edges' = edges \cup UNION {{t} \X known(t) : t \in poll[p].work}
    /\ Step(p, "decide", {}, {})
    /\ UNCHANGED <<up, thread, task, runner, children, outside>>

\* The edges of the new rows; a row whose upstream has none is blocked.
RecordEdges(p) ==
    LET known(t) == {u \in Upstream[t] : ~In(u, {Absent})} IN
    /\ thread = p /\ poll[p].step = "edges"
    /\ edges' = edges \cup UNION {{t} \X known(t) : t \in poll[p].work}
    /\ task' = [t \in Tasks |->
          IF t \in poll[p].work /\ known(t) # Upstream[t]
          THEN [task[t] EXCEPT !.state = "BLOCKED"] ELSE task[t]]
    /\ Step(p, "decide", {}, {})
    /\ UNCHANGED <<up, thread, runner, children, outside>>

\* Tasks that wait, of issues that are no longer ready.
Withdrawn == {t \in Tasks \ ready : In(t, {"READY"})}


\* Tasks that wait for one that failed, or that is withdrawn just now.
Stranded ==
    LET failed == Withdrawn \cup {t \in Tasks : In(t, Failing)} IN
    {t \in Tasks : In(t, {"READY"}) /\ \E u \in failed : <<t, u>> \in edges}

\* Variant the runs must reject: the policy grants no second attempt.
ExhaustedAlways(t) == In(t, Active)

\* An active task the policy does not grant another attempt.
Exhausted(t) ==
    /\ In(t, Active)
    /\ task[t].attempt >= MaxAttempts[t] \/ task[t].corrections >= MaxAttempts[t]

\* The delivery selection asks for no edges: its places go to tasks that wait
\* for others too.  Their order and the limits of a slice may leave out any task.
Selections(waiting) ==
    {selected \in SUBSET {t \in waiting : In(t, {"READY"})} : Cardinality(selected) <= TaskLimit}

\* Variant the runs must reject: files are compared with active tasks alone.
ClaimsBesideActive(waiting) ==
    LET compatible(t) == \A u \in ActiveTasks : {t, u} \notin Conflicting
    IN {claims \in SUBSET {t \in waiting : Runnable(t) /\ compatible(t)} :
          Cardinality(claims) <= Cardinality(Slots \ Occupied)}

\* The claims of the continuity policy: within the slots, and apart from the
\* files of the active tasks and of each other.  Its order, streams, slices and
\* base revisions may leave out any task.
Claims(waiting) ==
    LET compatible(t, others) == \A u \in others : {t, u} \notin Conflicting
    IN {claims \in SUBSET {t \in waiting : Runnable(t) /\ compatible(t, ActiveTasks)} :
          /\ Cardinality(claims) <= Cardinality(Slots \ Occupied)
          /\ \A t \in claims : compatible(t, claims)}

\* A poll goes on with the claims that are also selected.
Choices(waiting) ==
    {claims \cap selected : claims \in Claims(waiting), selected \in Selections(waiting)}

\* The poll blocks what waits in vain, and the policy decides on one snapshot.
\* A worker counts as stalled when the time since its last progress says so,
\* and as dead when its process is not found, which is also so while the
\* change of its task is being published: any set of exhausted tasks may be
\* ended.  A poll that has nothing to import starts here.
Decide(p) ==
    /\ \/ thread = p /\ poll[p].step = "decide"
       \/ up /\ thread = Nobody /\ poll[p].step = "idle" /\ New = {}
    /\ \E replanned \in SUBSET {t \in Tasks : Exhausted(t)} :
          task' = [t \in Tasks |->
              IF t \in Withdrawn \cup Stranded \cup replanned THEN Ended(task[t], "BLOCKED") ELSE task[t]]
    /\ \E chosen \in Choices(Tasks \ (Withdrawn \cup Stranded)) : Step(p, "start", chosen, {})
    /\ thread' = Nobody
    /\ UNCHANGED <<up, edges, runner, children, outside>>

\* After the await of the label mirror: slots for the chosen tasks, from the
\* slots that are occupied by now.  The states of the tasks are not read again.
Start(p) ==
    LET free == Slots \ Occupied IN
    /\ up /\ thread = Nobody
    /\ poll[p].step = "start"
    /\ \E started \in SUBSET poll[p].work :
       \E slotOf \in [started -> free] :
          /\ \A t, u \in started : slotOf[t] = slotOf[u] => t = u
          /\ \A t \in started, s \in free \ Range(slotOf) : slotOf[t] < s
          /\ started = poll[p].work \/ Cardinality(started) = Cardinality(free)
          /\ Step(p, "wait", {}, {<<t, slotOf[t]>> : t \in started})
    /\ UNCHANGED <<up, thread, store, runner, children, outside>>

\* The command of a chosen task cannot be made: the poll throws, and none of
\* its tasks is started.
PollFails(p) ==
    /\ up /\ thread = Nobody
    /\ poll[p].step = "start" /\ poll[p].work # {}
    /\ poll' = [poll EXCEPT ![p] = IdlePoll]
    /\ UNCHANGED <<up, thread, store, runner, children, outside>>

\* Variant the runs must reject: neither the claim nor the unique index on live
\* slots (sqlite-store.mjs:39) looks at the slot again.
ClaimAnySlot(p, t, s) ==
    /\ up /\ thread = Nobody
    /\ <<t, s>> \in poll[p].jobs
    /\ Step(p, "wait", {}, poll[p].jobs \ {<<t, s>>})
    /\ IF In(t, {"READY"})
       THEN /\ task' = [task EXCEPT ![t].state = "CLAIMED", ![t].slot = s, ![t].attempt = @ + 1]
            /\ runner' = [runner EXCEPT ![t] = [step |-> "claimed", poll |-> p]]
            /\ thread' = t
       ELSE UNCHANGED <<task, runner, thread>>
    /\ UNCHANGED <<up, edges, children, outside>>

\* A job of the poll: runV4Task reads the task and claims it, or throws.
Claim(p, t, s) ==
    LET granted == In(t, {"READY"}) /\ s \notin Occupied IN
    /\ up /\ thread = Nobody
    /\ <<t, s>> \in poll[p].jobs
    /\ Step(p, "wait", {}, poll[p].jobs \ {<<t, s>>})
    /\ IF granted
       THEN /\ task' = [task EXCEPT ![t].state = "CLAIMED", ![t].slot = s, ![t].attempt = @ + 1]
            /\ runner' = [runner EXCEPT ![t] = [step |-> "claimed", poll |-> p]]
            /\ thread' = t
       ELSE UNCHANGED <<task, runner, thread>>
    /\ UNCHANGED <<up, edges, children, outside>>

\* Every job is settled.
EndPoll(p) ==
    /\ up /\ thread = Nobody
    /\ poll[p].step = "wait" /\ poll[p].jobs = {}
    /\ \A t \in Tasks : runner[t].poll # p
    /\ poll' = [poll EXCEPT ![p] = IdlePoll]
    /\ UNCHANGED <<up, thread, store, runner, children, outside>>

-------------------------------------------------------------------------------
\* A runner: workspace and process, corrections, publication.

RunnerAt(t, step) == runner[t].step = step

\* Nothing is left to run: an event from outside may be handled.
Quiet ==
    /\ up /\ thread = Nobody
    /\ \A p \in Polls : poll[p].step # "start" /\ poll[p].jobs = {}

Resume(t, step) == runner' = [runner EXCEPT ![t].step = step]

\* Variant the runs must reject: the state is written whatever it is by now.
SettleAnyway(t, from, to, result) ==
    /\ task' = [task EXCEPT ![t] = [Ended(@, to) EXCEPT !.result = result]]
    /\ runner' = [runner EXCEPT ![t] = [step |-> "over", poll |-> Nobody]]

\* The runner is over: its last transition is made if the task still is in
\* the state from, and its result is written in any case.
Settle(t, from, to, result) ==
    LET row == [task[t] EXCEPT !.result = result] IN
    /\ task' = [task EXCEPT ![t] = IF In(t, from) THEN Ended(row, to) ELSE row]
    /\ runner' = [runner EXCEPT ![t] = [step |-> "over", poll |-> Nobody]]

\* The catch block: whatever was thrown, an active task fails.
Throw(t, result) == Settle(t, {"CLAIMED", "RUNNING", "VALIDATING"}, "FAILED", result)

\* Variant the runs must reject: a state the table does not have.
LaunchStarted(t) ==
    /\ thread = t /\ RunnerAt(t, "claimed")
    /\ task' = [task EXCEPT ![t].state = "STARTED"]
    /\ children' = children \cup {t}
    /\ Resume(t, "executing")
    /\ thread' = Nobody
    /\ UNCHANGED <<up, edges, poll, outside>>

\* The workspace is made, the task is RUNNING, its process is spawned and
\* recorded; any of these may throw.
Launch(t) ==
    /\ thread = t /\ RunnerAt(t, "claimed")
    /\ \/ /\ task' = [task EXCEPT ![t].state = "RUNNING"]
          /\ children' = children \cup {t}
          /\ Resume(t, "executing")
       \/ /\ Throw(t, "error")
          /\ UNCHANGED children
    /\ thread' = Nobody
    /\ UNCHANGED <<up, edges, poll, outside>>

\* The process of a task ends, by itself or by the timers of the runner.
Exits(t) ==
    /\ Quiet
    /\ RunnerAt(t, "executing")
    /\ t \in children
    /\ UNCHANGED <<up, thread, edges, poll, outside>>

ExitsWell(t) ==
    /\ Exits(t)
    /\ children' = children \ {t}
    /\ IF In(t, {"RUNNING"})
       THEN /\ task' = [task EXCEPT ![t].state = "VALIDATING"]
            /\ Resume(t, "publishing")
       ELSE Throw(t, "error")

\* A deterministic verifier is not corrected.
VerifierFails(t) ==
    /\ t \in Verifiers
    /\ Exits(t)
    /\ children' = children \ {t}
    /\ \E to \in Failing : Settle(t, {"RUNNING"}, to, "error")

\* correctionAttemptLimit: a task of one attempt has one correction.
CorrectionLimit(t) == IF MaxAttempts[t] = 1 THEN 2 ELSE MaxAttempts[t]

\* A failed attempt is counted, whatever became of the task meanwhile.  Below
\* the limit it is tried again, with the one exception that under a limit of
\* two the first attempt must have failed in the format of its patch; the
\* deadline of the task may leave no time for that.  The new process is spawned
\* before its identity is recorded, which is refused for a task that is not
\* RUNNING.
AttemptFails(t) ==
    LET attempt == task[t].corrections + 1
        row == [task[t] EXCEPT !.corrections = attempt]
        over == runner' = [runner EXCEPT ![t] = [step |-> "over", poll |-> Nobody]]
        ends(to) ==
            /\ children' = children \ {t}
            /\ task' = [task EXCEPT ![t] =
                  [IF In(t, {"RUNNING"}) THEN Ended(row, to) ELSE row EXCEPT !.result = "error"]]
            /\ over
        again ==
            /\ UNCHANGED children
            /\ IF In(t, {"RUNNING"})
               THEN /\ task' = [task EXCEPT ![t] = row]
                    /\ UNCHANGED runner
               ELSE /\ task' = [task EXCEPT ![t] = [row EXCEPT !.result = "error"]]
                    /\ over
    IN
    /\ t \notin Verifiers
    /\ Exits(t)
    /\ \/ attempt >= CorrectionLimit(t) /\ ends("BLOCKED")
       \/ attempt = 1 /\ CorrectionLimit(t) = 2 /\ ends("FAILED")
       \/ attempt < CorrectionLimit(t) /\ (ends("TIMED_OUT") \/ again)

\* Without a change there is nothing to publish: the evidence is accepted or not.
Verified(t) ==
    /\ Quiet
    /\ t \in EvidenceOnly /\ RunnerAt(t, "publishing")
    /\ task' = [task EXCEPT ![t].result = "evidence"]
    /\ Resume(t, "recorded")
    /\ thread' = t
    /\ UNCHANGED <<up, edges, poll, children, outside>>

\* The pull request is merged under the gate, then its deployment is seen.
Merge(t) ==
    /\ Quiet
    /\ t \notin EvidenceOnly /\ RunnerAt(t, "publishing")
    /\ delivery[t] = "none"
    /\ delivery' = [delivery EXCEPT ![t] = "merged"]
    /\ UNCHANGED <<up, thread, store, poll, runner, children, ready, crashes, torn>>

Deployed(t) ==
    /\ Quiet
    /\ RunnerAt(t, "publishing")
    /\ delivery[t] = "merged"
    /\ delivery' = [delivery EXCEPT ![t] = "deployed"]
    /\ task' = [task EXCEPT ![t].result = "evidence"]
    /\ Resume(t, "recorded")
    /\ thread' = t
    /\ UNCHANGED <<up, edges, poll, children, ready, crashes, torn>>

\* A quality gate, the merge gate, the deployment or the time stops it.
PublicationFails(t) ==
    /\ Quiet
    /\ RunnerAt(t, "publishing")
    /\ Throw(t, "error")
    /\ UNCHANGED <<up, thread, edges, poll, children, outside>>

\* Variant the runs must reject: the catch block writes the error alone.
CompleteOrError(t) ==
    /\ thread = t /\ RunnerAt(t, "recorded")
    /\ Settle(t, {"VALIDATING"}, "COMPLETE", IF In(t, {"VALIDATING"}) THEN "evidence" ELSE "error")
    /\ thread' = Nobody
    /\ UNCHANGED <<up, edges, poll, children, outside>>

\* The result is written, then the state; a task that was ended meanwhile
\* keeps its state, and the catch block writes the evidence again.
Complete(t) ==
    /\ thread = t /\ RunnerAt(t, "recorded")
    /\ Settle(t, {"VALIDATING"}, "COMPLETE", "evidence")
    /\ thread' = Nobody
    /\ UNCHANGED <<up, edges, poll, children, outside>>

-------------------------------------------------------------------------------
\* The host and its surroundings.

\* The host dies; its processes go on without a parent.
Crash ==
    /\ up /\ crashes < MaxCrashes
    /\ up' = FALSE
    /\ thread' = Nobody
    /\ poll' = [p \in Polls |-> IdlePoll]
    /\ runner' = [t \in Tasks |->
          IF runner[t].poll # Nobody THEN NoRunner ELSE runner[t]]
    /\ children' = {}
    /\ crashes' = crashes + 1
    /\ torn' = torn \cup UNION {poll[p].work : p \in {q \in Polls : poll[q].step = "edges"}}
    /\ UNCHANGED <<store, ready, delivery>>

\* A host starts and recovers: no process of an earlier host is trusted.
StartHost ==
    /\ ~up
    /\ up' = TRUE
    /\ task' = [t \in Tasks |->
          IF In(t, Active) THEN [Ended(task[t], "FAILED") EXCEPT !.result = "error"] ELSE task[t]]
    /\ UNCHANGED <<thread, edges, poll, runner, children, outside>>

\* An issue gets the ready label, or loses it; each does one of the two once.
\* A poll reads the issues once.
Relabel(t) ==
    /\ thread = Nobody
    /\ \/ t \in Late \ ready /\ ready' = ready \cup {t}
       \/ t \in Withdrawable \cap ready /\ ready' = ready \ {t}
    /\ UNCHANGED <<up, thread, store, poll, runner, children, delivery, crashes, torn>>

PollStep(p) ==
    \/ Import(p) \/ RecordEdges(p) \/ Decide(p) \/ Start(p) \/ EndPoll(p)
    \/ \E t \in Tasks, s \in Slots : Claim(p, t, s)

RunnerStep(t) ==
    \/ Launch(t) \/ ExitsWell(t) \/ VerifierFails(t) \/ AttemptFails(t)
    \/ Verified(t) \/ Merge(t) \/ Deployed(t) \/ PublicationFails(t) \/ Complete(t)

Next ==
    \/ \E p \in Polls : PollStep(p) \/ PollFails(p)
    \/ \E t \in Tasks : RunnerStep(t) \/ Relabel(t)
    \/ Crash \/ StartHost

Spec == Init /\ [][Next]_vars

\* Every callback that can run is run some time, though others take the
\* thread in between; processes and publications have time limits; a supervisor
\* starts a host that died.  A runner takes so few steps that it need not be
\* singled out.
FairSpec ==
    /\ Spec
    /\ \A p \in Polls : SF_vars(PollStep(p))
    /\ SF_vars(\E t \in Tasks : RunnerStep(t))
    /\ WF_vars(StartHost)

-------------------------------------------------------------------------------
TypeOK ==
    /\ up \in BOOLEAN
    /\ thread \in Polls \cup Tasks \cup {Nobody}
    /\ ready \subseteq Tasks
    /\ task \in [Tasks -> [state : States \cup {Absent}, slot : Slots \cup {Nobody}, attempt : Nat,
                           corrections : Nat, result : {"none", "error", "evidence"}]]
    /\ edges \subseteq Tasks \X Tasks
    /\ poll \in [Polls -> [step : {"idle", "edges", "decide", "start", "wait"},
                           work : SUBSET Tasks, jobs : SUBSET (Tasks \X Slots)]]
    /\ runner \in [Tasks -> [step : {"none", "claimed", "executing", "publishing", "recorded",
                                     "over"},
                             poll : Polls \cup {Nobody}]]
    /\ children \subseteq Tasks
    /\ delivery \in [Tasks -> {"none", "merged", "deployed"}]
    /\ crashes \in 0..MaxCrashes
    /\ torn \subseteq Tasks

\* Polls overlap and decide on what they saw before an await; still a task is
\* run once, and no two live tasks are in one slot.
ClaimsExclude ==
    /\ \A t \in Tasks : task[t].attempt <= 1
    /\ \A t, u \in ActiveTasks : task[t].slot = task[u].slot => t = u

\* Tasks that own a common file are active together only when polls that
\* overlapped claimed them: each compares files on its own snapshot.
OnePollKeepsFilesApart ==
    up => \A t, u \in ActiveTasks :
              {t, u} \in Conflicting => t = u \/ runner[t].poll # runner[u].poll

\* A task only starts after everything its contract depends on is complete,
\* but for tasks the host died over before it wrote their edges, which no
\* later import repairs.
DependenciesHold ==
    \A t \in Tasks \ torn :
        task[t].attempt > 0 => \A u \in Upstream[t] : In(u, {"COMPLETE"})

\* The state of a task tells what became of its change: a complete task was
\* deployed, and a task whose runner saw the deployment and ended is complete,
\* unless it had one attempt only and was taken for dead while it published.
DeployedIsComplete ==
    \A t \in Tasks \ EvidenceOnly :
        /\ In(t, {"COMPLETE"}) => delivery[t] = "deployed"
        /\ delivery[t] = "deployed" /\ RunnerAt(t, "over") =>
              In(t, {"COMPLETE"}) \/ (MaxAttempts[t] = 1 /\ In(t, {"BLOCKED"}))

\* Whatever became of the state, the evidence of a deployment is in the result
\* of the task when its runner is over.
DeploymentIsRecorded ==
    \A t \in Tasks :
        delivery[t] = "deployed" /\ RunnerAt(t, "over") => task[t].result = "evidence"

\* A process of this host has a runner that watches its time and its progress,
\* but for the second process of a one-attempt task that was ended under the
\* first.
ProcessesAreWatched ==
    \A t \in Tasks :
        t \in children => RunnerAt(t, "executing") \/ (MaxAttempts[t] = 1 /\ In(t, {"BLOCKED"}))

Lifecycle == INSTANCE TaskLifecycle WITH state <- [t \in Tasks |-> task[t].state]

\* Every write of a state, those that do not go through transitionTask
\* included, follows the table of the state machine.
FollowsLifecycle == Lifecycle!Spec

\* A poll that could go on with a task goes on with none: the tasks that the
\* policy claims and those that are selected are apart.
PassesOver(p) ==
    /\ Decide(p) /\ poll'[p].work = {}
    /\ Choices(Tasks \ (Withdrawn \cup Stranded)) # {{}}


===============================================================================
