--------------------------- MODULE TaskDaemonProofs ---------------------------
(***************************************************************************)
(* Proofs about the task daemon.  The core of the invariant says of every  *)
(* task how its row, its runner, its process and its delivery belong       *)
(* together (TaskInv), and of every poll what it has in hand (PollInv).    *)
(* Each action keeps it, and does nothing more to the rows than Moves      *)
(* says, or is a claim.  From this follow what the states tell of          *)
(* deployments and processes, the slots, the life cycle, and, with what    *)
(* polls hand on from choice to claim (Holds), the files and the           *)
(* dependencies.                                                           *)
(***************************************************************************)
EXTENDS TaskDaemon, TLAPS, FiniteSetTheorems

\* The types of the rows of tasks, polls and runners.
TaskRow == [state : States \cup {Absent}, slot : Slots \cup {Nobody}, attempt : Nat,
            corrections : Nat, result : {"none", "error", "evidence"}]

PollRow == [step : {"idle", "edges", "decide", "start", "wait"},
            work : SUBSET Tasks, jobs : SUBSET (Tasks \X Slots)]

RunnerRow == [step : {"none", "claimed", "executing", "publishing", "recorded", "over"},
              poll : Polls \cup {Nobody}]

\* TypeOK, with names for the rows.
LEMMA Types ==
    TypeOK <=>
        /\ up \in BOOLEAN
        /\ thread \in Polls \cup Tasks \cup {Nobody}
        /\ ready \subseteq Tasks
        /\ task \in [Tasks -> TaskRow]
        /\ edges \subseteq Tasks \X Tasks
        /\ poll \in [Polls -> PollRow]
        /\ runner \in [Tasks -> RunnerRow]
        /\ children \subseteq Tasks
        /\ delivery \in [Tasks -> {"none", "merged", "deployed"}]
        /\ crashes \in 0..MaxCrashes
        /\ torn \subseteq Tasks
BY DEF TypeOK, TaskRow, PollRow, RunnerRow

\* The same of the next state.
LEMMA TypesNext ==
    ASSUME up' \in BOOLEAN,
           thread' \in Polls \cup Tasks \cup {Nobody},
           ready' \subseteq Tasks,
           task' \in [Tasks -> TaskRow],
           edges' \subseteq Tasks \X Tasks,
           poll' \in [Polls -> PollRow],
           runner' \in [Tasks -> RunnerRow],
           children' \subseteq Tasks,
           delivery' \in [Tasks -> {"none", "merged", "deployed"}],
           crashes' \in 0..MaxCrashes,
           torn' \subseteq Tasks
    PROVE  TypeOK'
BY DEF TypeOK, TaskRow, PollRow, RunnerRow

\* The sets of states, element by element.
LEMMA StateSets ==
    /\ States = {"READY", "CLAIMED", "RUNNING", "VALIDATING", "PR_OPENED", "COMPLETE", "BLOCKED",
                 "FAILED", "TIMED_OUT"}
    /\ Active = {"CLAIMED", "RUNNING", "VALIDATING", "PR_OPENED"}
    /\ Failing = {"BLOCKED", "FAILED", "TIMED_OUT"}
    /\ Absent = "ABSENT"
BY DEF States, Active, Terminal, Failing, Absent

-------------------------------------------------------------------------------
\* What a step does to the row of a task.

\* What a runner leaves alone.
OnlyTask(t) ==
    /\ task' \in [Tasks -> TaskRow] /\ runner' \in [Tasks -> RunnerRow]
    /\ \A u \in Tasks \ {t} :
          /\ task'[u] = task[u] /\ runner'[u] = runner[u] /\ delivery'[u] = delivery[u]
          /\ u \in children' <=> u \in children
    /\ UNCHANGED <<up, edges, poll, ready, crashes, torn>>

\* An ended row: its state and its slot change, nothing else.
LEMMA EndedRow ==
    ASSUME NEW row \in TaskRow, NEW to \in States
    PROVE  /\ Ended(row, to) \in TaskRow
           /\ Ended(row, to).state = to /\ Ended(row, to).slot = Nobody
           /\ Ended(row, to).attempt = row.attempt /\ Ended(row, to).corrections = row.corrections
           /\ Ended(row, to).result = row.result
BY DEF Ended, TaskRow

\* How a runner ends.
LEMMA SettleEffect ==
    ASSUME TypeOK, NEW t \in Tasks, NEW from, NEW to \in States, NEW result \in {"none", "error", "evidence"},
           Settle(t, from, to, result)
    PROVE  /\ task' \in [Tasks -> TaskRow] /\ runner' \in [Tasks -> RunnerRow]
           /\ \A u \in Tasks \ {t} : task'[u] = task[u] /\ runner'[u] = runner[u]
           /\ runner'[t] = [step |-> "over", poll |-> Nobody]
           /\ task'[t].result = result
           /\ task'[t].attempt = task[t].attempt /\ task'[t].corrections = task[t].corrections
           /\ task[t].state \in from => task'[t].state = to /\ task'[t].slot = Nobody
           /\ task[t].state \notin from => task'[t].state = task[t].state /\ task'[t].slot = task[t].slot
<1> DEFINE row == [task[t] EXCEPT !.result = result]
<1>1. task[t] \in TaskRow
    BY Types
<1>2. /\ row \in TaskRow /\ row.result = result /\ row.state = task[t].state /\ row.slot = task[t].slot
      /\ row.attempt = task[t].attempt /\ row.corrections = task[t].corrections
    BY <1>1 DEF TaskRow
<1> HIDE DEF row
<1>3. /\ task' = [task EXCEPT ![t] = IF In(t, from) THEN Ended(row, to) ELSE row]
      /\ runner' = [runner EXCEPT ![t] = [step |-> "over", poll |-> Nobody]]
    BY DEF Settle, row
<1>4. [step |-> "over", poll |-> Nobody] \in RunnerRow
    BY DEF RunnerRow
<1>5. task \in [Tasks -> TaskRow] /\ runner \in [Tasks -> RunnerRow]
    BY Types
<1>6. Ended(row, to) \in TaskRow
    BY <1>2, EndedRow
<1>7. task' \in [Tasks -> TaskRow] /\ \A u \in Tasks \ {t} : task'[u] = task[u]
    BY <1>2, <1>3, <1>5, <1>6
<1>8. runner' \in [Tasks -> RunnerRow] /\ \A u \in Tasks \ {t} : runner'[u] = runner[u]
    BY <1>3, <1>4, <1>5
<1>9. runner'[t] = [step |-> "over", poll |-> Nobody]
    BY <1>3, <1>5
<1>10. task'[t] = IF task[t].state \in from THEN Ended(row, to) ELSE row
    BY <1>3, <1>5 DEF In
<1> QED
    BY <1>2, <1>7, <1>8, <1>9, <1>10, EndedRow

\* The steps of a runner that somebody waits for.
Working == {"claimed", "executing", "publishing", "recorded"}

\* A task, its runner, its process and its change belong together.
TaskInv(t) ==
    LET state == task[t].state
        step == runner[t].step
    IN
    /\ thread = t <=> step \in {"claimed", "recorded"}
    /\ runner[t].poll # Nobody <=> step \in Working
    /\ ~up => step \notin Working /\ t \notin children
    /\ state \in {Absent, "READY"} =>
          step = "none" /\ task[t].attempt = 0 /\ task[t].corrections = 0 /\ delivery[t] = "none"
    /\ task[t].attempt <= 1
    /\ state \in Active => task[t].attempt = 1 /\ state # "PR_OPENED" /\ (up => step \in Working)
    /\ step = "claimed" => state = "CLAIMED" /\ task[t].corrections = 0
    /\ step = "executing" => state \in {"RUNNING", "BLOCKED"}
    /\ step \in {"publishing", "recorded"} => state \in {"VALIDATING", "BLOCKED"}
    /\ step = "over" => state \in Terminal
    /\ step \in Working /\ (state = "BLOCKED" \/ task[t].corrections >= MaxAttempts[t]) => MaxAttempts[t] = 1
    /\ t \in EvidenceOnly => delivery[t] = "none"
    /\ delivery[t] # "none" => step \notin {"claimed", "executing"}
    /\ delivery[t] = "deployed" => step # "publishing"
    /\ step = "recorded" /\ t \notin EvidenceOnly => delivery[t] = "deployed"
    /\ state = "COMPLETE" /\ t \notin EvidenceOnly => delivery[t] = "deployed"
    /\ delivery[t] = "deployed" /\ step = "over" =>
          /\ state = "COMPLETE" \/ (MaxAttempts[t] = 1 /\ state = "BLOCKED")
          /\ task[t].result = "evidence"
    /\ t \in children => step = "executing" \/ (MaxAttempts[t] = 1 /\ state = "BLOCKED")

\* What a runner does besides: its task moves along the table, leaves its slot
\* or stays in it, and the thread is its own or nobody's.
Follows(t) ==
    /\ task'[t].state = task[t].state \/ <<task[t].state, task'[t].state>> \in Allowed
    /\ task'[t].state \in Active => task[t].state \in Active /\ task'[t].slot = task[t].slot
    /\ task'[t].attempt = task[t].attempt
    /\ runner'[t].poll \in {runner[t].poll, Nobody}
    /\ task[t].state \notin {Absent, "READY"}
    /\ up /\ thread \in {t, Nobody} /\ thread' \in {t, Nobody}

\* The transitions a step of the daemon makes.
LEMMA Table ==
    /\ \A to \in {"CLAIMED", "BLOCKED"} : <<"READY", to>> \in Allowed
    /\ \A to \in {"RUNNING", "BLOCKED", "FAILED"} : <<"CLAIMED", to>> \in Allowed
    /\ \A to \in {"VALIDATING", "BLOCKED", "FAILED", "TIMED_OUT"} : <<"RUNNING", to>> \in Allowed
    /\ \A to \in {"COMPLETE", "BLOCKED", "FAILED", "TIMED_OUT"} : <<"VALIDATING", to>> \in Allowed
BY DEF Allowed

\* The catch block: the task fails unless it was ended before.
LEMMA ThrowKeeps ==
    ASSUME TypeOK, NEW t \in Tasks, TaskInv(t), Throw(t, "error"), up, thread \in {t, Nobody},
           thread' = Nobody, runner[t].step \in Working, delivery[t] # "deployed",
           \/ children' = children \ {t}
           \/ children' = children /\ (t \in children => task[t].state = "BLOCKED" /\ MaxAttempts[t] = 1),
           UNCHANGED <<up, edges, poll, delivery, ready, crashes, torn>>
    PROVE  OnlyTask(t) /\ TaskInv(t)' /\ Follows(t)
<1>1. "FAILED" \in States
    BY StateSets
<1>2. /\ task' \in [Tasks -> TaskRow] /\ runner' \in [Tasks -> RunnerRow]
      /\ \A u \in Tasks \ {t} : task'[u] = task[u] /\ runner'[u] = runner[u]
      /\ runner'[t] = [step |-> "over", poll |-> Nobody]
      /\ task'[t].attempt = task[t].attempt
      /\ task[t].state \in {"CLAIMED", "RUNNING", "VALIDATING"} =>
            task'[t].state = "FAILED" /\ task'[t].slot = Nobody
      /\ task[t].state \notin {"CLAIMED", "RUNNING", "VALIDATING"} =>
            task'[t].state = task[t].state /\ task'[t].slot = task[t].slot
    BY <1>1, SettleEffect DEF Throw
<1>3. task[t].state \in {"CLAIMED", "RUNNING", "VALIDATING", "BLOCKED"}
    BY DEF TaskInv, Working
<1>4. OnlyTask(t)
    BY <1>2 DEF OnlyTask
<1>5. Follows(t)
    BY <1>2, <1>3, Table, StateSets DEF Follows
<1>6. t # Nobody
    BY DaemonAssumption
<1>7. TaskInv(t)'
    BY <1>2, <1>3, <1>6, StateSets DEF TaskInv, Working, Terminal
<1> QED
    BY <1>4, <1>5, <1>7

\* A runner that was granted its claim has the thread.
LEMMA LaunchKeeps ==
    ASSUME TypeOK, NEW t \in Tasks, TaskInv(t), Launch(t)
    PROVE  OnlyTask(t) /\ TaskInv(t)' /\ Follows(t)
<1>1. /\ thread = t /\ runner[t].step = "claimed" /\ thread' = Nobody
      /\ UNCHANGED <<up, edges, poll, delivery, ready, crashes, torn>>
    BY DEF Launch, RunnerAt, outside
<1>2. up /\ delivery[t] = "none"
    BY <1>1, Types DEF TaskInv, Working
<1>3. CASE Throw(t, "error") /\ UNCHANGED children
    <2>1. t \notin children
        BY <1>1 DEF TaskInv
    <2> QED
        BY <1>1, <1>2, <1>3, <2>1, ThrowKeeps DEF Working
<1>4. CASE /\ task' = [task EXCEPT ![t].state = "RUNNING"]
           /\ children' = children \cup {t}
           /\ Resume(t, "executing")
    <2>1. task \in [Tasks -> TaskRow] /\ runner \in [Tasks -> RunnerRow]
        BY Types
    <2>2. /\ task' \in [Tasks -> TaskRow] /\ runner' \in [Tasks -> RunnerRow]
          /\ \A u \in Tasks \ {t} : task'[u] = task[u] /\ runner'[u] = runner[u]
          /\ runner'[t].step = "executing" /\ runner'[t].poll = runner[t].poll
          /\ task'[t].state = "RUNNING" /\ task'[t].slot = task[t].slot
          /\ task'[t].attempt = task[t].attempt /\ task'[t].corrections = task[t].corrections
        BY <1>4, <2>1, StateSets DEF Resume, TaskRow, RunnerRow
    <2>3. OnlyTask(t)
        BY <1>1, <1>4, <2>2 DEF OnlyTask
    <2>4. task[t].state = "CLAIMED"
        BY <1>1 DEF TaskInv
    <2>5. Follows(t)
        BY <1>1, <1>2, <2>2, <2>4, Table, StateSets DEF Follows
    <2>6. t # Nobody
        BY DaemonAssumption
    <2>7. TaskInv(t)'
        BY <1>1, <1>2, <1>4, <2>2, <2>4, <2>6, StateSets DEF TaskInv, Working, Terminal
    <2> QED
        BY <2>3, <2>5, <2>7
<1> QED
    BY <1>3, <1>4 DEF Launch

\* The end of a process finds its runner waiting and the thread free.
LEMMA ExitFinds ==
    ASSUME TypeOK, NEW t \in Tasks, TaskInv(t), Exits(t)
    PROVE  /\ up /\ thread = Nobody /\ runner[t].step = "executing" /\ t \in children
           /\ delivery[t] = "none" /\ task[t].state \in {"RUNNING", "BLOCKED"}
           /\ task[t].state = "BLOCKED" => MaxAttempts[t] = 1
           /\ UNCHANGED <<up, thread, edges, poll, delivery, ready, crashes, torn>>
           /\ t # Nobody /\ task[t] \in TaskRow /\ runner[t] \in RunnerRow
BY DaemonAssumption, Types DEF Exits, Quiet, RunnerAt, TaskInv, Working, outside

\* The runner that ended meanwhile throws, any other goes on to publish.
LEMMA ExitsWellKeeps ==
    ASSUME TypeOK, NEW t \in Tasks, TaskInv(t), ExitsWell(t)
    PROVE  OnlyTask(t) /\ TaskInv(t)' /\ Follows(t)
<1>1. /\ up /\ thread = Nobody /\ runner[t].step = "executing"
      /\ delivery[t] = "none" /\ task[t].state \in {"RUNNING", "BLOCKED"}
      /\ UNCHANGED <<up, thread, edges, poll, delivery, ready, crashes, torn>>
      /\ t # Nobody /\ children' = children \ {t}
    BY ExitFinds DEF ExitsWell
<1>2. CASE Throw(t, "error")
    BY <1>1, <1>2, ThrowKeeps DEF Working
<1>3. CASE /\ In(t, {"RUNNING"})
           /\ task' = [task EXCEPT ![t].state = "VALIDATING"]
           /\ Resume(t, "publishing")
    <2>1. task \in [Tasks -> TaskRow] /\ runner \in [Tasks -> RunnerRow]
        BY Types
    <2>2. /\ task' \in [Tasks -> TaskRow] /\ runner' \in [Tasks -> RunnerRow]
          /\ \A u \in Tasks \ {t} : task'[u] = task[u] /\ runner'[u] = runner[u]
          /\ runner'[t].step = "publishing" /\ runner'[t].poll = runner[t].poll
          /\ task'[t].state = "VALIDATING" /\ task'[t].slot = task[t].slot
          /\ task'[t].attempt = task[t].attempt /\ task'[t].corrections = task[t].corrections
        BY <1>3, <2>1, StateSets DEF Resume, TaskRow, RunnerRow
    <2>3. OnlyTask(t)
        BY <1>1, <2>2 DEF OnlyTask
    <2>4. task[t].state = "RUNNING"
        BY <1>3 DEF In
    <2>5. Follows(t)
        BY <1>1, <2>2, <2>4, Table, StateSets DEF Follows
    <2>6. TaskInv(t)'
        BY <1>1, <2>2, <2>4, StateSets DEF TaskInv, Working, Terminal
    <2> QED
        BY <2>3, <2>5, <2>6
<1> QED
    BY <1>2, <1>3 DEF ExitsWell

\* A runner that ends after its process did, with its last word on the task.
LEMMA EndsKeeps ==
    ASSUME TypeOK, NEW t \in Tasks, TaskInv(t), Exits(t), NEW to \in Failing,
           task' \in [Tasks -> TaskRow], runner' \in [Tasks -> RunnerRow],
           \A u \in Tasks \ {t} : task'[u] = task[u] /\ runner'[u] = runner[u],
           runner'[t] = [step |-> "over", poll |-> Nobody],
           task'[t].attempt = task[t].attempt,
           \/ task'[t].state = to /\ task'[t].slot = Nobody /\ task[t].state = "RUNNING"
           \/ task'[t].state = task[t].state /\ task'[t].slot = task[t].slot /\ task[t].state # "RUNNING",
           children' = children \ {t} \/ (children' = children /\ task[t].state # "RUNNING")
    PROVE  OnlyTask(t) /\ TaskInv(t)' /\ Follows(t)
<1>1. /\ up /\ thread = Nobody /\ runner[t].step = "executing"
      /\ delivery[t] = "none" /\ task[t].state \in {"RUNNING", "BLOCKED"}
      /\ task[t].state = "BLOCKED" => MaxAttempts[t] = 1
      /\ UNCHANGED <<up, thread, edges, poll, delivery, ready, crashes, torn>>
      /\ t # Nobody
    BY ExitFinds
<1>2. OnlyTask(t)
    BY <1>1 DEF OnlyTask
<1>3. Follows(t)
    BY <1>1, Table, StateSets DEF Follows
<1>4. TaskInv(t)'
    BY <1>1, StateSets DEF TaskInv, Working, Terminal
<1> QED
    BY <1>2, <1>3, <1>4

\* A verifier ends with its first attempt.
LEMMA VerifierFailsKeeps ==
    ASSUME TypeOK, NEW t \in Tasks, TaskInv(t), VerifierFails(t)
    PROVE  OnlyTask(t) /\ TaskInv(t)' /\ Follows(t)
<1>1. PICK to \in Failing : Settle(t, {"RUNNING"}, to, "error")
    BY DEF VerifierFails
<1>2. to \in States
    BY StateSets
<1>3. Exits(t) /\ children' = children \ {t}
    BY DEF VerifierFails
<1> QED
    BY <1>1, <1>2, <1>3, SettleEffect, EndsKeeps

\* A failed attempt ends the task or is tried again; a second process of a
\* task that was ended meanwhile is the exception of ProcessesAreWatched.
LEMMA AttemptFailsKeeps ==
    ASSUME TypeOK, NEW t \in Tasks, TaskInv(t), AttemptFails(t)
    PROVE  OnlyTask(t) /\ TaskInv(t)' /\ Follows(t)
<1> DEFINE attempt == task[t].corrections + 1
           row == [task[t] EXCEPT !.corrections = attempt]
           over == runner' = [runner EXCEPT ![t] = [step |-> "over", poll |-> Nobody]]
<1>1. /\ up /\ thread = Nobody /\ runner[t].step = "executing" /\ t \in children
      /\ delivery[t] = "none" /\ task[t].state \in {"RUNNING", "BLOCKED"}
      /\ task[t].state = "BLOCKED" => MaxAttempts[t] = 1
      /\ UNCHANGED <<up, thread, edges, poll, delivery, ready, crashes, torn>>
      /\ t # Nobody /\ task[t] \in TaskRow /\ runner[t] \in RunnerRow
      /\ Exits(t)
    BY ExitFinds DEF AttemptFails
<1>2. /\ row \in TaskRow /\ row.state = task[t].state /\ row.slot = task[t].slot
      /\ row.attempt = task[t].attempt /\ row.corrections = attempt
    BY <1>1 DEF TaskRow
<1>3. task \in [Tasks -> TaskRow] /\ runner \in [Tasks -> RunnerRow]
      /\ [step |-> "over", poll |-> Nobody] \in RunnerRow
    BY Types DEF RunnerRow
<1>4. ASSUME NEW to \in Failing, over,
             children' = children \ {t},
             task' = [task EXCEPT ![t] =
                        [IF In(t, {"RUNNING"}) THEN Ended(row, to) ELSE row EXCEPT !.result = "error"]]
      PROVE  OnlyTask(t) /\ TaskInv(t)' /\ Follows(t)
    <2> DEFINE last == IF In(t, {"RUNNING"}) THEN Ended(row, to) ELSE row
               new == [last EXCEPT !.result = "error"]
    <2> HIDE DEF row
    <2>0. to \in States
        BY StateSets
    <2>1. /\ Ended(row, to) \in TaskRow /\ Ended(row, to).state = to /\ Ended(row, to).slot = Nobody
          /\ Ended(row, to).attempt = row.attempt
        BY <1>2, <2>0, EndedRow
    <2>2. /\ last \in TaskRow /\ last.attempt = task[t].attempt
          /\ task[t].state = "RUNNING" => last.state = to /\ last.slot = Nobody
          /\ task[t].state # "RUNNING" => last.state = task[t].state /\ last.slot = task[t].slot
        BY <1>2, <2>1 DEF In
    <2> HIDE DEF last
    <2>3. /\ new \in TaskRow /\ new.attempt = last.attempt /\ new.state = last.state /\ new.slot = last.slot
        BY <2>2 DEF TaskRow
    <2>4. task' = [task EXCEPT ![t] = new]
        BY <1>4 DEF last
    <2> HIDE DEF new
    <2>5. /\ task' \in [Tasks -> TaskRow] /\ task'[t] = new
          /\ \A u \in Tasks \ {t} : task'[u] = task[u]
        BY <1>3, <2>3, <2>4
    <2>6. /\ runner' \in [Tasks -> RunnerRow] /\ runner'[t] = [step |-> "over", poll |-> Nobody]
          /\ \A u \in Tasks \ {t} : runner'[u] = runner[u]
        BY <1>3, <1>4
    <2>7. /\ \/ task'[t].state = to /\ task'[t].slot = Nobody /\ task[t].state = "RUNNING"
             \/ task'[t].state = task[t].state /\ task'[t].slot = task[t].slot /\ task[t].state # "RUNNING"
          /\ task'[t].attempt = task[t].attempt
        BY <2>2, <2>3, <2>5
    <2> HIDE DEF over
    <2> QED
        BY <1>1, <1>4, <2>5, <2>6, <2>7, EndsKeeps
<1>5. ASSUME attempt < CorrectionLimit(t), children' = children, In(t, {"RUNNING"}),
             task' = [task EXCEPT ![t] = row], runner' = runner
      PROVE  OnlyTask(t) /\ TaskInv(t)' /\ Follows(t)
    <2>1. /\ task' \in [Tasks -> TaskRow] /\ task'[t] = row
          /\ \A u \in Tasks \ {t} : task'[u] = task[u]
        BY <1>2, <1>3, <1>5
    <2>2. attempt >= MaxAttempts[t] => MaxAttempts[t] = 1
        BY <1>1, <1>5, DaemonAssumption DEF CorrectionLimit, TaskRow
    <2>3. OnlyTask(t)
        BY <1>1, <1>3, <1>5, <2>1 DEF OnlyTask
    <2>4. task[t].state = "RUNNING"
        BY <1>5 DEF In
    <2>5. Follows(t)
        BY <1>1, <1>2, <1>5, <2>1, <2>4, StateSets DEF Follows
    <2>6. TaskInv(t)'
        BY <1>1, <1>2, <1>5, <2>1, <2>2, <2>4, StateSets DEF TaskInv, Working, Terminal
    <2> QED
        BY <2>3, <2>5, <2>6
<1>6. ASSUME children' = children, ~In(t, {"RUNNING"}),
             task' = [task EXCEPT ![t] = [row EXCEPT !.result = "error"]], over
      PROVE  OnlyTask(t) /\ TaskInv(t)' /\ Follows(t)
    <2> DEFINE new == [row EXCEPT !.result = "error"]
    <2> HIDE DEF row
    <2>1. /\ new \in TaskRow /\ new.attempt = row.attempt /\ new.state = row.state /\ new.slot = row.slot
        BY <1>2 DEF TaskRow
    <2>2. task' = [task EXCEPT ![t] = new]
        BY <1>6
    <2> HIDE DEF new
    <2>3. /\ task' \in [Tasks -> TaskRow] /\ task'[t] = new
          /\ \A u \in Tasks \ {t} : task'[u] = task[u]
        BY <1>3, <2>1, <2>2
    <2>4. /\ runner' \in [Tasks -> RunnerRow] /\ runner'[t] = [step |-> "over", poll |-> Nobody]
          /\ \A u \in Tasks \ {t} : runner'[u] = runner[u]
        BY <1>3, <1>6
    <2>5. task[t].state # "RUNNING" /\ "BLOCKED" \in Failing
        BY <1>6, StateSets DEF In
    <2> QED
        BY <1>1, <1>2, <1>6, <2>1, <2>3, <2>4, <2>5, EndsKeeps
<1> QED
    BY <1>4, <1>5, <1>6, StateSets DEF AttemptFails

\* Evidence of a verifier: its result is written, it delivers nothing.
LEMMA VerifiedKeeps ==
    ASSUME TypeOK, NEW t \in Tasks, TaskInv(t), Verified(t)
    PROVE  OnlyTask(t) /\ TaskInv(t)' /\ Follows(t)
<1>1. /\ up /\ thread = Nobody /\ runner[t].step = "publishing" /\ t \in EvidenceOnly /\ thread' = t
      /\ task' = [task EXCEPT ![t].result = "evidence"] /\ Resume(t, "recorded")
      /\ UNCHANGED <<up, edges, poll, children, delivery, ready, crashes, torn>>
      /\ t # Nobody
    BY DaemonAssumption DEF Verified, Quiet, RunnerAt, outside
<1>2. task \in [Tasks -> TaskRow] /\ runner \in [Tasks -> RunnerRow]
    BY Types
<1>3. /\ task' \in [Tasks -> TaskRow] /\ runner' \in [Tasks -> RunnerRow]
      /\ \A u \in Tasks \ {t} : task'[u] = task[u] /\ runner'[u] = runner[u]
      /\ runner'[t].step = "recorded" /\ runner'[t].poll = runner[t].poll
      /\ task'[t].state = task[t].state /\ task'[t].slot = task[t].slot
      /\ task'[t].attempt = task[t].attempt /\ task'[t].corrections = task[t].corrections
    BY <1>1, <1>2 DEF Resume, TaskRow, RunnerRow
<1>4. OnlyTask(t)
    BY <1>1, <1>3 DEF OnlyTask
<1>5. task[t].state \in {"VALIDATING", "BLOCKED"}
    BY <1>1 DEF TaskInv
<1>6. Follows(t)
    BY <1>1, <1>3, <1>5, StateSets DEF Follows
<1>7. TaskInv(t)'
    BY <1>1, <1>3, <1>5, StateSets DEF TaskInv, Working, Terminal
<1> QED
    BY <1>4, <1>6, <1>7

\* A merge changes the delivery alone.
LEMMA MergeKeeps ==
    ASSUME TypeOK, NEW t \in Tasks, TaskInv(t), Merge(t)
    PROVE  OnlyTask(t) /\ TaskInv(t)' /\ Follows(t)
<1>1. /\ up /\ thread = Nobody /\ runner[t].step = "publishing" /\ t \notin EvidenceOnly
      /\ delivery' = [delivery EXCEPT ![t] = "merged"]
      /\ UNCHANGED <<up, thread, task, edges, poll, runner, children, ready, crashes, torn>>
      /\ t # Nobody
    BY DaemonAssumption DEF Merge, Quiet, RunnerAt, store
<1>2. /\ task \in [Tasks -> TaskRow] /\ runner \in [Tasks -> RunnerRow]
      /\ delivery'[t] = "merged" /\ \A u \in Tasks \ {t} : delivery'[u] = delivery[u]
    BY <1>1, Types
<1>3. OnlyTask(t)
    BY <1>1, <1>2 DEF OnlyTask
<1>4. task[t].state \in {"VALIDATING", "BLOCKED"}
    BY <1>1 DEF TaskInv
<1>5. Follows(t)
    BY <1>1, <1>4, StateSets DEF Follows
<1>6. TaskInv(t)'
    BY <1>1, <1>2, <1>4, StateSets DEF TaskInv, Working, Terminal
<1> QED
    BY <1>3, <1>5, <1>6

\* The evidence is written with the deployment, before the state.
LEMMA DeployedKeeps ==
    ASSUME TypeOK, NEW t \in Tasks, TaskInv(t), Deployed(t)
    PROVE  OnlyTask(t) /\ TaskInv(t)' /\ Follows(t)
<1>1. /\ up /\ thread = Nobody /\ runner[t].step = "publishing" /\ thread' = t /\ delivery[t] = "merged"
      /\ task' = [task EXCEPT ![t].result = "evidence"] /\ Resume(t, "recorded")
      /\ delivery' = [delivery EXCEPT ![t] = "deployed"]
      /\ UNCHANGED <<up, edges, poll, children, ready, crashes, torn>>
      /\ t # Nobody
    BY DaemonAssumption DEF Deployed, Quiet, RunnerAt
<1>2. /\ task \in [Tasks -> TaskRow] /\ runner \in [Tasks -> RunnerRow]
      /\ delivery'[t] = "deployed" /\ \A u \in Tasks \ {t} : delivery'[u] = delivery[u]
    BY <1>1, Types
<1>3. /\ task' \in [Tasks -> TaskRow] /\ runner' \in [Tasks -> RunnerRow]
      /\ \A u \in Tasks \ {t} : task'[u] = task[u] /\ runner'[u] = runner[u]
      /\ runner'[t].step = "recorded" /\ runner'[t].poll = runner[t].poll
      /\ task'[t].state = task[t].state /\ task'[t].slot = task[t].slot
      /\ task'[t].attempt = task[t].attempt /\ task'[t].corrections = task[t].corrections
    BY <1>1, <1>2 DEF Resume, TaskRow, RunnerRow
<1>4. OnlyTask(t)
    BY <1>1, <1>2, <1>3 DEF OnlyTask
<1>5. task[t].state \in {"VALIDATING", "BLOCKED"} /\ t \notin EvidenceOnly
    BY <1>1 DEF TaskInv
<1>6. Follows(t)
    BY <1>1, <1>3, <1>5, StateSets DEF Follows
<1>7. TaskInv(t)'
    BY <1>1, <1>2, <1>3, <1>5, StateSets DEF TaskInv, Working, Terminal
<1> QED
    BY <1>4, <1>6, <1>7

\* A publication that fails did not see the deployment.
LEMMA PublicationFailsKeeps ==
    ASSUME TypeOK, NEW t \in Tasks, TaskInv(t), PublicationFails(t)
    PROVE  OnlyTask(t) /\ TaskInv(t)' /\ Follows(t)
<1>1. /\ up /\ thread = Nobody /\ runner[t].step = "publishing" /\ Throw(t, "error")
      /\ UNCHANGED <<up, thread, edges, poll, children, delivery, ready, crashes, torn>>
    BY DEF PublicationFails, Quiet, RunnerAt, outside
<1>2. delivery[t] # "deployed" /\ (t \in children => task[t].state = "BLOCKED" /\ MaxAttempts[t] = 1)
    BY <1>1 DEF TaskInv
<1> QED
    BY <1>1, <1>2, ThrowKeeps DEF Working

\* The state follows the evidence, unless the task was ended meanwhile.
LEMMA CompleteKeeps ==
    ASSUME TypeOK, NEW t \in Tasks, TaskInv(t), Complete(t)
    PROVE  OnlyTask(t) /\ TaskInv(t)' /\ Follows(t)
<1>1. /\ thread = t /\ runner[t].step = "recorded" /\ Settle(t, {"VALIDATING"}, "COMPLETE", "evidence")
      /\ thread' = Nobody /\ UNCHANGED <<up, edges, poll, children, delivery, ready, crashes, torn>>
      /\ t # Nobody /\ "COMPLETE" \in States
    BY DaemonAssumption, StateSets DEF Complete, RunnerAt, outside
<1>2. up /\ task[t].state \in {"VALIDATING", "BLOCKED"} /\ (task[t].state = "BLOCKED" => MaxAttempts[t] = 1)
    BY <1>1, Types DEF TaskInv, Working
<1>3. /\ task' \in [Tasks -> TaskRow] /\ runner' \in [Tasks -> RunnerRow]
      /\ \A u \in Tasks \ {t} : task'[u] = task[u] /\ runner'[u] = runner[u]
      /\ runner'[t] = [step |-> "over", poll |-> Nobody]
      /\ task'[t].result = "evidence" /\ task'[t].attempt = task[t].attempt
      /\ task[t].state = "VALIDATING" => task'[t].state = "COMPLETE" /\ task'[t].slot = Nobody
      /\ task[t].state # "VALIDATING" => task'[t].state = task[t].state /\ task'[t].slot = task[t].slot
    BY <1>1, SettleEffect
<1>4. OnlyTask(t)
    BY <1>1, <1>3 DEF OnlyTask
<1>5. Follows(t)
    BY <1>1, <1>2, <1>3, Table, StateSets DEF Follows
<1>6. TaskInv(t)'
    BY <1>1, <1>2, <1>3, StateSets DEF TaskInv, Working, Terminal
<1> QED
    BY <1>4, <1>5, <1>6

-------------------------------------------------------------------------------
\* A poll: who it has the thread for, and what it has in hand.
PollInv(p) ==
    /\ thread = p <=> poll[p].step \in {"edges", "decide"}
    /\ ~up => poll[p].step = "idle"
    /\ poll[p].step # "wait" => poll[p].jobs = {} /\ \A t \in Tasks : runner[t].poll # p
    /\ poll[p].step \in {"idle", "decide", "wait"} => poll[p].work = {}
    /\ poll[p].step = "edges" => \A t \in poll[p].work : task[t].state = "READY"

\* The types, and the conditions on every task and every poll.
Core == TypeOK /\ (\A t \in Tasks : TaskInv(t)) /\ (\A p \in Polls : PollInv(p))

\* A row moves along the table or is made, and nobody becomes active.
Moves(t) ==
    /\ \/ task'[t].state = task[t].state
       \/ task[t].state = Absent /\ task'[t].state = "READY"
       \/ <<task[t].state, task'[t].state>> \in Allowed
    /\ task'[t].state \in Active => task[t].state \in Active /\ task'[t].slot = task[t].slot
    /\ task'[t].attempt = task[t].attempt

\* Any step of a runner.
LEMMA RunnerStepKeeps ==
    ASSUME Core, NEW t \in Tasks, RunnerStep(t)
    PROVE  OnlyTask(t) /\ TaskInv(t)' /\ Follows(t)
BY LaunchKeeps, ExitsWellKeeps, VerifierFailsKeeps, AttemptFailsKeeps, VerifiedKeeps, MergeKeeps,
   DeployedKeeps, PublicationFailsKeeps, CompleteKeeps DEF RunnerStep, Core

\* A runner disturbs no other task and no poll.
LEMMA RunnerCore ==
    ASSUME Core, NEW t \in Tasks, RunnerStep(t)
    PROVE  Core' /\ \A u \in Tasks : Moves(u)
<1>1. OnlyTask(t) /\ TaskInv(t)' /\ Follows(t) /\ TypeOK
    BY RunnerStepKeeps DEF Core
<1>2. children' \subseteq Tasks /\ delivery' \in [Tasks -> {"none", "merged", "deployed"}]
    BY <1>1, Types DEF RunnerStep, Launch, ExitsWell, Exits, VerifierFails, AttemptFails, Verified, Merge,
       Deployed, PublicationFails, Complete, outside
<1>3. TypeOK'
    <2>1. thread' \in Polls \cup Tasks \cup {Nobody}
        BY <1>1 DEF Follows
    <2> QED
        BY <1>1, <1>2, <2>1, Types, TypesNext DEF OnlyTask
<1>4. ASSUME NEW u \in Tasks \ {t}
      PROVE  TaskInv(u)' /\ Moves(u)
    <2>1. TaskInv(u)
        BY DEF Core
    <2>2. thread # u /\ thread' # u
        BY <1>1, <1>4, DaemonAssumption DEF Follows
    <2>3. /\ task'[u] = task[u] /\ runner'[u] = runner[u] /\ delivery'[u] = delivery[u]
          /\ u \in children' <=> u \in children
          /\ up' = up
        BY <1>1, <1>4 DEF OnlyTask
    <2>4. TaskInv(u)'
        BY <2>1, <2>2, <2>3 DEF TaskInv
    <2>5. Moves(u)
        BY <2>3 DEF Moves
    <2> QED
        BY <2>4, <2>5
<1>5. ASSUME NEW p \in Polls
      PROVE  PollInv(p)'
    <2>1. PollInv(p)
        BY DEF Core
    <2>2. thread # p /\ thread' # p /\ p # Nobody
        BY <1>1, DaemonAssumption DEF Follows
    <2>3. poll' = poll /\ up' = up /\ \A u \in Tasks : runner'[u].poll \in {runner[u].poll, Nobody}
        BY <1>1 DEF OnlyTask, Follows
    <2> QED
        BY <2>1, <2>2, <2>3 DEF PollInv
<1>6. Moves(t)
    BY <1>1 DEF Follows, Moves
<1> QED
    BY <1>1, <1>3, <1>4, <1>5, <1>6 DEF Core

\* A step of a poll.
LEMMA StepOne ==
    ASSUME TypeOK, NEW p \in Polls, NEW step \in {"idle", "edges", "decide", "start", "wait"},
           NEW work \in SUBSET Tasks, NEW jobs \in SUBSET (Tasks \X Slots), Step(p, step, work, jobs)
    PROVE  /\ poll' \in [Polls -> PollRow]
           /\ poll'[p] = [step |-> step, work |-> work, jobs |-> jobs]
           /\ \A q \in Polls \ {p} : poll'[q] = poll[q]
BY Types DEF Step, PollRow

\* New rows: nothing ran yet for them.
LEMMA ImportCore ==
    ASSUME Core, NEW p \in Polls, Import(p)
    PROVE  Core' /\ \A t \in Tasks : Moves(t)
<1>1. TypeOK /\ New \subseteq Tasks /\ p \notin Tasks /\ p # Nobody
    BY Types, DaemonAssumption DEF Core, New
<1>2. /\ up /\ thread = Nobody /\ thread' = p /\ poll[p].step = "idle"
      /\ Step(p, "edges", New, {})
      /\ task' = [t \in Tasks |-> IF t \in New THEN [task[t] EXCEPT !.state = "READY"] ELSE task[t]]
      /\ UNCHANGED <<up, edges, runner, children, ready, delivery, crashes, torn>>
    BY DEF Import, outside
<1>3. /\ poll' \in [Polls -> PollRow]
      /\ poll'[p] = [step |-> "edges", work |-> New, jobs |-> {}]
      /\ \A q \in Polls \ {p} : poll'[q] = poll[q]
    BY <1>1, <1>2, StepOne
<1>4. ASSUME NEW t \in Tasks
      PROVE  /\ task'[t] \in TaskRow /\ task'[t].slot = task[t].slot /\ task'[t].attempt = task[t].attempt
             /\ task'[t].corrections = task[t].corrections /\ task'[t].result = task[t].result
             /\ t \in New => task[t].state = Absent /\ task'[t].state = "READY"
             /\ t \notin New => task'[t].state = task[t].state
    <2>1. task[t] \in TaskRow
        BY <1>1, Types
    <2> QED
        BY <1>2, <2>1, StateSets DEF New, In, TaskRow
<1>5. task' \in [Tasks -> TaskRow]
    BY <1>2, <1>4
<1>6. TypeOK'
    BY <1>1, <1>2, <1>3, <1>5, Types, TypesNext
<1>7. ASSUME NEW t \in Tasks
      PROVE  TaskInv(t)' /\ Moves(t)
    <2>1. TaskInv(t) /\ t # p /\ t # Nobody
        BY <1>1, DaemonAssumption DEF Core
    <2>2. TaskInv(t)'
        BY <1>2, <1>4, <2>1, StateSets DEF TaskInv, Working, Terminal
    <2>3. Moves(t)
        BY <1>4, StateSets DEF Moves
    <2> QED
        BY <2>2, <2>3
<1>8. ASSUME NEW q \in Polls
      PROVE  PollInv(q)'
    <2>1. PollInv(q) /\ PollInv(p) /\ q # Nobody
        BY DaemonAssumption DEF Core
    <2>2. CASE q = p
        BY <1>1, <1>2, <1>3, <1>4, <2>1, <2>2 DEF PollInv
    <2>3. CASE q # p
        BY <1>1, <1>2, <1>3, <2>1, <2>3 DEF PollInv
    <2> QED
        BY <2>2, <2>3
<1> QED
    BY <1>6, <1>7, <1>8 DEF Core

\* A row that is blocked by its import never ran.
LEMMA RecordEdgesCore ==
    ASSUME Core, NEW p \in Polls, RecordEdges(p)
    PROVE  Core' /\ \A t \in Tasks : Moves(t)
<1> DEFINE known(t) == {u \in Upstream[t] : ~In(u, {Absent})}
<1>1. TypeOK /\ p \notin Tasks /\ p # Nobody /\ PollInv(p)
    BY DaemonAssumption DEF Core
<1>2. /\ thread = p /\ thread' = p /\ poll[p].step = "edges" /\ Step(p, "decide", {}, {})
      /\ edges' = edges \cup UNION {{t} \X known(t) : t \in poll[p].work}
      /\ task' = [t \in Tasks |->
            IF t \in poll[p].work /\ known(t) # Upstream[t]
            THEN [task[t] EXCEPT !.state = "BLOCKED"] ELSE task[t]]
      /\ UNCHANGED <<up, runner, children, ready, delivery, crashes, torn>>
    BY DEF RecordEdges, outside
<1>3. /\ poll' \in [Polls -> PollRow]
      /\ poll'[p] = [step |-> "decide", work |-> {}, jobs |-> {}]
      /\ \A q \in Polls \ {p} : poll'[q] = poll[q]
    BY <1>1, <1>2, StepOne
<1>4. poll[p].work \subseteq Tasks /\ \A t \in poll[p].work : task[t].state = "READY"
    BY <1>1, <1>2, Types DEF PollInv, PollRow
<1>5. edges' \subseteq Tasks \X Tasks
    <2>1. \A t \in poll[p].work : {t} \X known(t) \subseteq Tasks \X Tasks
        BY <1>4, DaemonAssumption
    <2>2. edges \subseteq Tasks \X Tasks
        BY <1>1, Types
    <2> QED
        BY <1>2, <2>1, <2>2
<1> HIDE DEF known
<1>6. ASSUME NEW t \in Tasks
      PROVE  /\ task'[t] \in TaskRow /\ task'[t].slot = task[t].slot /\ task'[t].attempt = task[t].attempt
             /\ task'[t].corrections = task[t].corrections /\ task'[t].result = task[t].result
             /\ task'[t].state = task[t].state \/ (task[t].state = "READY" /\ task'[t].state = "BLOCKED")
    <2>1. task[t] \in TaskRow
        BY <1>1, Types
    <2> QED
        BY <1>2, <1>4, <2>1, StateSets DEF TaskRow
<1>7. task' \in [Tasks -> TaskRow]
    BY <1>2, <1>6
<1>8. TypeOK'
    BY <1>1, <1>2, <1>3, <1>5, <1>7, Types, TypesNext
<1>9. ASSUME NEW t \in Tasks
      PROVE  TaskInv(t)' /\ Moves(t)
    <2>1. TaskInv(t) /\ t # p
        BY <1>1 DEF Core
    <2>2. TaskInv(t)'
        BY <1>2, <1>6, <2>1, StateSets DEF TaskInv, Working, Terminal
    <2>3. Moves(t)
        BY <1>6, Table, StateSets DEF Moves
    <2> QED
        BY <2>2, <2>3
<1>10. ASSUME NEW q \in Polls
       PROVE  PollInv(q)'
    <2>1. PollInv(q)
        BY DEF Core
    <2>2. CASE q = p
        BY <1>1, <1>2, <1>3, <2>2 DEF PollInv
    <2>3. CASE q # p
        BY <1>2, <1>3, <2>1, <2>3 DEF PollInv
    <2> QED
        BY <2>2, <2>3
<1> QED
    BY <1>8, <1>9, <1>10 DEF Core

\* What a decision chooses waited.
LEMMA ChoicesAreTasks ==
    ASSUME NEW waiting \in SUBSET Tasks, NEW chosen \in Choices(waiting)
    PROVE  chosen \subseteq waiting
BY DEF Choices, Claims

\* A decision blocks what waits in vain, and the exhausted: those have one
\* attempt, and have had it.
LEMMA DecideCore ==
    ASSUME Core, NEW p \in Polls, Decide(p)
    PROVE  Core' /\ \A t \in Tasks : Moves(t)
<1>1. TypeOK /\ p \notin Tasks /\ p # Nobody /\ PollInv(p)
    BY DaemonAssumption DEF Core
<1>2. PICK replanned \in SUBSET {t \in Tasks : Exhausted(t)} :
          task' = [t \in Tasks |->
              IF t \in Withdrawn \cup Stranded \cup replanned THEN Ended(task[t], "BLOCKED") ELSE task[t]]
    BY DEF Decide
<1>3. PICK chosen \in Choices(Tasks \ (Withdrawn \cup Stranded)) : Step(p, "start", chosen, {})
    BY DEF Decide
<1>4. /\ thread \in {p, Nobody} /\ poll[p].step \in {"idle", "decide"} /\ up /\ thread' = Nobody
      /\ UNCHANGED <<up, edges, runner, children, ready, delivery, crashes, torn>>
    BY <1>1, Types DEF Decide, outside, PollInv
<1>5. chosen \subseteq Tasks
    BY <1>3, ChoicesAreTasks
<1>6. /\ poll' \in [Polls -> PollRow]
      /\ poll'[p] = [step |-> "start", work |-> chosen, jobs |-> {}]
      /\ \A q \in Polls \ {p} : poll'[q] = poll[q]
    BY <1>1, <1>3, <1>5, StepOne
<1>7. ASSUME NEW t \in Tasks
      PROVE  /\ task'[t] \in TaskRow /\ task'[t].attempt = task[t].attempt
             /\ task'[t].corrections = task[t].corrections /\ task'[t].result = task[t].result
             /\ \/ task'[t] = task[t]
                \/ /\ task'[t].state = "BLOCKED" /\ task'[t].slot = Nobody
                   /\ task[t].state = "READY" \/ Exhausted(t)
    <2>1. task[t] \in TaskRow
        BY <1>1, Types
    <2>2. t \in Withdrawn \cup Stranded => task[t].state = "READY"
        BY DEF Withdrawn, Stranded, In
    <2>3. t \in replanned => Exhausted(t)
        OBVIOUS
    <2>4. task'[t] = IF t \in Withdrawn \cup Stranded \cup replanned THEN Ended(task[t], "BLOCKED") ELSE task[t]
        BY <1>2
    <2>5. "BLOCKED" \in States
        BY StateSets
    <2> QED
        BY <2>1, <2>2, <2>3, <2>4, <2>5, EndedRow
<1>8. task' \in [Tasks -> TaskRow]
    BY <1>2, <1>7
<1>9. TypeOK'
    BY <1>1, <1>4, <1>6, <1>8, Types, TypesNext
<1>10. ASSUME NEW t \in Tasks
       PROVE  TaskInv(t)' /\ Moves(t)
    <2>1. TaskInv(t) /\ t # p /\ t # Nobody
        BY <1>1, DaemonAssumption DEF Core
    <2>2. Exhausted(t) =>
             /\ task[t].state \in {"RUNNING", "VALIDATING"} /\ MaxAttempts[t] = 1
             /\ runner[t].step \in {"executing", "publishing"}
        <3>1. SUFFICES ASSUME Exhausted(t)
                       PROVE  /\ task[t].state \in {"RUNNING", "VALIDATING"} /\ MaxAttempts[t] = 1
                              /\ runner[t].step \in {"executing", "publishing"}
            OBVIOUS
        <3>2. task[t].state \in Active
            BY <3>1 DEF Exhausted, In
        <3>3. runner[t].step \in {"executing", "publishing"}
            BY <1>1, <1>4, <2>1, <3>2 DEF TaskInv, Working
        <3>4. task[t].state \in {"RUNNING", "VALIDATING"}
            BY <2>1, <3>2, <3>3, StateSets DEF TaskInv
        <3>5. task[t].attempt = 1 /\ MaxAttempts[t] \in Nat \ {0}
            BY <2>1, <3>2, DaemonAssumption DEF TaskInv
        <3>6. MaxAttempts[t] = 1
            BY <2>1, <3>1, <3>3, <3>5 DEF Exhausted, TaskInv, Working
        <3> QED
            BY <3>3, <3>4, <3>6
    <2>3. TaskInv(t)'
        <3>1. CASE task'[t] = task[t]
            BY <1>1, <1>4, <2>1, <3>1 DEF TaskInv
        <3>2. CASE task'[t].state = "BLOCKED" /\ task[t].state = "READY"
            BY <1>1, <1>4, <1>7, <2>1, <3>2, StateSets DEF TaskInv, Working, Terminal
        <3>3. CASE task'[t].state = "BLOCKED" /\ Exhausted(t)
            BY <1>1, <1>4, <1>7, <2>1, <2>2, <3>3, StateSets DEF TaskInv, Working, Terminal
        <3> QED
            BY <1>7, <3>1, <3>2, <3>3
    <2>4. Moves(t)
        BY <1>7, <2>2, Table, StateSets DEF Moves
    <2> QED
        BY <2>3, <2>4
<1>11. ASSUME NEW q \in Polls
       PROVE  PollInv(q)'
    <2>1. PollInv(q) /\ q # Nobody
        BY DaemonAssumption DEF Core
    <2>2. CASE q = p
        BY <1>1, <1>4, <1>6, <2>2 DEF PollInv
    <2>3. CASE q # p
        <3>1. poll[q].step # "edges"
            BY <1>4, <2>1, <2>3 DEF PollInv
        <3> QED
            BY <1>4, <1>6, <2>1, <2>3, <3>1 DEF PollInv
    <2> QED
        BY <2>2, <2>3
<1> QED
    BY <1>9, <1>10, <1>11 DEF Core

\* A step that leaves rows, runners and processes alone.
LEMMA RowsAlone ==
    ASSUME Core, UNCHANGED <<up, thread, task, edges, runner, children, delivery, crashes, torn>>,
           ready' \subseteq Tasks, poll' \in [Polls -> PollRow], \A p \in Polls : PollInv(p)'
    PROVE  Core' /\ \A t \in Tasks : Moves(t)
<1>1. TypeOK'
    BY Types, TypesNext DEF Core
<1>2. \A t \in Tasks : TaskInv(t)'
    BY DEF Core, TaskInv
<1>3. \A t \in Tasks : Moves(t)
    BY DEF Moves
<1> QED
    BY <1>1, <1>2, <1>3 DEF Core

\* Jobs of a poll that starts: tasks of its choice, in slots that are free.
LEMMA StartEffect ==
    ASSUME TypeOK, NEW p \in Polls, Start(p)
    PROVE  \E jobs \in SUBSET (Tasks \X Slots) :
              /\ up /\ thread = Nobody /\ poll[p].step = "start"
              /\ \A job \in jobs : job[1] \in poll[p].work
              /\ Step(p, "wait", {}, jobs)
<1>1. PICK started \in SUBSET poll[p].work : \E slotOf \in [started -> Slots \ Occupied] :
          Step(p, "wait", {}, {<<t, slotOf[t]>> : t \in started})
    BY DEF Start
<1>2. PICK slotOf \in [started -> Slots \ Occupied] :
          Step(p, "wait", {}, {<<t, slotOf[t]>> : t \in started})
    BY <1>1
<1>3. poll[p].work \subseteq Tasks
    BY Types DEF PollRow
<1>4. {<<t, slotOf[t]>> : t \in started} \subseteq Tasks \X Slots
    BY <1>3
<1>5. \A job \in {<<t, slotOf[t]>> : t \in started} : job[1] \in poll[p].work
    OBVIOUS
<1>6. up /\ thread = Nobody /\ poll[p].step = "start"
    BY DEF Start
<1> QED
    BY <1>2, <1>4, <1>5, <1>6

\* A poll that starts: jobs from its choice.
LEMMA StartCore ==
    ASSUME Core, NEW p \in Polls, Start(p)
    PROVE  Core' /\ \A t \in Tasks : Moves(t)
<1>1. TypeOK
    BY DEF Core
<1>2. PICK jobs \in SUBSET (Tasks \X Slots) : Step(p, "wait", {}, jobs)
    BY <1>1, StartEffect
<1>3. UNCHANGED <<up, thread, task, edges, runner, children, ready, delivery, crashes, torn>>
      /\ thread = Nobody /\ up
    BY DEF Start, store, outside
<1>4. /\ poll' \in [Polls -> PollRow]
      /\ poll'[p] = [step |-> "wait", work |-> {}, jobs |-> jobs]
      /\ \A q \in Polls \ {p} : poll'[q] = poll[q]
    BY <1>1, <1>2, StepOne
<1>5. ASSUME NEW q \in Polls
      PROVE  PollInv(q)'
    <2>1. PollInv(q) /\ q # Nobody
        BY DaemonAssumption DEF Core
    <2> QED
        BY <1>3, <1>4, <2>1 DEF PollInv
<1>6. ready' \subseteq Tasks
    BY <1>1, <1>3, Types
<1> QED
    BY <1>3, <1>4, <1>5, <1>6, RowsAlone

\* A poll that is over had nothing more to run.
LEMMA BackToIdle ==
    ASSUME Core, NEW p \in Polls, poll' = [poll EXCEPT ![p] = IdlePoll], thread = Nobody,
           \A t \in Tasks : runner[t].poll # p,
           UNCHANGED <<up, thread, task, edges, runner, children, ready, delivery, crashes, torn>>
    PROVE  Core' /\ \A t \in Tasks : Moves(t)
<1>1. IdlePoll \in PollRow /\ poll \in [Polls -> PollRow] /\ ready' \subseteq Tasks
    BY Types DEF IdlePoll, PollRow, Core
<1>2. poll' \in [Polls -> PollRow] /\ poll'[p] = IdlePoll /\ \A q \in Polls \ {p} : poll'[q] = poll[q]
    BY <1>1
<1>3. ASSUME NEW q \in Polls
      PROVE  PollInv(q)'
    <2>1. PollInv(q) /\ q # Nobody
        BY DaemonAssumption DEF Core
    <2> QED
        BY <1>2, <2>1 DEF PollInv, IdlePoll
<1> QED
    BY <1>1, <1>2, <1>3, RowsAlone

\* A poll ends when its jobs are settled.
LEMMA EndPollCore ==
    ASSUME Core, NEW p \in Polls, EndPoll(p)
    PROVE  Core' /\ \A t \in Tasks : Moves(t)
BY BackToIdle DEF EndPoll, store, outside

\* A poll that throws has claimed nothing yet.
LEMMA PollFailsCore ==
    ASSUME Core, NEW p \in Polls, PollFails(p)
    PROVE  Core' /\ \A t \in Tasks : Moves(t)
<1>1. \A t \in Tasks : runner[t].poll # p
    BY DEF PollFails, Core, PollInv
<1> QED
    BY <1>1, BackToIdle DEF PollFails, store, outside

\* Labels only decide what is ready.
LEMMA RelabelCore ==
    ASSUME Core, NEW t \in Tasks, Relabel(t)
    PROVE  Core' /\ \A u \in Tasks : Moves(u)
<1>1. UNCHANGED <<up, thread, task, edges, poll, runner, children, delivery, crashes, torn>>
    BY DEF Relabel, store
<1>2. ready' \subseteq Tasks /\ poll' \in [Polls -> PollRow]
    BY <1>1, Types DEF Relabel, Core
<1>3. \A p \in Polls : PollInv(p)'
    BY <1>1 DEF Core, PollInv
<1> QED
    BY <1>1, <1>2, <1>3, RowsAlone

\* A claim uses up a job of its poll.
LEMMA ClaimPoll ==
    ASSUME TypeOK, NEW p \in Polls, NEW t \in Tasks, NEW s \in Slots, Claim(p, t, s)
    PROVE  /\ up /\ thread = Nobody /\ <<t, s>> \in poll[p].jobs
           /\ poll' \in [Polls -> PollRow]
           /\ poll'[p] = [step |-> "wait", work |-> {}, jobs |-> poll[p].jobs \ {<<t, s>>}]
           /\ \A q \in Polls \ {p} : poll'[q] = poll[q]
           /\ UNCHANGED <<up, edges, children, ready, delivery, crashes, torn>>
<1>1. /\ up /\ thread = Nobody /\ <<t, s>> \in poll[p].jobs
      /\ Step(p, "wait", {}, poll[p].jobs \ {<<t, s>>})
      /\ UNCHANGED <<up, edges, children, ready, delivery, crashes, torn>>
    BY DEF Claim, outside
<1>2. poll[p].jobs \ {<<t, s>>} \in SUBSET (Tasks \X Slots)
    BY Types DEF PollRow
<1>3. /\ poll' \in [Polls -> PollRow]
      /\ poll'[p] = [step |-> "wait", work |-> {}, jobs |-> poll[p].jobs \ {<<t, s>>}]
      /\ \A q \in Polls \ {p} : poll'[q] = poll[q]
    BY <1>1, <1>2, StepOne
<1> QED
    BY <1>1, <1>3

\* A claim that is granted.
Granted(p, t, s) ==
    /\ task[t].state = "READY" /\ s \notin Occupied /\ thread' = t
    /\ task' \in [Tasks -> TaskRow] /\ runner' \in [Tasks -> RunnerRow]
    /\ \A u \in Tasks \ {t} : task'[u] = task[u] /\ runner'[u] = runner[u]
    /\ task'[t].state = "CLAIMED" /\ task'[t].slot = s
    /\ task'[t].attempt = task[t].attempt + 1
    /\ task'[t].corrections = task[t].corrections /\ task'[t].result = task[t].result
    /\ runner'[t] = [step |-> "claimed", poll |-> p]

\* A claim is granted, or it changes no row.
LEMMA ClaimRow ==
    ASSUME TypeOK, NEW p \in Polls, NEW t \in Tasks, NEW s \in Slots, Claim(p, t, s)
    PROVE  Granted(p, t, s) \/ UNCHANGED <<task, runner, thread>>
<1>1. CASE /\ task[t].state = "READY" /\ s \notin Occupied /\ thread' = t
           /\ task' = [task EXCEPT ![t].state = "CLAIMED", ![t].slot = s, ![t].attempt = @ + 1]
           /\ runner' = [runner EXCEPT ![t] = [step |-> "claimed", poll |-> p]]
    <2>1. /\ task \in [Tasks -> TaskRow] /\ runner \in [Tasks -> RunnerRow]
          /\ [step |-> "claimed", poll |-> p] \in RunnerRow
        BY Types DEF RunnerRow
    <2>2. /\ runner' \in [Tasks -> RunnerRow] /\ runner'[t] = [step |-> "claimed", poll |-> p]
          /\ \A u \in Tasks \ {t} : runner'[u] = runner[u]
        BY <1>1, <2>1
    <2>3. /\ task' \in [Tasks -> TaskRow]
          /\ \A u \in Tasks \ {t} : task'[u] = task[u]
          /\ task'[t].state = "CLAIMED" /\ task'[t].slot = s
          /\ task'[t].attempt = task[t].attempt + 1
          /\ task'[t].corrections = task[t].corrections /\ task'[t].result = task[t].result
        BY <1>1, <2>1, StateSets DEF TaskRow
    <2> QED
        BY <1>1, <2>2, <2>3 DEF Granted
<1> QED
    BY <1>1 DEF Claim, In

\* A granted claim: a waiting task becomes active under its poll.
LEMMA ClaimCore ==
    ASSUME Core, NEW p \in Polls, NEW t \in Tasks, NEW s \in Slots, Claim(p, t, s)
    PROVE  Core'
<1>1. TypeOK /\ p \notin Tasks /\ p # Nobody /\ t # Nobody /\ t \notin Polls
    BY DaemonAssumption DEF Core
<1>2. /\ up /\ thread = Nobody /\ <<t, s>> \in poll[p].jobs
      /\ poll' \in [Polls -> PollRow]
      /\ poll'[p] = [step |-> "wait", work |-> {}, jobs |-> poll[p].jobs \ {<<t, s>>}]
      /\ \A q \in Polls \ {p} : poll'[q] = poll[q]
      /\ UNCHANGED <<up, edges, children, ready, delivery, crashes, torn>>
    BY <1>1, ClaimPoll
<1>3. poll[p].step = "wait"
    BY <1>2 DEF Core, PollInv
<1>4. CASE UNCHANGED <<task, runner, thread>>
    <2>1. ASSUME NEW q \in Polls
          PROVE  PollInv(q)'
        <3>1. PollInv(q) /\ q # Nobody
            BY DaemonAssumption DEF Core
        <3> QED
            BY <1>2, <1>3, <1>4, <3>1 DEF PollInv
    <2>2. ready' \subseteq Tasks
        BY <1>1, <1>2, Types
    <2> QED
        BY <1>2, <1>4, <2>1, <2>2, RowsAlone
<1>5. CASE Granted(p, t, s)
    <2>0. /\ task[t].state = "READY" /\ thread' = t
          /\ task' \in [Tasks -> TaskRow] /\ runner' \in [Tasks -> RunnerRow]
          /\ \A u \in Tasks \ {t} : task'[u] = task[u] /\ runner'[u] = runner[u]
          /\ task'[t].state = "CLAIMED"
          /\ task'[t].attempt = task[t].attempt + 1
          /\ task'[t].corrections = task[t].corrections
          /\ runner'[t] = [step |-> "claimed", poll |-> p]
        BY <1>5 DEF Granted
    <2>1. TypeOK'
        BY <1>1, <1>2, <2>0, Types, TypesNext
    <2>2. ASSUME NEW u \in Tasks \ {t}
          PROVE  TaskInv(u)'
        <3>1. TaskInv(u) /\ u # Nobody
            BY DaemonAssumption DEF Core
        <3> QED
            BY <1>2, <2>0, <2>2, <3>1 DEF TaskInv
    <2>3. TaskInv(t)'
        <3>1. TaskInv(t) /\ MaxAttempts[t] \in Nat \ {0}
            BY DaemonAssumption DEF Core
        <3>2. t \notin children
            BY <2>0, <3>1 DEF TaskInv
        <3> QED
            BY <1>1, <1>2, <2>0, <3>1, <3>2, StateSets DEF TaskInv, Working, Terminal
    <2>4. ASSUME NEW q \in Polls
          PROVE  PollInv(q)'
        <3>1. PollInv(q) /\ q # Nobody /\ q # t
            BY <1>1, DaemonAssumption DEF Core
        <3>2. CASE q = p
            BY <1>1, <1>2, <2>0, <3>2 DEF PollInv
        <3>3. CASE q # p
            BY <1>2, <2>0, <3>1, <3>3 DEF PollInv
        <3> QED
            BY <3>2, <3>3
    <2> QED
        BY <2>1, <2>2, <2>3, <2>4 DEF Core
<1> QED
    BY <1>1, <1>4, <1>5, ClaimRow

\* A crash forgets polls, runners and processes; rows stay as they are.
LEMMA CrashCore ==
    ASSUME Core, Crash
    PROVE  Core' /\ \A t \in Tasks : Moves(t)
<1>1. TypeOK
    BY DEF Core
<1>2. /\ up' = FALSE /\ thread' = Nobody
      /\ poll' = [p \in Polls |-> IdlePoll]
      /\ runner' = [t \in Tasks |-> IF runner[t].poll # Nobody THEN NoRunner ELSE runner[t]]
      /\ children' = {} /\ crashes < MaxCrashes /\ crashes' = crashes + 1
      /\ UNCHANGED <<task, edges, ready, delivery>>
    BY DEF Crash, store
<1>3. /\ poll' \in [Polls -> PollRow] /\ \A p \in Polls : poll'[p] = IdlePoll
      /\ runner' \in [Tasks -> RunnerRow]
    BY <1>1, <1>2, Types DEF IdlePoll, PollRow, NoRunner, RunnerRow
<1>4. torn' \subseteq Tasks
    <2>1. torn \subseteq Tasks /\ \A p \in Polls : poll[p].work \subseteq Tasks
        BY <1>1, Types DEF PollRow
    <2> QED
        BY <2>1 DEF Crash
<1>5. crashes' \in 0..MaxCrashes
    BY <1>1, <1>2, Types, DaemonAssumption
<1>6. TypeOK'
    BY <1>1, <1>2, <1>3, <1>4, <1>5, Types, TypesNext
<1>7. ASSUME NEW t \in Tasks
      PROVE  TaskInv(t)'
    <2>1. TaskInv(t) /\ t # Nobody
        BY DaemonAssumption DEF Core
    <2>2. runner'[t] = IF runner[t].poll # Nobody THEN NoRunner ELSE runner[t]
        BY <1>2
    <2>3. CASE runner[t].poll # Nobody
        BY <1>2, <2>1, <2>2, <2>3 DEF TaskInv, Working, NoRunner
    <2>4. CASE runner[t].poll = Nobody
        BY <1>2, <2>1, <2>2, <2>4 DEF TaskInv, Working
    <2> QED
        BY <2>3, <2>4
<1>8. ASSUME NEW p \in Polls
      PROVE  PollInv(p)'
    <2>1. \A t \in Tasks : runner'[t].poll = Nobody
        BY <1>2 DEF NoRunner
    <2> QED
        BY <1>2, <1>3, <2>1, DaemonAssumption DEF PollInv, IdlePoll
<1>9. \A t \in Tasks : Moves(t)
    BY <1>2 DEF Moves
<1> QED
    BY <1>6, <1>7, <1>8, <1>9 DEF Core

\* A host that starts fails every active task.
LEMMA StartHostCore ==
    ASSUME Core, StartHost
    PROVE  Core' /\ \A t \in Tasks : Moves(t)
<1>1. TypeOK
    BY DEF Core
<1>2. /\ ~up /\ up' = TRUE
      /\ task' = [t \in Tasks |->
            IF In(t, Active) THEN [Ended(task[t], "FAILED") EXCEPT !.result = "error"] ELSE task[t]]
      /\ UNCHANGED <<thread, edges, poll, runner, children, ready, delivery, crashes, torn>>
    BY DEF StartHost, outside
<1>3. ASSUME NEW t \in Tasks
      PROVE  /\ task'[t] \in TaskRow /\ task'[t].attempt = task[t].attempt
             /\ task[t].state \notin Active => task'[t] = task[t]
             /\ task[t].state \in Active => task'[t].state = "FAILED"
    <2>1. task[t] \in TaskRow
        BY <1>1, Types
    <2>2. /\ Ended(task[t], "FAILED") \in TaskRow /\ Ended(task[t], "FAILED").state = "FAILED"
          /\ Ended(task[t], "FAILED").attempt = task[t].attempt
        BY <2>1, EndedRow, StateSets
    <2>3. task'[t] = IF In(t, Active) THEN [Ended(task[t], "FAILED") EXCEPT !.result = "error"] ELSE task[t]
        BY <1>2
    <2> HIDE DEF Ended
    <2> QED
        BY <2>1, <2>2, <2>3 DEF In, TaskRow
<1>4. task' \in [Tasks -> TaskRow]
    BY <1>2, <1>3
<1>5. TypeOK'
    BY <1>1, <1>2, <1>4, Types, TypesNext
<1>6. ASSUME NEW t \in Tasks
      PROVE  TaskInv(t)' /\ Moves(t)
    <2>1. TaskInv(t)
        BY DEF Core
    <2>2. CASE task[t].state \notin Active
        BY <1>2, <1>3, <2>1, <2>2 DEF TaskInv, Moves
    <2>3. CASE task[t].state \in Active
        <3>1. task[t].state \in {"CLAIMED", "RUNNING", "VALIDATING"}
            BY <2>1, <2>3, StateSets DEF TaskInv
        <3>2. task'[t].state = "FAILED" /\ task'[t].attempt = task[t].attempt
            BY <1>3, <2>3
        <3>3. TaskInv(t)'
            BY <1>2, <2>1, <3>1, <3>2, StateSets DEF TaskInv, Working, Terminal
        <3>4. Moves(t)
            BY <3>1, <3>2, Table, StateSets DEF Moves
        <3> QED
            BY <3>3, <3>4
    <2> QED
        BY <2>2, <2>3
<1>7. ASSUME NEW p \in Polls
      PROVE  PollInv(p)'
    <2>1. PollInv(p) /\ poll[p].step = "idle"
        BY <1>2 DEF Core, PollInv
    <2> QED
        BY <1>2, <2>1 DEF PollInv
<1> QED
    BY <1>5, <1>6, <1>7 DEF Core

\* Every step but a claim.
LEMMA StepMoves ==
    ASSUME Core, Next
    PROVE  /\ Core'
           /\ \/ \A t \in Tasks : Moves(t)
              \/ \E p \in Polls, t \in Tasks, s \in Slots : Claim(p, t, s)
<1>1. ASSUME NEW p \in Polls, PollStep(p) \/ PollFails(p)
      PROVE  /\ Core'
             /\ \/ \A t \in Tasks : Moves(t)
                \/ \E t \in Tasks, s \in Slots : Claim(p, t, s)
    BY <1>1, ImportCore, RecordEdgesCore, DecideCore, StartCore, EndPollCore, PollFailsCore, ClaimCore
       DEF PollStep
<1>2. ASSUME NEW t \in Tasks, RunnerStep(t) \/ Relabel(t)
      PROVE  Core' /\ \A u \in Tasks : Moves(u)
    BY <1>2, RunnerCore, RelabelCore
<1>3. ASSUME Crash \/ StartHost
      PROVE  Core' /\ \A u \in Tasks : Moves(u)
    BY <1>3, CrashCore, StartHostCore
<1> QED
    BY <1>1, <1>2, <1>3 DEF Next

\* Every step keeps the shape of rows, polls and runners.
LEMMA StepCore ==
    ASSUME Core, Next
    PROVE  Core'
<1>1. ASSUME NEW p \in Polls, PollStep(p) \/ PollFails(p)
      PROVE  Core'
    BY <1>1, ImportCore, RecordEdgesCore, DecideCore, StartCore, EndPollCore, PollFailsCore, ClaimCore
       DEF PollStep
<1>2. ASSUME NEW t \in Tasks, RunnerStep(t) \/ Relabel(t)
      PROVE  Core'
    BY <1>2, RunnerCore, RelabelCore
<1>3. ASSUME Crash \/ StartHost
      PROVE  Core'
    BY <1>3, CrashCore, StartHostCore
<1> QED
    BY <1>1, <1>2, <1>3 DEF Next

\* At the start no task has a row.
LEMMA InitCore == Init => Core
<1> SUFFICES ASSUME Init PROVE Core
    OBVIOUS
<1>1. TypeOK
    BY DaemonAssumption DEF Init, TypeOK, NoTask, IdlePoll, NoRunner
<1>2. ASSUME NEW t \in Tasks
      PROVE  TaskInv(t)
    BY DaemonAssumption, StateSets DEF Init, TaskInv, NoTask, NoRunner, Working, Terminal
<1>3. ASSUME NEW p \in Polls
      PROVE  PollInv(p)
    BY DaemonAssumption DEF Init, PollInv, IdlePoll, NoRunner
<1> QED
    BY <1>1, <1>2, <1>3 DEF Core

\* A stuttering step.
LEMMA Stutters ==
    ASSUME Core, UNCHANGED vars
    PROVE  Core'
<1>1. UNCHANGED <<up, thread, task, edges, poll, runner, children, ready, delivery, crashes, torn>>
    BY DEF vars, store, outside
<1>2. TypeOK'
    BY <1>1 DEF Core, TypeOK
<1>3. \A t \in Tasks : TaskInv(t)'
    BY <1>1 DEF Core, TaskInv
<1>4. \A p \in Polls : PollInv(p)'
    BY <1>1 DEF Core, PollInv
<1> QED
    BY <1>2, <1>3, <1>4 DEF Core

\* Core is an invariant.
LEMMA CoreHolds == Spec => []Core
<1>1. Core /\ [Next]_vars => Core'
    <2>1. Core /\ Next => Core'
        BY StepCore
    <2>2. Core /\ UNCHANGED vars => Core'
        BY Stutters
    <2> QED
        BY <2>1, <2>2
<1> QED
    BY <1>1, InitCore, PTL DEF Spec

\* Rows, polls and runners hold what the schema and the code allow, for all
\* numbers of tasks, slots and polls (scripts/orchestration-v4/).
THEOREM TypeCorrect == Spec => []TypeOK
BY CoreHolds, PTL DEF Core

-------------------------------------------------------------------------------
\* Claims.
SlotInv ==
    \A t, u \in Tasks :
        task[t].state \in Active /\ task[u].state \in Active /\ task[t].slot = task[u].slot => t = u

\* A claim takes a slot nobody occupies, every other step keeps or frees one.
LEMMA KeepsSlots ==
    ASSUME Core, SlotInv, Next
    PROVE  SlotInv'
<1>1. ASSUME \A t \in Tasks : Moves(t)
      PROVE  SlotInv'
    BY <1>1 DEF SlotInv, Moves
<1>2. ASSUME NEW p \in Polls, NEW t \in Tasks, NEW s \in Slots, Claim(p, t, s)
      PROVE  SlotInv'
    <2>1. TypeOK
        BY DEF Core
    <2>2. CASE Granted(p, t, s)
        <3>1. /\ s \notin Occupied /\ task'[t].slot = s
              /\ \A u \in Tasks \ {t} : task'[u] = task[u]
            BY <2>2 DEF Granted
        <3>2. \A u \in Tasks : task[u].state \in Active => task[u].slot # s
            BY <3>1 DEF Occupied, ActiveTasks, In
        <3> QED
            BY <3>1, <3>2 DEF SlotInv
    <2>3. CASE UNCHANGED <<task, runner, thread>>
        BY <2>3 DEF SlotInv
    <2> QED
        BY <1>2, <2>1, <2>2, <2>3, ClaimRow
<1>3. CASE \E p \in Polls, t \in Tasks, s \in Slots : Claim(p, t, s)
    BY <1>2, <1>3
<1>4. CASE \A t \in Tasks : Moves(t)
    BY <1>1, <1>4
<1> QED
    BY <1>3, <1>4, StepMoves, Zenon

\* Overlapping polls run no task twice and no two live tasks in one slot: the
\* claim reads state and slots again after the awaits (runV4Task, claimTask).
THEOREM ClaimExclusion == Spec => []ClaimsExclude
<1>1. Init => SlotInv
    BY StateSets DEF Init, SlotInv, NoTask
<1>2. Core /\ SlotInv /\ [Next]_vars => SlotInv'
    <2>1. Core /\ SlotInv /\ Next => SlotInv'
        BY KeepsSlots
    <2>2. SlotInv /\ UNCHANGED vars => SlotInv'
        BY DEF SlotInv, vars, store
    <2> QED
        BY <2>1, <2>2
<1>3. Core /\ SlotInv => ClaimsExclude
    <2> SUFFICES ASSUME Core, SlotInv PROVE ClaimsExclude
        OBVIOUS
    <2>1. \A t \in Tasks : task[t].attempt <= 1
        BY DEF Core, TaskInv
    <2> QED
        BY <2>1 DEF SlotInv, ClaimsExclude, ActiveTasks, In
<1> QED
    BY <1>1, <1>2, <1>3, CoreHolds, PTL DEF Spec

-------------------------------------------------------------------------------
\* Deployments, processes and the table: what TaskInv says of every task.

\* A task's state tells what became of its change, whatever died meanwhile
\* (completeTask, the catch block of runV4Task, recoverStartup).
THEOREM StateTellsDeployment == Spec => []DeployedIsComplete
<1>1. Core => DeployedIsComplete
    BY DEF Core, TaskInv, DeployedIsComplete, In, RunnerAt
<1> QED
    BY <1>1, CoreHolds, PTL

\* The evidence of a deployment survives in the result of its task.
THEOREM EvidenceIsRecorded == Spec => []DeploymentIsRecorded
<1>1. Core => DeploymentIsRecorded
    BY DEF Core, TaskInv, DeploymentIsRecorded, RunnerAt
<1> QED
    BY <1>1, CoreHolds, PTL

\* A process has a runner that watches it, but for the second one of a task
\* of one attempt that was ended under the first.
THEOREM ProcessesHaveRunners == Spec => []ProcessesAreWatched
<1>1. Core => ProcessesAreWatched
    BY DEF Core, TaskInv, ProcessesAreWatched, In, RunnerAt
<1> QED
    BY <1>1, CoreHolds, PTL

\* No step writes a state the table does not allow.
LEMMA RowsMove ==
    ASSUME Core, Next, NEW t \in Tasks
    PROVE  \/ task'[t].state = task[t].state
           \/ task[t].state = Absent /\ task'[t].state = "READY"
           \/ <<task[t].state, task'[t].state>> \in Allowed
<1>1. ASSUME NEW p \in Polls, NEW u \in Tasks, NEW s \in Slots, Claim(p, u, s)
      PROVE  task'[t].state = task[t].state \/ (task[t].state = "READY" /\ task'[t].state = "CLAIMED")
    <2>1. TypeOK
        BY DEF Core
    <2>2. CASE Granted(p, u, s)
        BY <2>2 DEF Granted
    <2>3. CASE UNCHANGED <<task, runner, thread>>
        BY <2>3
    <2> QED
        BY <1>1, <2>1, <2>2, <2>3, ClaimRow
<1>2. CASE \E p \in Polls, u \in Tasks, s \in Slots : Claim(p, u, s)
    BY <1>1, <1>2, Table
<1>3. CASE \A u \in Tasks : Moves(u)
    BY <1>3 DEF Moves
<1> QED
    BY <1>2, <1>3, StepMoves, Zenon

\* The abstract life cycle speaks of the same table.
LEMMA LifecycleTable ==
    Lifecycle!Allowed = Allowed /\ Lifecycle!States = States /\ Lifecycle!Absent = Absent
BY DEF Lifecycle!Allowed, Allowed, Lifecycle!States, States, Lifecycle!Absent, Absent,
       Lifecycle!Active, Active, Lifecycle!Terminal, Terminal

\* Every write of a state follows the table of state-machine.mjs, those of the
\* stores that do not ask it included.
THEOREM ImplementsLifecycle == Spec => FollowsLifecycle
<1>1. Init => Lifecycle!Init
    BY LifecycleTable DEF Init, Lifecycle!Init, NoTask
<1>2. Core /\ Core' /\ [Next]_vars => [Lifecycle!Next]_[t \in Tasks |-> task[t].state]
    <2>1. ASSUME UNCHANGED vars
          PROVE  UNCHANGED [t \in Tasks |-> task[t].state]
        BY <2>1 DEF vars, store
    <2>2. ASSUME Core, Core', Next
          PROVE  Lifecycle!Next
        <3>1. [t \in Tasks |-> task'[t].state] \in [Tasks -> States \cup {Absent}]
            <4>1. TypeOK'
                BY <2>2 DEF Core
            <4> QED
                BY <4>1 DEF TypeOK
        <3>2. ASSUME NEW t \in Tasks
              PROVE  Lifecycle!Move(t)
            BY <2>2, RowsMove, LifecycleTable DEF Lifecycle!Move
        <3> QED
            BY <3>1, <3>2, LifecycleTable DEF Lifecycle!Next
    <2> QED
        BY <2>1, <2>2
<1>3. Spec => Lifecycle!Init
    BY <1>1, PTL DEF Spec
<1>4. Spec => [][Lifecycle!Next]_[t \in Tasks |-> task[t].state]
    BY <1>2, CoreHolds, PTL DEF Spec
<1> QED
    BY <1>3, <1>4, PTL DEF FollowsLifecycle, Lifecycle!Spec

-------------------------------------------------------------------------------
\* Hands: what a poll has chosen and not claimed yet, and what it runs.
Chosen(p, t) ==
    \/ poll[p].step = "start" /\ t \in poll[p].work
    \/ \E s \in Slots : <<t, s>> \in poll[p].jobs

\* Nobody chooses anything, and what a poll runs it ran or had chosen before.
Holds ==
    \A p \in Polls, t \in Tasks :
        /\ Chosen(p, t)' => Chosen(p, t)
        /\ runner'[t].poll = p => runner[t].poll = p \/ Chosen(p, t)

\* A poll whose step leaves every other poll and every runner alone.
LEMMA HandsOfOne ==
    ASSUME Core, NEW p \in Polls, UNCHANGED runner, \A q \in Polls \ {p} : poll'[q] = poll[q],
           \A t \in Tasks : Chosen(p, t)' => Chosen(p, t)
    PROVE  Holds
<1> SUFFICES ASSUME NEW q \in Polls, NEW t \in Tasks
             PROVE  Chosen(q, t)' => Chosen(q, t)
    BY DEF Holds
<1>1. CASE q = p
    BY <1>1
<1>2. CASE q # p
    BY <1>2 DEF Chosen
<1> QED
    BY <1>1, <1>2

\* A poll that chooses.
LEMMA DecideHands ==
    ASSUME Core, NEW p \in Polls, Decide(p)
    PROVE  \E chosen \in Choices(Tasks \ (Withdrawn \cup Stranded)) :
              /\ chosen \subseteq Tasks
              /\ \A q \in Polls, t \in Tasks : Chosen(q, t)' => Chosen(q, t) \/ (q = p /\ t \in chosen)
<1>1. PICK chosen \in Choices(Tasks \ (Withdrawn \cup Stranded)) : Step(p, "start", chosen, {})
    BY DEF Decide
<1>2. chosen \subseteq Tasks
    BY <1>1, ChoicesAreTasks
<1>3. /\ poll'[p] = [step |-> "start", work |-> chosen, jobs |-> {}]
      /\ \A q \in Polls \ {p} : poll'[q] = poll[q]
    BY <1>1, <1>2, StepOne DEF Core
<1>4. ASSUME NEW q \in Polls, NEW t \in Tasks, Chosen(q, t)'
      PROVE  Chosen(q, t) \/ (q = p /\ t \in chosen)
    BY <1>3, <1>4 DEF Chosen
<1> QED
    BY <1>1, <1>2, <1>4

\* The steps of a poll but its decision and its claims.
LEMMA PollHands ==
    ASSUME Core, NEW p \in Polls,
           Import(p) \/ RecordEdges(p) \/ Start(p) \/ EndPoll(p) \/ PollFails(p)
    PROVE  Holds
<1>1. TypeOK
    BY DEF Core
<1>2. CASE Import(p)
    <2>0. New \subseteq Tasks
        BY <1>1, Types DEF New
    <2>1. Step(p, "edges", New, {}) /\ UNCHANGED runner
        BY <1>2 DEF Import
    <2>2. /\ poll'[p] = [step |-> "edges", work |-> New, jobs |-> {}]
          /\ \A q \in Polls \ {p} : poll'[q] = poll[q]
        BY <1>1, <2>0, <2>1, StepOne
    <2>3. \A t \in Tasks : ~Chosen(p, t)'
        BY <2>2 DEF Chosen
    <2> QED
        BY <2>1, <2>2, <2>3, HandsOfOne
<1>3. CASE RecordEdges(p)
    <2>1. Step(p, "decide", {}, {}) /\ UNCHANGED runner
        BY <1>3 DEF RecordEdges
    <2>2. /\ poll'[p] = [step |-> "decide", work |-> {}, jobs |-> {}]
          /\ \A q \in Polls \ {p} : poll'[q] = poll[q]
        BY <1>1, <2>1, StepOne
    <2>3. \A t \in Tasks : ~Chosen(p, t)'
        BY <2>2 DEF Chosen
    <2> QED
        BY <2>1, <2>2, <2>3, HandsOfOne
<1>4. CASE Start(p)
    <2>1. PICK jobs \in SUBSET (Tasks \X Slots) :
              /\ poll[p].step = "start"
              /\ \A job \in jobs : job[1] \in poll[p].work
              /\ Step(p, "wait", {}, jobs)
        BY <1>1, <1>4, StartEffect
    <2>2. /\ poll'[p] = [step |-> "wait", work |-> {}, jobs |-> jobs]
          /\ \A q \in Polls \ {p} : poll'[q] = poll[q]
        BY <1>1, <2>1, StepOne
    <2>3. UNCHANGED runner
        BY <1>4 DEF Start
    <2>4. \A t \in Tasks : Chosen(p, t)' => Chosen(p, t)
        <3>1. \A t \in Tasks, s \in Slots : <<t, s>> \in jobs => t \in poll[p].work
            BY <2>1
        <3> QED
            BY <2>1, <2>2, <3>1 DEF Chosen
    <2> QED
        BY <2>2, <2>3, <2>4, HandsOfOne
<1>5. CASE EndPoll(p) \/ PollFails(p)
    <2>1. poll' = [poll EXCEPT ![p] = IdlePoll] /\ UNCHANGED runner
        BY <1>5 DEF EndPoll, PollFails
    <2>2. poll'[p] = IdlePoll /\ \A q \in Polls \ {p} : poll'[q] = poll[q]
        BY <1>1, <2>1, Types
    <2>3. \A t \in Tasks : ~Chosen(p, t)'
        BY <2>2 DEF Chosen, IdlePoll
    <2> QED
        BY <2>1, <2>2, <2>3, HandsOfOne
<1> QED
    BY <1>2, <1>3, <1>4, <1>5

\* A claim takes a job to the runner of its task.
LEMMA ClaimHands ==
    ASSUME Core, NEW p \in Polls, NEW t \in Tasks, NEW s \in Slots, Claim(p, t, s)
    PROVE  Holds /\ Chosen(p, t)
<1>1. TypeOK
    BY DEF Core
<1>2. /\ <<t, s>> \in poll[p].jobs
      /\ poll'[p] = [step |-> "wait", work |-> {}, jobs |-> poll[p].jobs \ {<<t, s>>}]
      /\ \A q \in Polls \ {p} : poll'[q] = poll[q]
    BY <1>1, ClaimPoll
<1>3. Chosen(p, t)
    BY <1>2 DEF Chosen
<1>4. ASSUME NEW q \in Polls, NEW u \in Tasks
      PROVE  /\ Chosen(q, u)' => Chosen(q, u)
             /\ runner'[u].poll = q => runner[u].poll = q \/ Chosen(q, u)
    <2>1. Chosen(q, u)' => Chosen(q, u)
        BY <1>2 DEF Chosen
    <2>2. CASE Granted(p, t, s)
        BY <1>3, <2>1, <2>2 DEF Granted
    <2>3. CASE UNCHANGED <<task, runner, thread>>
        BY <2>1, <2>3
    <2> QED
        BY <1>1, <2>2, <2>3, ClaimRow
<1> QED
    BY <1>3, <1>4 DEF Holds

\* Only a decision puts a task in the hands of a poll.
LEMMA HandsStep ==
    ASSUME Core, Next
    PROVE  Holds \/ \E p \in Polls : Decide(p)
<1>1. ASSUME NEW p \in Polls, PollStep(p) \/ PollFails(p)
      PROVE  Holds \/ Decide(p)
    BY <1>1, PollHands, ClaimHands DEF PollStep
<1>2. ASSUME NEW t \in Tasks, RunnerStep(t) \/ Relabel(t)
      PROVE  Holds
    <2>1. poll' = poll /\ \A u \in Tasks : runner'[u].poll \in {runner[u].poll, Nobody}
        <3>1. CASE RunnerStep(t)
            BY <3>1, RunnerStepKeeps DEF OnlyTask, Follows
        <3>2. CASE Relabel(t)
            BY <3>2 DEF Relabel
        <3> QED
            BY <1>2, <3>1, <3>2
    <2> QED
        BY <2>1, DaemonAssumption DEF Holds, Chosen
<1>3. CASE Crash
    <2>1. \A p \in Polls : poll'[p] = IdlePoll
        BY <1>3 DEF Crash
    <2>2. \A t \in Tasks : runner'[t].poll = Nobody
        BY <1>3 DEF Crash, NoRunner
    <2> QED
        <3> SUFFICES ASSUME NEW p \in Polls, NEW t \in Tasks
                     PROVE  ~Chosen(p, t)' /\ runner'[t].poll # p
            BY DEF Holds
        <3>1. poll'[p].step = "idle" /\ poll'[p].jobs = {}
            BY <2>1 DEF IdlePoll
        <3> QED
            BY <2>2, <3>1, DaemonAssumption DEF Chosen
<1>4. CASE StartHost
    BY <1>4 DEF StartHost, Holds, Chosen
<1> QED
    BY <1>1, <1>2, <1>3, <1>4 DEF Next

-------------------------------------------------------------------------------
\* Files: what one poll has in hand owns no common file.
FilesInv ==
    \A p \in Polls : \A t, u \in Tasks :
        /\ Chosen(p, t) \/ runner[t].poll = p
        /\ Chosen(p, u) \/ runner[u].poll = p
        => {t, u} \notin Conflicting \/ t = u

\* A decision compares the files of what it chooses; it had nothing before.
LEMMA KeepsFiles ==
    ASSUME Core, FilesInv, Next
    PROVE  FilesInv'
<1>1. CASE Holds
    BY <1>1 DEF FilesInv, Holds
<1>2. ASSUME NEW p \in Polls, Decide(p)
      PROVE  FilesInv'
    <2>1. PICK chosen \in Choices(Tasks \ (Withdrawn \cup Stranded)) :
              \A q \in Polls, t \in Tasks : Chosen(q, t)' => Chosen(q, t) \/ (q = p /\ t \in chosen)
        BY <1>2, DecideHands
    <2>2. \A t, u \in chosen : {t, u} \notin Conflicting
        <3>1. PICK claims \in Claims(Tasks \ (Withdrawn \cup Stranded)) : chosen \subseteq claims
            BY <2>1 DEF Choices
        <3>2. \A t \in claims : \A u \in claims : {t, u} \notin Conflicting
            BY DEF Claims
        <3> QED
            BY <3>1, <3>2
    <2>3. UNCHANGED runner
        BY <1>2 DEF Decide
    <2>4. \A t \in Tasks : runner[t].poll # p /\ ~Chosen(p, t)
        <3>1. poll[p].step \in {"idle", "decide"} /\ PollInv(p)
            BY <1>2 DEF Decide, Core
        <3> QED
            BY <3>1 DEF PollInv, Chosen
    <2>5. ASSUME NEW q \in Polls, NEW t \in Tasks, NEW u \in Tasks,
                 Chosen(q, t)' \/ runner'[t].poll = q, Chosen(q, u)' \/ runner'[u].poll = q
          PROVE  {t, u} \notin Conflicting \/ t = u
        <3>1. CASE q = p
            BY <2>1, <2>2, <2>3, <2>4, <2>5, <3>1
        <3>2. CASE q # p
            BY <2>1, <2>3, <2>5, <3>2 DEF FilesInv
        <3> QED
            BY <3>1, <3>2
    <2> QED
        BY <2>5 DEF FilesInv
<1> QED
    BY <1>1, <1>2, HandsStep

\* Two live tasks that own a common file were claimed by different polls: one
\* decision compares the files of all it holds (decideAtomicContinuity).
THEOREM OnePollComparesFiles == Spec => []OnePollKeepsFilesApart
<1>1. Init => FilesInv
    <2> SUFFICES ASSUME Init, NEW p \in Polls, NEW t \in Tasks
                 PROVE  ~Chosen(p, t) /\ runner[t].poll # p
        BY DEF FilesInv
    <2>1. poll[p] = IdlePoll /\ runner[t].poll = Nobody
        BY DEF Init, NoRunner
    <2> QED
        BY <2>1, DaemonAssumption DEF Chosen, IdlePoll
<1>2. Core /\ FilesInv /\ [Next]_vars => FilesInv'
    <2>1. Core /\ FilesInv /\ Next => FilesInv'
        BY KeepsFiles
    <2>2. FilesInv /\ UNCHANGED vars => FilesInv'
        BY DEF FilesInv, Chosen, vars
    <2> QED
        BY <2>1, <2>2
<1>3. Core /\ FilesInv => OnePollKeepsFilesApart
    <2> SUFFICES ASSUME Core, FilesInv, up, NEW t \in Tasks, NEW u \in Tasks,
                        task[t].state \in Active, task[u].state \in Active,
                        {t, u} \in Conflicting, runner[t].poll = runner[u].poll
                 PROVE  t = u
        BY DEF OnePollKeepsFilesApart, ActiveTasks, In
    <2>1. runner[t].poll # Nobody
        BY DEF Core, TaskInv
    <2>2. runner[t].poll \in Polls
        BY <2>1, Types DEF Core, RunnerRow
    <2> QED
        BY <2>2 DEF FilesInv
<1> QED
    BY <1>1, <1>2, <1>3, CoreHolds, PTL DEF Spec

-------------------------------------------------------------------------------
\* Dependencies.
Supplied(t) == t \in torn \/ \A u \in Upstream[t] : task[u].state = "COMPLETE"

\* A task that waits has its edges, or the poll that imported it writes them.
HasEdges(t) ==
    task[t].state = "READY" =>
        \/ \A u \in Upstream[t] : <<t, u>> \in edges
        \/ \E p \in Polls : poll[p].step = "edges" /\ t \in poll[p].work

\* What has started or is chosen is supplied; what waits has its edges.
SupplyInv ==
    \A t \in Tasks :
        /\ task[t].attempt > 0 => Supplied(t)
        /\ \A p \in Polls : Chosen(p, t) => Supplied(t)
        /\ t \notin torn => HasEdges(t)

\* Edges stay, and so do the tasks the host died over.
LEMMA Grows ==
    ASSUME Core, Next
    PROVE  edges \subseteq edges' /\ torn \subseteq torn'
<1>1. ASSUME NEW p \in Polls, NEW t \in Tasks, NEW s \in Slots, Claim(p, t, s)
      PROVE  edges' = edges /\ torn' = torn
    BY <1>1 DEF Claim, outside
<1>2. ASSUME NEW p \in Polls, PollStep(p) \/ PollFails(p)
      PROVE  edges \subseteq edges' /\ torn \subseteq torn'
    <2>1. CASE Import(p)
        BY <2>1 DEF Import, outside
    <2>2. CASE RecordEdges(p)
        BY <2>2 DEF RecordEdges, outside
    <2>3. CASE Decide(p)
        BY <2>3 DEF Decide, outside
    <2>4. CASE Start(p) \/ EndPoll(p) \/ PollFails(p)
        BY <2>4 DEF Start, EndPoll, PollFails, outside, store
    <2> QED
        BY <1>1, <1>2, <2>1, <2>2, <2>3, <2>4 DEF PollStep
<1>3. ASSUME NEW t \in Tasks, RunnerStep(t) \/ Relabel(t)
      PROVE  edges' = edges /\ torn' = torn
    <2>1. CASE RunnerStep(t)
        BY <2>1, RunnerStepKeeps DEF OnlyTask
    <2>2. CASE Relabel(t)
        BY <2>2 DEF Relabel, store
    <2> QED
        BY <1>3, <2>1, <2>2
<1>4. CASE Crash \/ StartHost
    BY <1>4 DEF Crash, StartHost, outside, store
<1> QED
    BY <1>2, <1>3, <1>4 DEF Next

\* A complete task stays complete, and so a task that is supplied stays so.
LEMMA SuppliedStays ==
    ASSUME Core, Next, NEW t \in Tasks, Supplied(t)
    PROVE  Supplied(t)'
<1>1. \A to \in States : <<"COMPLETE", to>> \notin Allowed
    BY DEF Allowed
<1>2. ASSUME NEW u \in Tasks, task[u].state = "COMPLETE"
      PROVE  task'[u].state = "COMPLETE"
    <2>1. \/ task'[u].state = task[u].state
          \/ task[u].state = Absent /\ task'[u].state = "READY"
          \/ <<task[u].state, task'[u].state>> \in Allowed
        BY RowsMove
    <2> QED
        BY <1>2, <2>1, StateSets DEF Allowed
<1>3. Upstream[t] \subseteq Tasks
    BY DaemonAssumption
<1> QED
    BY <1>2, <1>3, Grows DEF Supplied

\* A task that gets its attempt was in the hands of a poll.
LEMMA AttemptStep ==
    ASSUME Core, Next, NEW t \in Tasks
    PROVE  task'[t].attempt = task[t].attempt \/ \E p \in Polls : Chosen(p, t)
<1>1. ASSUME NEW p \in Polls, NEW u \in Tasks, NEW s \in Slots, Claim(p, u, s)
      PROVE  task'[t].attempt = task[t].attempt \/ \E q \in Polls : Chosen(q, t)
    <2>1. TypeOK /\ Chosen(p, u)
        BY <1>1, ClaimHands DEF Core
    <2>2. CASE Granted(p, u, s)
        BY <2>1, <2>2 DEF Granted
    <2>3. CASE UNCHANGED <<task, runner, thread>>
        BY <2>3
    <2> QED
        BY <1>1, <2>1, <2>2, <2>3, ClaimRow
<1>2. CASE \E p \in Polls, u \in Tasks, s \in Slots : Claim(p, u, s)
    BY <1>1, <1>2
<1>3. CASE \A u \in Tasks : Moves(u)
    BY <1>3 DEF Moves
<1> QED
    BY <1>2, <1>3, StepMoves, Zenon

\* A step that makes no row and takes no poll out of its import.
LEMMA EdgesFrame ==
    ASSUME NEW t \in Tasks, HasEdges(t), task'[t].state = "READY" => task[t].state = "READY",
           edges' = edges, \A p \in Polls : poll[p].step = "edges" => poll'[p] = poll[p]
    PROVE  HasEdges(t)'
BY DEF HasEdges

\* While nobody has the thread, no import is half done.
LEMMA NoImport ==
    ASSUME Core, NEW p \in Polls, thread \in {p, Nobody}
    PROVE  \A q \in Polls \ {p} : poll[q].step # "edges"
<1> SUFFICES ASSUME NEW q \in Polls \ {p}
             PROVE  poll[q].step # "edges"
    OBVIOUS
<1>1. PollInv(q) /\ q # Nobody
    BY DaemonAssumption DEF Core
<1> QED
    BY <1>1 DEF PollInv

\* Edges: an import owes them, RecordEdges writes them or blocks the row.
LEMMA PollEdges ==
    ASSUME Core, NEW p \in Polls, PollStep(p) \/ PollFails(p), NEW t \in Tasks, HasEdges(t)
    PROVE  HasEdges(t)'
<1>1. TypeOK /\ PollInv(p) /\ p # Nobody
    BY DaemonAssumption DEF Core
<1>2. CASE Import(p)
    <2>0. New \subseteq Tasks
        BY <1>1, Types DEF New
    <2>1. /\ thread = Nobody /\ poll[p].step = "idle" /\ edges' = edges
          /\ task' = [u \in Tasks |-> IF u \in New THEN [task[u] EXCEPT !.state = "READY"] ELSE task[u]]
        BY <1>2 DEF Import
    <2>2. poll'[p] = [step |-> "edges", work |-> New, jobs |-> {}]
        <3>1. Step(p, "edges", New, {}) /\ TypeOK
            BY <1>1, <1>2 DEF Import
        <3> QED
            BY <2>0, <3>1, StepOne
    <2>3. CASE t \in New
        BY <2>2, <2>3 DEF HasEdges
    <2>4. CASE t \notin New
        <3>1. \A q \in Polls : poll[q].step # "edges"
            BY <2>1, NoImport
        <3> QED
            BY <2>1, <2>4, <3>1 DEF HasEdges
    <2> QED
        BY <2>3, <2>4
<1>3. CASE RecordEdges(p)
    <2> DEFINE known(u) == {v \in Upstream[u] : ~In(v, {Absent})}
    <2>1. /\ thread = p
          /\ edges' = edges \cup UNION {{u} \X known(u) : u \in poll[p].work}
          /\ task'[t] = IF t \in poll[p].work /\ known(t) # Upstream[t]
                        THEN [task[t] EXCEPT !.state = "BLOCKED"] ELSE task[t]
        BY <1>3 DEF RecordEdges
    <2> HIDE DEF known
    <2>2. \A q \in Polls \ {p} : poll[q].step # "edges"
        BY <2>1, NoImport
    <2>3. CASE t \in poll[p].work
        <3>1. SUFFICES ASSUME task'[t].state = "READY"
                       PROVE  \A u \in Upstream[t] : <<t, u>> \in edges'
            BY DEF HasEdges
        <3>2. task[t] \in TaskRow
            BY <1>1, Types
        <3>3. known(t) = Upstream[t]
            BY <2>1, <2>3, <3>1, <3>2 DEF TaskRow
        <3> QED
            BY <2>1, <2>3, <3>3
    <2>4. CASE t \notin poll[p].work
        BY <2>1, <2>2, <2>4 DEF HasEdges
    <2> QED
        BY <2>3, <2>4
<1>4. CASE Decide(p)
    <2>1. /\ thread \in {p, Nobody} /\ poll[p].step # "edges" /\ edges' = edges
        BY <1>1, <1>4 DEF Decide
    <2>2. PICK replanned : task' = [u \in Tasks |->
              IF u \in Withdrawn \cup Stranded \cup replanned THEN Ended(task[u], "BLOCKED") ELSE task[u]]
        BY <1>4 DEF Decide
    <2>3. task'[t].state = "READY" => task[t].state = "READY"
        <3>1. task[t] \in TaskRow /\ "BLOCKED" \in States
            BY <1>1, Types, StateSets
        <3>2. Ended(task[t], "BLOCKED").state = "BLOCKED"
            BY <3>1, EndedRow
        <3> QED
            BY <2>2, <3>2
    <2>4. \A q \in Polls : poll[q].step # "edges"
        BY <2>1, NoImport
    <2> QED
        BY <2>1, <2>3, <2>4, EdgesFrame
<1>5. CASE Start(p) \/ EndPoll(p) \/ PollFails(p)
    <2>1. thread = Nobody /\ UNCHANGED <<task, edges>>
        BY <1>5 DEF Start, EndPoll, PollFails, store
    <2>2. \A q \in Polls : poll[q].step # "edges"
        <3>1. poll[p].step # "edges"
            BY <1>1, <2>1 DEF PollInv
        <3> QED
            BY <2>1, <3>1, NoImport
    <2> QED
        BY <2>1, <2>2, EdgesFrame
<1>6. ASSUME NEW u \in Tasks, NEW s \in Slots, Claim(p, u, s)
      PROVE  HasEdges(t)'
    <2>1. thread = Nobody /\ edges' = edges
        BY <1>1, <1>6, ClaimPoll
    <2>2. task'[t].state = "READY" => task[t].state = "READY"
        <3>1. CASE Granted(p, u, s)
            BY <3>1 DEF Granted
        <3>2. CASE UNCHANGED <<task, runner, thread>>
            BY <3>2
        <3> QED
            BY <1>1, <1>6, <3>1, <3>2, ClaimRow
    <2>3. \A q \in Polls : poll[q].step # "edges"
        <3>1. poll[p].step # "edges"
            BY <1>1, <2>1 DEF PollInv
        <3> QED
            BY <2>1, <3>1, NoImport
    <2> QED
        BY <2>1, <2>2, <2>3, EdgesFrame
<1> QED
    BY <1>2, <1>3, <1>4, <1>5, <1>6 DEF PollStep

\* Every other step but a crash.
LEMMA OtherEdges ==
    ASSUME Core, NEW t \in Tasks, HasEdges(t),
           (\E u \in Tasks : RunnerStep(u) \/ Relabel(u)) \/ StartHost
    PROVE  HasEdges(t)'
<1>1. ASSUME NEW u \in Tasks, RunnerStep(u)
      PROVE  HasEdges(t)'
    <2>1. OnlyTask(u) /\ Follows(u)
        BY <1>1, RunnerStepKeeps
    <2>2. task'[t].state = "READY" => task[t].state = "READY"
        <3>1. CASE t = u
            BY <2>1, <3>1, StateSets DEF Follows, Allowed
        <3>2. CASE t # u
            BY <2>1, <3>2 DEF OnlyTask
        <3> QED
            BY <3>1, <3>2
    <2> QED
        BY <2>1, <2>2, EdgesFrame DEF OnlyTask
<1>2. ASSUME NEW u \in Tasks, Relabel(u)
      PROVE  HasEdges(t)'
    BY <1>2, EdgesFrame DEF Relabel, store
<1>3. CASE StartHost
    <2>1. task'[t] = IF In(t, Active) THEN [Ended(task[t], "FAILED") EXCEPT !.result = "error"] ELSE task[t]
        BY <1>3 DEF StartHost
    <2>2. Ended(task[t], "FAILED") \in TaskRow /\ Ended(task[t], "FAILED").state = "FAILED"
        <3>1. task[t] \in TaskRow /\ "FAILED" \in States
            BY Types, StateSets DEF Core
        <3> QED
            BY <3>1, EndedRow
    <2>3. task'[t].state = "READY" => task[t].state = "READY"
        <3>1. [Ended(task[t], "FAILED") EXCEPT !.result = "error"].state = "FAILED"
            BY <2>2 DEF TaskRow
        <3> QED
            BY <2>1, <3>1
    <2>4. edges' = edges /\ poll' = poll
        BY <1>3 DEF StartHost
    <2> QED
        BY <2>3, <2>4, EdgesFrame
<1> QED
    BY <1>1, <1>2, <1>3

\* The rows whose edges a crash leaves unwritten are torn.
LEMMA CrashEdges ==
    ASSUME Crash, NEW t \in Tasks, HasEdges(t), t \notin torn'
    PROVE  HasEdges(t)'
<1>1. /\ UNCHANGED <<task, edges>>
      /\ torn' = torn \cup UNION {poll[p].work : p \in {q \in Polls : poll[q].step = "edges"}}
    BY DEF Crash, store
<1>2. \A p \in Polls : poll[p].step = "edges" => t \notin poll[p].work
    BY <1>1
<1> QED
    BY <1>1, <1>2 DEF HasEdges

\* A poll only chooses tasks that are supplied.
LEMMA ChoosesSupplied ==
    ASSUME Core, SupplyInv, NEW p \in Polls, Decide(p), NEW q \in Polls, NEW t \in Tasks, Chosen(q, t)'
    PROVE  Supplied(t)
<1>1. PICK chosen \in Choices(Tasks \ (Withdrawn \cup Stranded)) :
          \A r \in Polls, u \in Tasks : Chosen(r, u)' => Chosen(r, u) \/ (r = p /\ u \in chosen)
    BY DecideHands
<1>2. CASE Chosen(q, t)
    BY <1>2 DEF SupplyInv
<1>3. CASE t \in chosen
    <2>1. Runnable(t)
        BY <1>1, <1>3 DEF Choices, Claims
    <2>2. SUFFICES ASSUME t \notin torn
                   PROVE  \A u \in Upstream[t] : task[u].state = "COMPLETE"
        BY DEF Supplied
    <2>3. poll[p].step # "edges" /\ thread \in {p, Nobody}
        BY DEF Decide
    <2>4. \A r \in Polls : poll[r].step # "edges"
        BY <2>3, NoImport
    <2>5. \A u \in Upstream[t] : <<t, u>> \in edges
        BY <2>1, <2>2, <2>4 DEF SupplyInv, HasEdges, Runnable, In
    <2>6. \A u \in Upstream[t] : <<t, u>>[1] = t /\ <<t, u>>[2] = u
        OBVIOUS
    <2> QED
        BY <2>1, <2>5, <2>6 DEF Runnable, In
<1> QED
    BY <1>1, <1>2, <1>3

\* Every step keeps the dependencies.
LEMMA KeepsSupply ==
    ASSUME Core, SupplyInv, Next
    PROVE  SupplyInv'
<1>1. ASSUME NEW t \in Tasks, task'[t].attempt > 0
      PROVE  Supplied(t)'
    <2>1. Supplied(t)
        BY <1>1, AttemptStep DEF SupplyInv
    <2> QED
        BY <2>1, SuppliedStays
<1>2. ASSUME NEW t \in Tasks, NEW q \in Polls, Chosen(q, t)'
      PROVE  Supplied(t)'
    <2>1. CASE Holds
        BY <1>2, <2>1, SuppliedStays DEF Holds, SupplyInv
    <2>2. CASE \E p \in Polls : Decide(p)
        BY <1>2, <2>2, ChoosesSupplied, SuppliedStays
    <2> QED
        BY <2>1, <2>2, HandsStep
<1>3. ASSUME NEW t \in Tasks, t \notin torn'
      PROVE  HasEdges(t)'
    <2>1. HasEdges(t)
        BY <1>3, Grows DEF SupplyInv
    <2>2. ASSUME NEW p \in Polls, PollStep(p) \/ PollFails(p)
          PROVE  HasEdges(t)'
        BY <2>1, <2>2, PollEdges
    <2>3. CASE (\E u \in Tasks : RunnerStep(u) \/ Relabel(u)) \/ StartHost
        BY <2>1, <2>3, OtherEdges
    <2>4. CASE Crash
        BY <1>3, <2>1, <2>4, CrashEdges
    <2> QED
        BY <2>2, <2>3, <2>4 DEF Next
<1> QED
    BY <1>1, <1>2, <1>3 DEF SupplyInv

\* A task starts only after all its contract depends on is complete, but for
\* the tasks the host died over before it wrote their edges (importTaskIssues,
\* listRunnableTasks).
THEOREM UpstreamFirst == Spec => []DependenciesHold
<1>1. Init => SupplyInv
    <2> SUFFICES ASSUME Init, NEW t \in Tasks
                 PROVE  ~(task[t].attempt > 0) /\ (\A p \in Polls : ~Chosen(p, t)) /\ HasEdges(t)
        BY DEF SupplyInv
    <2>1. task[t].attempt = 0 /\ task[t].state # "READY"
        BY StateSets DEF Init, NoTask
    <2>2. \A p \in Polls : ~Chosen(p, t)
        BY DEF Init, Chosen, IdlePoll
    <2> QED
        BY <2>1, <2>2 DEF HasEdges
<1>2. Core /\ SupplyInv /\ [Next]_vars => SupplyInv'
    <2>1. Core /\ SupplyInv /\ Next => SupplyInv'
        BY KeepsSupply
    <2>2. SupplyInv /\ UNCHANGED vars => SupplyInv'
        BY DEF SupplyInv, Supplied, HasEdges, Chosen, vars, store, outside
    <2> QED
        BY <2>1, <2>2
<1>3. SupplyInv => DependenciesHold
    BY DEF SupplyInv, Supplied, DependenciesHold, In
<1> QED
    BY <1>1, <1>2, <1>3, CoreHolds, PTL DEF Spec

-------------------------------------------------------------------------------
\* Nothing is active without somebody who will end it.

\* While the host is up, an active task has a runner that is not over, and a
\* poll that waits for it: what a dead host left behind was failed before
\* anything else, and no slot is taken by a task that nobody runs
\* (recoverStartup, runV4Task).
THEOREM ActiveTasksAreTended ==
    Spec => [](up => \A t \in ActiveTasks : runner[t].step \in Working /\ runner[t].poll \in Polls)
<1>1. Core => (up => \A t \in ActiveTasks : runner[t].step \in Working /\ runner[t].poll \in Polls)
    <2> SUFFICES ASSUME Core, up, NEW t \in Tasks, task[t].state \in Active
                 PROVE  runner[t].step \in Working /\ runner[t].poll \in Polls
        BY DEF ActiveTasks, In
    <2>1. runner[t].step \in Working /\ runner[t].poll # Nobody
        BY DEF Core, TaskInv
    <2>2. runner[t] \in RunnerRow
        BY Types DEF Core
    <2> QED
        BY <2>1, <2>2 DEF RunnerRow
<1> QED
    BY <1>1, CoreHolds, PTL

\* Where every task has a second attempt in its contract, the exceptions of
\* the states and the processes are gone: a process always has a runner that
\* watches it, and a deployed change whose runner is over is a complete task
\* (runV4Task, decideAtomicContinuity).
THEOREM RetriesTellAll ==
    ASSUME \A t \in Tasks : MaxAttempts[t] > 1
    PROVE  Spec => [](\A t \in Tasks :
                         /\ t \in children => RunnerAt(t, "executing")
                         /\ t \notin EvidenceOnly /\ delivery[t] = "deployed" /\ RunnerAt(t, "over") =>
                               In(t, {"COMPLETE"}))
<1>1. DeployedIsComplete /\ ProcessesAreWatched =>
         \A t \in Tasks :
            /\ t \in children => RunnerAt(t, "executing")
            /\ t \notin EvidenceOnly /\ delivery[t] = "deployed" /\ RunnerAt(t, "over") => In(t, {"COMPLETE"})
    <2>1. \A t \in Tasks : MaxAttempts[t] # 1
        OBVIOUS
    <2> QED
        BY <2>1 DEF DeployedIsComplete, ProcessesAreWatched
<1> QED
    BY <1>1, StateTellsDeployment, ProcessesHaveRunners, PTL

-------------------------------------------------------------------------------
\* Capacity.
HasSlot == \A t \in ActiveTasks : task[t].slot \in Slots

\* A task is active only in a slot a claim gave it.
LEMMA KeepsSlotted ==
    ASSUME Core, HasSlot, Next
    PROVE  HasSlot'
<1>1. CASE \A t \in Tasks : Moves(t)
    BY <1>1 DEF HasSlot, Moves, ActiveTasks, In
<1>2. ASSUME NEW p \in Polls, NEW t \in Tasks, NEW s \in Slots, Claim(p, t, s)
      PROVE  HasSlot'
    <2>1. TypeOK
        BY DEF Core
    <2>2. CASE Granted(p, t, s)
        BY <2>2 DEF Granted, HasSlot, ActiveTasks, In
    <2>3. CASE UNCHANGED <<task, runner, thread>>
        BY <2>3 DEF HasSlot, ActiveTasks, In
    <2> QED
        BY <1>2, <2>1, <2>2, <2>3, ClaimRow
<1>3. CASE \E p \in Polls, t \in Tasks, s \in Slots : Claim(p, t, s)
    BY <1>2, <1>3
<1> QED
    BY <1>1, <1>3, StepMoves, Zenon

\* There are never more active tasks than slots, however many polls decide on
\* the slots that were free before their awaits (runPoll, claimTask).
THEOREM CapacityHolds ==
    ASSUME IsFiniteSet(Slots)
    PROVE  Spec => [](IsFiniteSet(ActiveTasks) /\ Cardinality(ActiveTasks) <= Cardinality(Slots))
<1>1. Init => HasSlot
    BY StateSets DEF Init, HasSlot, NoTask, ActiveTasks, In
<1>2. Core /\ HasSlot /\ [Next]_vars => HasSlot'
    <2>1. Core /\ HasSlot /\ Next => HasSlot'
        BY KeepsSlotted
    <2>2. HasSlot /\ UNCHANGED vars => HasSlot'
        BY DEF HasSlot, ActiveTasks, In, vars, store
    <2> QED
        BY <2>1, <2>2
<1>3. HasSlot /\ ClaimsExclude => IsFiniteSet(ActiveTasks) /\ Cardinality(ActiveTasks) <= Cardinality(Slots)
    <2> SUFFICES ASSUME HasSlot, ClaimsExclude
                 PROVE  IsFiniteSet(ActiveTasks) /\ Cardinality(ActiveTasks) <= Cardinality(Slots)
        OBVIOUS
    <2> DEFINE place == [t \in ActiveTasks |-> task[t].slot]
    <2>1. place \in [ActiveTasks -> Slots]
        BY DEF HasSlot
    <2>2. \A t, u \in ActiveTasks : place[t] = place[u] => t = u
        BY DEF ClaimsExclude
    <2>3. place \in Injection(ActiveTasks, Slots)
        BY <2>1, <2>2 DEF Injection, IsInjective
    <2> HIDE DEF place
    <2> QED
        BY <2>3, FS_Injection
<1> QED
    BY <1>1, <1>2, <1>3, CoreHolds, ClaimExclusion, PTL DEF Spec

-------------------------------------------------------------------------------
\* Files, where polls do not overlap.
FilesApart == \A t, u \in ActiveTasks : {t, u} \in Conflicting => t = u

\* A host that is down, or goes down, changes no task.
LEMMA DownKeepsTasks ==
    ASSUME Core, Next, ~up'
    PROVE  task' = task
<1>1. ASSUME NEW p \in Polls, PollStep(p) \/ PollFails(p)
      PROVE  FALSE
    <2>1. ~up => poll[p].step = "idle" /\ thread # p
        BY DEF Core, PollInv
    <2>2. CASE Import(p) \/ Start(p) \/ EndPoll(p) \/ PollFails(p)
        BY <2>2 DEF Import, Start, EndPoll, PollFails
    <2>3. CASE RecordEdges(p)
        BY <2>1, <2>3 DEF RecordEdges
    <2>4. CASE Decide(p)
        BY <2>1, <2>4 DEF Decide
    <2>5. CASE \E t \in Tasks, s \in Slots : Claim(p, t, s)
        BY <2>5 DEF Claim
    <2> QED
        BY <1>1, <2>2, <2>3, <2>4, <2>5 DEF PollStep
<1>2. ASSUME NEW t \in Tasks, RunnerStep(t)
      PROVE  FALSE
    <2>1. ~up
        BY <1>2, RunnerStepKeeps DEF OnlyTask
    <2>2. runner[t].step \notin Working
        BY <2>1 DEF Core, TaskInv
    <2> QED
        BY <1>2, <2>1, <2>2 DEF RunnerStep, Launch, ExitsWell, VerifierFails, AttemptFails, Verified, Merge,
            Deployed, PublicationFails, Complete, Exits, Quiet, RunnerAt, Working
<1>3. ASSUME NEW t \in Tasks, Relabel(t)
      PROVE  task' = task
    BY <1>3 DEF Relabel, store
<1>4. CASE Crash \/ StartHost
    BY <1>4 DEF Crash, StartHost, store
<1> QED
    BY <1>1, <1>2, <1>3, <1>4 DEF Next

\* Where one poll ends before the next one begins, tasks that own a common
\* file are never active together: it takes two overlapping polls, each with
\* a snapshot of its own, to bring them together (decideAtomicContinuity).
THEOREM LonePollKeepsFilesApart ==
    ASSUME \A p, q \in Polls : p = q
    PROVE  Spec => []FilesApart
<1>1. Core /\ OnePollKeepsFilesApart /\ up => FilesApart
    <2> SUFFICES ASSUME Core, OnePollKeepsFilesApart, up, NEW t \in ActiveTasks, NEW u \in ActiveTasks,
                        {t, u} \in Conflicting
                 PROVE  t = u
        BY DEF FilesApart
    <2>1. ASSUME NEW v \in ActiveTasks PROVE runner[v].poll \in Polls
        <3>1. runner[v].poll # Nobody /\ runner[v] \in RunnerRow
            BY Types DEF Core, TaskInv, ActiveTasks, In
        <3> QED
            BY <3>1 DEF RunnerRow
    <2>2. runner[t].poll = runner[u].poll
        BY <2>1
    <2> QED
        BY <2>2 DEF OnePollKeepsFilesApart
<1>2. Core /\ FilesApart /\ [Next]_vars /\ ~up' => FilesApart'
    <2>1. Core /\ FilesApart /\ Next /\ ~up' => FilesApart'
        BY DownKeepsTasks DEF FilesApart, ActiveTasks, In
    <2>2. FilesApart /\ UNCHANGED vars => FilesApart'
        BY DEF FilesApart, ActiveTasks, In, vars, store
    <2> QED
        BY <2>1, <2>2
<1>3. Init => FilesApart
    BY StateSets DEF Init, FilesApart, NoTask, ActiveTasks, In
<1> QED
    BY <1>1, <1>2, <1>3, CoreHolds, OnePollComparesFiles, PTL DEF Spec

-------------------------------------------------------------------------------
\* Dependencies, where the host does not die.

\* A host that does not die starts no task before all its contract depends on
\* is complete: the one way around the dependencies is to die between the rows
\* of an import and their edges (importTaskIssues).
THEOREM UpstreamFirstWithoutCrashes ==
    ASSUME MaxCrashes = 0
    PROVE  Spec => [](\A t \in Tasks : task[t].attempt > 0 => \A u \in Upstream[t] : In(u, {"COMPLETE"}))
<1> DEFINE Whole == torn = {}
<1>1. Init => Whole
    BY DEF Init
<1>2. Core /\ Whole /\ [Next]_vars => Whole'
    <2>1. ~Crash \/ ~Core
        BY DEF Crash, Core, TypeOK
    <2>2. ASSUME NEW p \in Polls, PollStep(p) \/ PollFails(p) PROVE torn' = torn
        BY <2>2 DEF PollStep, PollFails, Import, RecordEdges, Decide, Start, EndPoll, Claim, outside
    <2>3. ASSUME Core, NEW t \in Tasks, RunnerStep(t) \/ Relabel(t) PROVE torn' = torn
        BY <2>3, RunnerStepKeeps DEF OnlyTask, Relabel
    <2>4. StartHost => torn' = torn
        BY DEF StartHost, outside
    <2>5. UNCHANGED vars => torn' = torn
        BY DEF vars, outside
    <2> QED
        BY <2>1, <2>2, <2>3, <2>4, <2>5 DEF Next
<1>3. Whole /\ DependenciesHold =>
         \A t \in Tasks : task[t].attempt > 0 => \A u \in Upstream[t] : In(u, {"COMPLETE"})
    BY DEF DependenciesHold
<1> HIDE DEF Whole
<1> QED
    BY <1>1, <1>2, <1>3, CoreHolds, UpstreamFirst, PTL DEF Spec

===============================================================================
