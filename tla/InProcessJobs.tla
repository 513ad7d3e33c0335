--------------------------- MODULE InProcessJobs ---------------------------
(***************************************************************************)
(* The job runners of an API process with ENABLE_IN_PROCESS_JOBS: request  *)
(* threads submit jobs, the threads of an executor run them, and what the  *)
(* process knows of them is in memory, in a file for each job and in the   *)
(* table jobs.  The runner of market research                              *)
(* (backend/market_research_services.py) is modelled, with its report      *)
(* records and the threads of its agents (research/                        *)
(* market_research_agents.py); the runners of backend/services.py are the  *)
(* same without those.                                                     *)
(*                                                                         *)
(* Jobs are numbered in the order of created_at_utc.  The code reads that  *)
(* time before it takes the lock, so that a later job may be saved first.  *)
(* There is one process at a time: it crashes, and another loads what it   *)
(* has left.                                                               *)
(***************************************************************************)
EXTENDS Naturals, FiniteSets, Sequences

CONSTANTS
    NumJobs,
    MaxWorkers,    \* the threads of the executor
    MaxHistory,    \* max_history
    NumAgents,
    MaxFaults,     \* bound: the errors of the store
    MaxCrashes     \* bound

Jobs == 1 .. NumJobs

ASSUME HistoryAssumption == NumJobs \in Nat /\ MaxHistory \in Nat \ {0}
ASSUME ThreadsAssumption == MaxWorkers \in Nat \ {0} /\ NumAgents \in Nat \ {0}
ASSUME FaultsAssumption == MaxFaults \in Nat /\ MaxCrashes \in Nat

VARIABLES
    up,           \* whether there is a process
    rows,         \* the status of each job in the store
    files,        \* the jobs with a file
    reports,      \* the status of each report record in the store
    memory,       \* the status of each job in self.jobs
    queue,        \* the queue of the executor
    stage,        \* where the request and then the thread of a job is
    agent,        \* the agent that the thread waits for
    emitting,     \* whether that agent's event has passed the check of its cancellation
    late,         \* the events of each job that have passed it and were then cancelled
    faults,
    crashes,
    outcome,      \* history: what each thread has recorded, if no late event undid it
    unreported    \* history: the jobs that were not in memory when their thread failed

stored == <<rows, files, reports>>
threads == <<stage, agent, emitting, late>>
history == <<outcome, unreported>>
bounds == <<faults, crashes>>
vars == <<up, stored, memory, queue, threads, bounds, history>>

Open == {"queued", "running"}
Terminal == {"completed", "failed", "interrupted"}
Statuses == Open \cup Terminal \cup {"none"}

\* The stages in which a job occupies a thread of the executor.
InTry == {"collecting", "agents", "saving", "publishing", "completing"}
InThread == {"started", "found", "reporting", "failing", "failed", "lookup", "finalizing", "ending"}
            \cup InTry
Stages == {"new", "created", "saved", "reported", "queued", "refused", "done", "dead",
           "gone", "forgotten"} \cup InThread

TypeOK ==
    /\ up \in BOOLEAN
    /\ rows \in [Jobs -> Statuses]
    /\ files \subseteq Jobs
    /\ reports \in [Jobs -> Statuses]
    /\ memory \in [Jobs -> Statuses]
    /\ queue \in Seq(Jobs)
    /\ stage \in [Jobs -> Stages]
    /\ agent \in [Jobs -> 0 .. NumAgents]
    /\ emitting \in [Jobs -> BOOLEAN]
    /\ late \in [Jobs -> Nat]
    /\ faults \in 0 .. MaxFaults
    /\ crashes \in 0 .. MaxCrashes
    /\ outcome \in [Jobs -> {"none", "completed", "failed", "overtaken"}]
    /\ unreported \subseteq Jobs

Init ==
    /\ up = TRUE
    /\ rows = [j \in Jobs |-> "none"]
    /\ files = {}
    /\ reports = [j \in Jobs |-> "none"]
    /\ memory = [j \in Jobs |-> "none"]
    /\ queue = <<>>
    /\ stage = [j \in Jobs |-> "new"]
    /\ agent = [j \in Jobs |-> 0]
    /\ emitting = [j \in Jobs |-> FALSE]
    /\ late = [j \in Jobs |-> 0]
    /\ faults = 0
    /\ crashes = 0
    /\ outcome = [j \in Jobs |-> "none"]
    /\ unreported = {}

Fault == faults < MaxFaults /\ faults' = faults + 1 /\ UNCHANGED crashes

GoesTo(j, s) == stage' = [stage EXCEPT ![j] = s]

Newest(jobs) == {j \in jobs : Cardinality({k \in jobs : k > j}) < MaxHistory}

-----------------------------------------------------------------------------
(* What the runner does under its lock.                                      *)

\* Mutant: a job that has been trimmed from memory is not loaded from the store.
SetStatusOfHeld(j, status) ==
    IF memory[j] = "none"
    THEN UNCHANGED <<memory, files, rows>>
    ELSE /\ memory' = [memory EXCEPT ![j] = status]
         /\ files' = files \cup {j}
         /\ rows' = [rows EXCEPT ![j] = status]

\* _set_status and _save_locked, of a job that _load_job_for_update_locked finds.
SetStatus(j, status) ==
    /\ memory[j] # "none" \/ rows[j] # "none"
    /\ memory' = [memory EXCEPT ![j] = status]
    /\ files' = files \cup {j}
    /\ rows' = [rows EXCEPT ![j] = status]

\* _save_locked raises: memory, and perhaps the file, have the status.
SaveFails(j, status) ==
    /\ Fault
    /\ memory' = [memory EXCEPT ![j] = status]
    /\ files' \in {files, files \cup {j}}
    /\ UNCHANGED rows

\* _set_status raises, perhaps already when it looks for a job that is not in memory.
SetStatusRaises(j, status) ==
    \/ SaveFails(j, status)
    \/ Fault /\ memory[j] = "none" /\ UNCHANGED <<memory, files, rows>>

\* _persist_report_record.
SetReport(j, status) == reports' = [reports EXCEPT ![j] = status]

-----------------------------------------------------------------------------
(* The request that submits job j.                                           *)

\* The request reads the time.
Create(j) ==
    /\ up /\ stage[j] = "new"
    /\ \A i \in Jobs : i < j => stage[i] # "new"
    /\ GoesTo(j, "created")
    /\ UNCHANGED <<up, stored, memory, queue, agent, emitting, late, bounds, history>>

\* The lock is held: the job is saved, and the oldest leave memory with their files.
Save(j) ==
    LET held == {k \in Jobs : memory[k] # "none"} \cup {j}
        kept == Newest(held)
    IN  /\ stage[j] = "created"
        /\ memory' = [k \in Jobs |-> IF k \notin kept THEN "none"
                                     ELSE IF k = j THEN "queued" ELSE memory[k]]
        /\ files' = (files \cup {j}) \ (held \ kept)
        /\ rows' = [rows EXCEPT ![j] = "queued"]
        /\ GoesTo(j, "saved")
        /\ UNCHANGED <<up, reports, queue, agent, emitting, late, bounds, history>>

\* The store raises: the client gets an error, memory and file keep the job.
SaveRaises(j) ==
    /\ stage[j] = "created"
    /\ SaveFails(j, "queued")
    /\ GoesTo(j, "refused")
    /\ UNCHANGED <<up, reports, queue, agent, emitting, late, history>>

Report(j) ==
    /\ stage[j] = "saved"
    /\ \/ SetReport(j, "queued") /\ GoesTo(j, "reported") /\ UNCHANGED bounds
       \/ Fault /\ GoesTo(j, "refused") /\ UNCHANGED reports
    /\ UNCHANGED <<up, rows, files, memory, queue, agent, emitting, late, history>>

\* executor.submit; the request is answered.
Enqueue(j) ==
    /\ stage[j] = "reported"
    /\ queue' = Append(queue, j)
    /\ GoesTo(j, "queued")
    /\ UNCHANGED <<up, stored, memory, agent, emitting, late, bounds, history>>

-----------------------------------------------------------------------------
(* _run_job, in a thread of the executor.                                    *)

\* Where an exception goes: to the except block, to _finalize_unhandled, or nowhere.
Handler(s) ==
    CASE s \in InTry -> "failing"
      [] s \in {"queued", "started", "found", "failing", "failed"} -> "lookup"
      [] OTHER -> "dead"

\* A step that sets the status and goes on, or raises.
SetsStatus(j, status, next) ==
    \/ SetStatus(j, status) /\ GoesTo(j, next) /\ UNCHANGED bounds
    \/ SetStatusRaises(j, status) /\ GoesTo(j, Handler(stage[j]))

\* A step that writes the report and goes on, or raises.
SetsReport(j, status, next) ==
    /\ \/ SetReport(j, status) /\ GoesTo(j, next) /\ UNCHANGED bounds
       \/ Fault /\ GoesTo(j, Handler(stage[j])) /\ UNCHANGED reports
    /\ UNCHANGED <<up, rows, files, memory, queue, agent, emitting, late, history>>

Start(j) ==
    /\ stage[j] = "queued" /\ queue # <<>> /\ Head(queue) = j
    /\ Cardinality({k \in Jobs : stage[k] \in InThread}) < MaxWorkers
    /\ queue' = Tail(queue)
    /\ SetsStatus(j, "running", "started")
    /\ UNCHANGED <<up, reports, agent, emitting, late, history>>

\* A job that a submission has trimmed meanwhile is not found, which raises.
Find(j) ==
    /\ stage[j] = "started"
    /\ GoesTo(j, IF memory[j] # "none" THEN "found" ELSE Handler("started"))
    /\ UNCHANGED <<up, stored, memory, queue, agent, emitting, late, bounds, history>>

ReportRunning(j) == stage[j] = "found" /\ SetsReport(j, "running", "collecting")

\* The agents start.
Collect(j) ==
    /\ stage[j] = "collecting"
    /\ SetsStatus(j, "running", "agents")
    /\ agent' = [agent EXCEPT ![j] = 1]
    /\ UNCHANGED <<up, reports, queue, emitting, late, history>>

\* Computing, collecting, writing or publishing files raises.
Raise(j) ==
    /\ stage[j] \in InTry
    /\ GoesTo(j, Handler(stage[j]))
    /\ UNCHANGED <<up, stored, memory, queue, agent, emitting, late, bounds, history>>

\* The agent's thread emits an event: its run has not been cancelled.
Emit(j) ==
    /\ stage[j] = "agents" /\ ~emitting[j]
    /\ emitting' = [emitting EXCEPT ![j] = TRUE]
    /\ UNCHANGED <<up, stored, memory, queue, stage, agent, late, bounds, history>>

\* _record_progress_event.  If it raises, so does the agent, which then has failed.
Progress(j) ==
    /\ stage[j] = "agents" /\ emitting[j]
    /\ \/ SetStatus(j, "running") /\ UNCHANGED bounds
       \/ SetStatusRaises(j, "running")
    /\ emitting' = [emitting EXCEPT ![j] = FALSE]
    /\ UNCHANGED <<up, reports, queue, stage, agent, late, history>>

\* The main thread goes on to the next agent, or to the report.
NextAgent(j) ==
    /\ SetsStatus(j, "running", IF agent[j] = NumAgents THEN "saving" ELSE "agents")
    /\ agent' = [agent EXCEPT ![j] = IF @ = NumAgents THEN @ ELSE @ + 1]
    /\ emitting' = [emitting EXCEPT ![j] = FALSE]
    /\ UNCHANGED <<up, reports, queue, history>>

AgentEnds(j) ==
    /\ stage[j] = "agents" /\ ~emitting[j]
    /\ NextAgent(j)
    /\ UNCHANGED late

\* The agent is cancelled: its thread goes on, but only an event that has passed the
\* check is still recorded.
AgentTimesOut(j) ==
    /\ stage[j] = "agents"
    /\ NextAgent(j)
    /\ late' = [late EXCEPT ![j] = IF emitting[j] THEN @ + 1 ELSE @]

\* A cancelled agent's event is recorded, whatever the job is doing by then.
LateProgress(j) ==
    /\ late[j] > 0
    /\ SetStatus(j, "running")
    /\ late' = [late EXCEPT ![j] = @ - 1]
    /\ outcome' = [outcome EXCEPT ![j] = IF @ = "none" THEN @ ELSE "overtaken"]
    /\ UNCHANGED <<up, reports, queue, stage, agent, emitting, bounds, unreported>>

\* Mutant: the job is completed before its report is.
SaveReportLast(j) ==
    /\ stage[j] = "saving"
    /\ SetsStatus(j, "completed", "publishing")
    /\ UNCHANGED <<up, reports, queue, agent, emitting, late, history>>

\* The stage "persisting_report", then the artifact.
SaveReport(j) ==
    /\ stage[j] = "saving"
    /\ SetsStatus(j, "running", "publishing")
    /\ UNCHANGED <<up, reports, queue, agent, emitting, late, history>>

ReportCompleted(j) == stage[j] = "publishing" /\ SetsReport(j, "completed", "completing")

\* The last step of the thread, or of its handler, on the status.
Records(j, status) ==
    /\ SetsStatus(j, status, "done")
    /\ outcome' = [outcome EXCEPT ![j] = IF stage'[j] = "done" THEN status ELSE @]

Complete(j) ==
    /\ stage[j] = "completing"
    /\ Records(j, "completed")
    /\ UNCHANGED <<up, reports, queue, agent, emitting, late, unreported>>

-----------------------------------------------------------------------------
(* The except block, and _finalize_unhandled for what it does not catch.     *)

ReportFailed(j) == stage[j] = "failing" /\ SetsReport(j, "failed", "failed")

Fail(j) ==
    /\ stage[j] = "failed"
    /\ Records(j, "failed")
    /\ UNCHANGED <<up, reports, queue, agent, emitting, late, unreported>>

\* Without the job in memory the report is left as it is.
Lookup(j) ==
    /\ stage[j] = "lookup"
    /\ IF memory[j] # "none"
       THEN GoesTo(j, "finalizing") /\ UNCHANGED unreported
       ELSE GoesTo(j, "ending") /\ unreported' = unreported \cup {j}
    /\ UNCHANGED <<up, stored, memory, queue, agent, emitting, late, bounds, outcome>>

ReportFinalized(j) == stage[j] = "finalizing" /\ SetsReport(j, "failed", "ending")

Finalize(j) ==
    /\ stage[j] = "ending"
    /\ Records(j, "failed")
    /\ UNCHANGED <<up, reports, queue, agent, emitting, late, unreported>>

-----------------------------------------------------------------------------
(* The process dies and is started again.                                    *)

Crash ==
    /\ up /\ crashes < MaxCrashes
    /\ up' = FALSE
    /\ crashes' = crashes + 1
    /\ memory' = [j \in Jobs |-> "none"]
    /\ queue' = <<>>
    /\ stage' = [j \in Jobs |-> IF stage[j] \in {"new", "forgotten"} THEN stage[j] ELSE "gone"]
    /\ agent' = [j \in Jobs |-> 0]
    /\ emitting' = [j \in Jobs |-> FALSE]
    /\ late' = [j \in Jobs |-> 0]
    /\ UNCHANGED <<stored, faults, history>>

\* Mutant: only the jobs that had not started are marked.
WaitingRow(j) == rows[j] = "queued"

OpenRow(j) == rows[j] \in Open

\* _load_jobs: the newest rows, and the files of jobs without a row.
Load ==
    LET page == Newest({j \in Jobs : rows[j] # "none"})
        orphans == {j \in files : rows[j] = "none"}
        interrupted == {j \in page : OpenRow(j)} \cup orphans
    IN  /\ ~up
        /\ up' = TRUE
        /\ rows' = [j \in Jobs |-> IF j \in interrupted THEN "interrupted" ELSE rows[j]]
        /\ memory' = [j \in Jobs |-> IF j \in page \cup orphans THEN rows'[j] ELSE "none"]
        /\ files' = files \cup interrupted
        /\ stage' = [j \in Jobs |-> IF rows[j] \in Open /\ j \notin page THEN "forgotten"
                                    ELSE stage[j]]
        /\ UNCHANGED <<reports, queue, agent, emitting, late, bounds, history>>

-----------------------------------------------------------------------------
Request(j) == Create(j) \/ Save(j) \/ SaveRaises(j) \/ Report(j) \/ Enqueue(j)

Thread(j) ==
    \/ Start(j) \/ Find(j) \/ ReportRunning(j) \/ Collect(j)
    \/ AgentEnds(j) \/ AgentTimesOut(j)
    \/ SaveReport(j) \/ ReportCompleted(j) \/ Complete(j)
    \/ ReportFailed(j) \/ Fail(j) \/ Lookup(j) \/ ReportFinalized(j) \/ Finalize(j)

AgentThread(j) == Emit(j) \/ Progress(j) \/ LateProgress(j)

Next ==
    \/ \E j \in Jobs : Request(j) \/ Thread(j) \/ Raise(j) \/ AgentThread(j)
    \/ Crash
    \/ Load

Spec == Init /\ [][Next]_vars

\* The threads go on, an agent answers or times out, and a process that died is started
\* again.
FairSpec ==
    /\ Spec
    /\ \A j \in Jobs : WF_vars(Thread(j))
    /\ WF_vars(Load)

-----------------------------------------------------------------------------
\* What the thread of a job has recorded at its end stays in the store: a job that was
\* trimmed from memory while it ran, or a restart, loses no result.  (Only an event of an
\* agent that had timed out may undo it.)
RecordedOutcomesStay ==
    \A j \in Jobs : outcome[j] \in {"completed", "failed"} => rows[j] = outcome[j]

\* The report of a completed job is completed and that of a failed one failed, unless the
\* job had been trimmed from memory when its thread raised: two tables, no transaction.
ReportsAgree ==
    \A j \in Jobs :
        /\ rows[j] = "completed" => reports[j] = "completed"
        /\ rows[j] = "failed" => reports[j] = "failed" \/ j \in unreported

\* Why the two above hold: a job that has ended has no thread left that could write its
\* row or its report, and a thread that is about to record an end has written the report
\* that belongs to it.
EndedJobsHaveNoThread ==
    \A j \in Jobs : rows[j] \in {"completed", "failed"} => stage[j] \in {"done", "gone"}

ReportsComeFirst ==
    \A j \in Jobs :
        /\ stage[j] = "completing" => reports[j] = "completed"
        /\ stage[j] = "failed" => reports[j] = "failed"
        /\ stage[j] = "ending" => reports[j] = "failed" \/ j \in unreported

InductiveInvariant ==
    /\ TypeOK
    /\ EndedJobsHaveNoThread
    /\ ReportsComeFirst
    /\ RecordedOutcomesStay
    /\ ReportsAgree

\* A job whose submission was answered ends, although anything may raise and the process
\* may die, unless the last handler fails as well, or a restart finds more newer jobs than
\* it reads.
AcceptedJobsEnd ==
    \A j \in Jobs :
        stage[j] = "queued" ~> rows[j] \in Terminal \/ stage[j] \in {"dead", "forgotten"}
=============================================================================
