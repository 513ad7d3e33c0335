------------------------------ MODULE PaperRuns ------------------------------
(***************************************************************************)
(* Paper trading under an external worker: PaperService.run_paper_batch    *)
(* (services.py) walks the as-of dates of a job, one durable paper run per *)
(* date (persistence.py, table `paper_runs`), and each run trades the      *)
(* ledger of every strategy of the deployment (paper_trading.py, one JSON  *)
(* file per strategy under a file lock).                                   *)
(*                                                                         *)
(* An execution asks before each stage whether it still owns its job (the  *)
(* ownership guard), but the stage is not part of that transaction: it may *)
(* have lost the job by the time it acts.  JobClaims models how claims are *)
(* made and lost; here a claim is just an owner.  The nth execution of a   *)
(* job is <<job, n>>, and a run is <<job, date>>, as is its execution key  *)
(* in each ledger.  All jobs trade one deployment.                         *)
(***************************************************************************)
EXTENDS Naturals, Sequences

CONSTANTS Jobs,
          MaxAttempts,    \* executions a job can be claimed by
          NumDates,       \* as-of dates of a job
          NumStrategies,  \* strategies of the deployment
          NoExecution

ASSUME SizesAssumption ==
    /\ MaxAttempts \in Nat \ {0}
    /\ NumDates \in Nat \ {0}
    /\ NumStrategies \in Nat \ {0}
ASSUME NoExecutionAssumption == NoExecution \notin Jobs \X (1 .. MaxAttempts)

Dates == 1 .. NumDates
Strategies == 1 .. NumStrategies
Executions == Jobs \X (1 .. MaxAttempts)
PaperRuns == Jobs \X Dates

VARIABLES
    owner,      \* the execution that holds the claim of each job
    done,       \* the completed jobs
    runs,       \* the paper_runs table
    published,  \* what was uploaded, recorded and saved for each run
    ledgers,    \* the execution keys applied to each strategy's ledger, in order
    prices,     \* the runs whose component returns each ledger's prices contain
    agents,     \* the run each strategy's paper agent shows
    work        \* what each execution is doing

tradingVars == <<runs, published, ledgers, prices, agents>>
vars == <<owner, done, tradingVars, work>>

NoRun == <<>>

Rows == [status    : {"absent", "queued", "running", "completed", "failed"},
         version   : Nat,
         aggregate : [Strategies -> SUBSET PaperRuns]]

NothingTraded == [s \in Strategies |-> {}]

Stages == {"idle", "begin", "enter", "resume", "trade", "load", "apply", "collect", "upload",
           "record", "save", "complete", "fail", "sync", "finish", "release", "ended"}

\* The stages run_paper_batch calls its ownership guard before.
Guarded == {"begin", "trade", "collect", "upload", "record", "save", "complete",
            "fail", "sync", "finish"}

Work == [stage     : Stages,
         cleared   : BOOLEAN,      \* the guard of this stage has passed
         date      : Dates,
         strategy  : Strategies,
         version   : Nat,          \* the version of the run it holds
         loaded    : SUBSET PaperRuns, \* the prices its ledger object was loaded with
         aggregate : [Strategies -> SUBSET PaperRuns]]

TypeOK ==
    /\ owner \in [Jobs -> Executions \cup {NoExecution}]
    /\ done \subseteq Jobs
    /\ runs \in [PaperRuns -> Rows]
    /\ published \in [PaperRuns -> SUBSET {"upload", "record", "save"}]
    /\ ledgers \in [Strategies -> Seq(PaperRuns)]
    /\ prices \in [Strategies -> SUBSET PaperRuns]
    /\ agents \in [Strategies -> PaperRuns \cup {NoRun}]
    /\ work \in [Executions -> Work]

Init ==
    /\ owner = [j \in Jobs |-> NoExecution]
    /\ done = {}
    /\ runs = [r \in PaperRuns |-> [status |-> "absent", version |-> 0, aggregate |-> NothingTraded]]
    /\ published = [r \in PaperRuns |-> {}]
    /\ ledgers = [s \in Strategies |-> <<>>]
    /\ prices = [s \in Strategies |-> {}]
    /\ agents = [s \in Strategies |-> NoRun]
    /\ work = [e \in Executions |->
                  [stage |-> "idle", cleared |-> FALSE, date |-> 1, strategy |-> 1,
                   version |-> 0, loaded |-> {}, aggregate |-> NothingTraded]]

Applied(s) == {ledgers[s][i] : i \in 1 .. Len(ledgers[s])}

Run(e) == <<e[1], work[e].date>>

At(e, stage) == work[e].stage = stage /\ (stage \in Guarded => work[e].cleared)

GoTo(e, stage) == work' = [work EXCEPT ![e].stage = stage, ![e].cleared = FALSE]

-----------------------------------------------------------------------------
(* The claim of the job, and its loss.                                       *)

Claim(e) ==
    /\ At(e, "idle")
    /\ \A f \in Executions : f[1] = e[1] /\ f[2] < e[2] => work[f].stage # "idle"
    /\ owner[e[1]] = NoExecution /\ e[1] \notin done
    /\ owner' = [owner EXCEPT ![e[1]] = e]
    /\ GoTo(e, "begin")
    /\ UNCHANGED <<done, tradingVars>>

\* The lease ends and the controller takes the job back.
ClaimIsLost(j) ==
    /\ owner[j] # NoExecution
    /\ owner' = [owner EXCEPT ![j] = NoExecution]
    /\ UNCHANGED <<done, tradingVars, work>>

\* The ownership guard; JobClaimLostError ends the execution.
Guard(e) ==
    /\ work[e].stage \in Guarded /\ ~work[e].cleared
    /\ IF owner[e[1]] = e
       THEN work' = [work EXCEPT ![e].cleared = TRUE]
       ELSE GoTo(e, "ended")
    /\ UNCHANGED <<owner, done, tradingVars>>

Begin(e) ==
    /\ At(e, "begin")
    /\ GoTo(e, "enter")
    /\ UNCHANGED <<owner, done, tradingVars>>

-----------------------------------------------------------------------------
(* One as-of date.                                                           *)

\* What an execution does next, with nothing left of the run it leaves.
Leave(e, stage, date) ==
    work' = [work EXCEPT ![e] = [@ EXCEPT !.stage = stage, !.cleared = FALSE, !.date = date,
                                          !.strategy = 1, !.version = 0, !.loaded = {},
                                          !.aggregate = NothingTraded]]

NextDate(e) ==
    IF work[e].date < NumDates
    THEN Leave(e, "enter", work[e].date + 1)
    ELSE Leave(e, "sync", NumDates)

Created == [status |-> "queued", version |-> 1, aggregate |-> NothingTraded]

\* Mutant: a run that failed is skipped like a completed one.
EnterSkipsFailed(e) ==
    /\ At(e, "enter")
    /\ LET row == IF runs[Run(e)].status = "absent" THEN Created ELSE runs[Run(e)]
       IN  /\ runs' = [runs EXCEPT ![Run(e)] = row]
           /\ IF row.status \in {"completed", "failed"}
              THEN NextDate(e)
              ELSE work' = [work EXCEPT ![e].stage = "resume", ![e].version = row.version]
    /\ UNCHANGED <<owner, done, published, ledgers, prices, agents>>

\* create_paper_run inserts the row unless the key exists, and returns it; a run that
\* is completed is not executed again.
Enter(e) ==
    /\ At(e, "enter")
    /\ LET row == IF runs[Run(e)].status = "absent" THEN Created ELSE runs[Run(e)]
       IN  /\ runs' = [runs EXCEPT ![Run(e)] = row]
           /\ IF row.status = "completed"
              THEN NextDate(e)
              ELSE work' = [work EXCEPT ![e].stage = "resume", ![e].version = row.version]
    /\ UNCHANGED <<owner, done, published, ledgers, prices, agents>>

\* The WHERE clause of every write of a run: its version is the one the execution
\* holds, and it is not terminal.  (A run that failed is resumed by retry_paper_run.)
HoldsVersion(e) == runs[Run(e)].version = work[e].version

\* Every such write changes the version.
Changed(row, status) == [row EXCEPT !.status = status, !.version = @ + 1]

Resumable == {"queued", "running", "failed"}

\* update_paper_run_status or retry_paper_run.
Resume(e) ==
    /\ At(e, "resume")
    /\ IF HoldsVersion(e) /\ runs[Run(e)].status \in Resumable
       THEN /\ runs' = [runs EXCEPT ![Run(e)] = Changed(@, "running")]
            /\ work' = [work EXCEPT ![e].stage = "trade", ![e].version = @ + 1]
       ELSE /\ Leave(e, "release", work[e].date)
            /\ UNCHANGED runs
    /\ UNCHANGED <<owner, done, published, ledgers, prices, agents>>

BeginTrading(e) ==
    /\ At(e, "trade")
    /\ GoTo(e, "load")
    /\ UNCHANGED <<owner, done, tradingVars>>

\* PaperTradingService.run, for one strategy: the ledger object is loaded ...
Load(e) ==
    /\ At(e, "load")
    /\ work' = [work EXCEPT ![e].stage = "apply", ![e].loaded = prices[work[e].strategy]]
    /\ UNCHANGED <<owner, done, tradingVars>>

NextStrategy(e) ==
    work' = IF work[e].strategy < NumStrategies
            THEN [work EXCEPT ![e].stage = "load", ![e].strategy = @ + 1, ![e].loaded = {}]
            ELSE [work EXCEPT ![e].stage = "collect", ![e].strategy = 1, ![e].loaded = {}]

\* Mutant: an execution key is not looked up in the ledger.
ApplyAgain(e) ==
    LET s == work[e].strategy
    IN  /\ At(e, "apply")
        /\ ledgers' = [ledgers EXCEPT ![s] = Append(@, Run(e))]
        /\ prices' = [prices EXCEPT ![s] = work[e].loaded \cup {Run(e)}]
        /\ NextStrategy(e)
        /\ UNCHANGED <<owner, done, runs, published, agents>>

\* ... and apply_snapshot reads it again under its lock, and writes it, unless the key
\* of the run is in it.  The prices are those computed from the object loaded first.
Apply(e) ==
    LET s == work[e].strategy
    IN  /\ At(e, "apply")
        /\ IF Run(e) \in Applied(s)
           THEN UNCHANGED <<ledgers, prices>>
           ELSE /\ ledgers' = [ledgers EXCEPT ![s] = Append(@, Run(e))]
                /\ prices' = [prices EXCEPT ![s] = work[e].loaded \cup {Run(e)}]
        /\ NextStrategy(e)
        /\ UNCHANGED <<owner, done, runs, published, agents>>

\* build_paper_dashboard_payload reads the ledgers one by one.
Collect(e) ==
    LET s == work[e].strategy
    IN  /\ At(e, "collect")
        /\ work' = [work EXCEPT ![e] =
                       [@ EXCEPT !.aggregate[s] = Applied(s),
                                 !.strategy = IF s < NumStrategies THEN s + 1 ELSE 1,
                                 !.stage = IF s < NumStrategies THEN "collect" ELSE "upload",
                                 !.cleared = s < NumStrategies]]
        /\ UNCHANGED <<owner, done, tradingVars>>

\* _publish_directory_reference, _record_artifact and save_experiment_run.
Publish(e, stage, next) ==
    /\ At(e, stage)
    /\ published' = [published EXCEPT ![Run(e)] = @ \cup {stage}]
    /\ GoTo(e, next)
    /\ UNCHANGED <<owner, done, runs, ledgers, prices, agents>>

\* complete_paper_run.
Complete(e) ==
    /\ At(e, "complete")
    /\ IF HoldsVersion(e) /\ runs[Run(e)].status = "running"
       THEN /\ runs' = [runs EXCEPT ![Run(e)] = [status |-> "completed", version |-> @.version + 1,
                                                 aggregate |-> work[e].aggregate]]
            /\ NextDate(e)
       ELSE /\ GoTo(e, "fail")
            /\ UNCHANGED runs
    /\ UNCHANGED <<owner, done, published, ledgers, prices, agents>>

\* Mutant: a strategy that raises is skipped.
RaiseSwallowed(e) ==
    /\ work[e].stage \in {"load", "apply"}
    /\ NextStrategy(e)
    /\ UNCHANGED <<owner, done, tradingVars>>

\* The stages inside the try block of a date may raise, their guards included.
Raise(e) ==
    /\ work[e].stage \in {"trade", "load", "apply", "collect", "upload", "record", "save", "complete"}
    /\ work' = [work EXCEPT ![e] = [@ EXCEPT !.stage = "fail", !.cleared = FALSE, !.loaded = {},
                                             !.aggregate = NothingTraded]]
    /\ UNCHANGED <<owner, done, tradingVars>>

\* And so may the ones outside of it.
Abort(e) ==
    /\ work[e].stage \in {"begin", "enter", "resume", "fail", "sync", "finish"}
    /\ Leave(e, "release", work[e].date)
    /\ UNCHANGED <<owner, done, tradingVars>>

\* Mutant: the exception is recorded and the next date follows.
FailAndGoOn(e) ==
    /\ At(e, "fail")
    /\ runs' = IF HoldsVersion(e) /\ runs[Run(e)].status = "running"
               THEN [runs EXCEPT ![Run(e)] = Changed(@, "failed")]
               ELSE runs
    /\ NextDate(e)
    /\ UNCHANGED <<owner, done, published, ledgers, prices, agents>>

\* Mutant: neither version nor status is compared.
FailUnconditionally(e) ==
    /\ At(e, "fail")
    /\ runs' = [runs EXCEPT ![Run(e)] = Changed(@, "failed")]
    /\ Leave(e, "release", work[e].date)
    /\ UNCHANGED <<owner, done, published, ledgers, prices, agents>>

\* fail_paper_run.
Fail(e) ==
    /\ At(e, "fail")
    /\ runs' = IF HoldsVersion(e) /\ runs[Run(e)].status = "running"
               THEN [runs EXCEPT ![Run(e)] = Changed(@, "failed")]
               ELSE runs
    /\ Leave(e, "release", work[e].date)
    /\ UNCHANGED <<owner, done, published, ledgers, prices, agents>>

-----------------------------------------------------------------------------
(* The end of an execution.                                                  *)

\* sync_paper_agents_from_dashboard, one agent at a time.
Sync(e) ==
    LET s == work[e].strategy
    IN  /\ At(e, "sync")
        /\ agents' = [agents EXCEPT ![s] = Run(e)]
        /\ IF s < NumStrategies
           THEN work' = [work EXCEPT ![e].strategy = s + 1]
           ELSE Leave(e, "finish", NumDates)
        /\ UNCHANGED <<owner, done, runs, published, ledgers, prices>>

\* The release of the job as completed, which checks the owner.
Finish(e) ==
    /\ At(e, "finish")
    /\ IF owner[e[1]] = e
       THEN /\ done' = done \cup {e[1]}
            /\ owner' = [owner EXCEPT ![e[1]] = NoExecution]
       ELSE UNCHANGED <<done, owner>>
    /\ GoTo(e, "ended")
    /\ UNCHANGED tradingVars

\* The release of the job to the queue.
Release(e) ==
    /\ At(e, "release")
    /\ owner' = IF owner[e[1]] = e THEN [owner EXCEPT ![e[1]] = NoExecution] ELSE owner
    /\ GoTo(e, "ended")
    /\ UNCHANGED <<done, tradingVars>>

\* The process dies; the claim stays until its lease ends.
Crash(e) ==
    /\ work[e].stage \notin {"idle", "ended"}
    /\ Leave(e, "ended", work[e].date)
    /\ UNCHANGED <<owner, done, tradingVars>>

Next ==
    \/ \E j \in Jobs : ClaimIsLost(j)
    \/ \E e \in Executions :
           \/ Claim(e) \/ Guard(e) \/ Begin(e) \/ Enter(e) \/ Resume(e)
           \/ BeginTrading(e) \/ Load(e) \/ Apply(e) \/ Collect(e)
           \/ Publish(e, "upload", "record") \/ Publish(e, "record", "save")
           \/ Publish(e, "save", "complete")
           \/ Complete(e) \/ Raise(e) \/ Abort(e) \/ Fail(e)
           \/ Sync(e) \/ Finish(e) \/ Release(e) \/ Crash(e)

Spec == Init /\ [][Next]_vars

-----------------------------------------------------------------------------
Completed == {r \in PaperRuns : runs[r].status = "completed"}

\* The keys of a ledger follow the completion of the runs of the dates before them.
InOrder(keys) == \A q \in keys : q[2] > 1 => <<q[1], q[2] - 1>> \in Completed

\* The keys of a ledger contain a run and its job's earlier dates.
Shows(keys, r) == \A d \in 1 .. r[2] : <<r[1], d>> \in keys

\* However often a run is retried, and however late a stale execution trades, a ledger
\* trades each run once.
RunsTradeOnce ==
    \A s \in Strategies : \A i, k \in 1 .. Len(ledgers[s]) :
        ledgers[s][i] = ledgers[s][k] => i = k

\* No date is traded before the run of the date before it is completed: a ledger never
\* sees the dates of a job out of order, nor a gap that a retry would fill later.
DatesTradeInOrder == \A s \in Strategies : InOrder(Applied(s))

\* A completed run has traded every ledger, its artifacts are published, and the
\* aggregate it stores shows its job's dates up to its own and no later one, although
\* the ledgers are read without a lock while other executions may trade them.
AggregatesMatchRuns ==
    \A r \in Completed :
        /\ published[r] = {"upload", "record", "save"}
        /\ \A s \in Strategies :
               /\ Shows(runs[r].aggregate[s], r)
               /\ \A q \in runs[r].aggregate[s] : q[1] = r[1] => q[2] <= r[2]

\* The agent of strategy s shows a completed run of the last date.
ShowsLastDate(s) == agents[s] \in Completed /\ agents[s][2] = NumDates

\* A completed job has completed all its runs, and each agent shows the last date
\* of this or another job: run_paper_batch hands them the payload of its last run.
CompletedJobsAreWhole ==
    \A j \in done :
        /\ \A d \in Dates : <<j, d>> \in Completed
        /\ \A s \in Strategies : agents[s] # NoRun /\ ShowsLastDate(s)

\* A completed run is never reopened nor changed by an execution that lost its claim.
CompletedRunsStay ==
    [][\A r \in PaperRuns : r \in Completed => runs'[r] = runs[r]]_vars

\* The prices of a ledger contain the return of every run it traded.
NoReturnIsLost == \A s \in Strategies : Applied(s) \subseteq prices[s]

-----------------------------------------------------------------------------
(* Why they hold.  Everything an execution relies on only grows, so that it  *)
(* stays true however long the execution stalls: the completed runs, the     *)
(* keys in the ledgers, what is published, the agents that show a run.       *)

BeforeTrading == {"idle", "begin", "enter", "resume", "trade"}
AfterTrading == {"collect", "upload", "record", "save", "complete"}
AfterCollecting == {"upload", "record", "save", "complete"}

\* The stage at which something is published has been passed.
HasPublished(w, r) ==
    /\ w.stage \in {"record", "save", "complete"} => "upload" \in published[r]
    /\ w.stage \in {"save", "complete"} => "record" \in published[r]
    /\ w.stage = "complete" => "save" \in published[r]

\* What execution e knows of the tables.
Knows(e) ==
    LET w == work[e]
    IN  /\ w.stage \in BeforeTrading => w.strategy = 1
        /\ \A d \in Dates : d < w.date => <<e[1], d>> \in Completed
        /\ w.stage \in {"load", "apply"} =>
               \A s \in Strategies : s < w.strategy => Run(e) \in Applied(s)
        /\ w.stage \in AfterTrading => \A s \in Strategies : Run(e) \in Applied(s)
        /\ w.stage = "collect" =>
               \A s \in Strategies : s < w.strategy => Shows(w.aggregate[s], Run(e))
        /\ w.stage \in AfterCollecting => \A s \in Strategies : Shows(w.aggregate[s], Run(e))
        /\ \A s \in Strategies : InOrder(w.aggregate[s])
        /\ HasPublished(w, Run(e))
        /\ w.stage \in {"sync", "finish"} => w.date = NumDates /\ Run(e) \in Completed
        /\ w.stage = "sync" => \A s \in Strategies : s < w.strategy => agents[s] # NoRun
        /\ w.stage = "finish" => \A s \in Strategies : agents[s] # NoRun

\* What holds of the tables themselves.
RunsCompleteInOrder ==
    \A r \in Completed :
        /\ \A d \in Dates : d < r[2] => <<r[1], d>> \in Completed
        /\ \A s \in Strategies : r \in Applied(s)

AgentsShowCompletedRuns == \A s \in Strategies : agents[s] # NoRun => ShowsLastDate(s)

InductiveInvariant ==
    /\ TypeOK
    /\ RunsTradeOnce
    /\ DatesTradeInOrder
    /\ AggregatesMatchRuns
    /\ CompletedJobsAreWhole
    /\ RunsCompleteInOrder
    /\ AgentsShowCompletedRuns
    /\ \A e \in Executions : Knows(e)
=============================================================================
