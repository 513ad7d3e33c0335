----------------------------- MODULE JobDispatch -----------------------------
(***************************************************************************)
(* How a queued row of the store becomes a delivery of RQ: an API process  *)
(* stores a submitted job, enqueues it in Redis once and then records the  *)
(* dispatch in the row (job_dispatch.py); the controller recovers expired  *)
(* claims and reconciles queued rows with RQ (apps/worker/job_control.py). *)
(* The row and the queue are separate systems, and the record of the       *)
(* dispatch is an unconditional write of a row that was read before.       *)
(*                                                                         *)
(* Workers claim, complete, fail and crash as JobClaims shows they do; its *)
(* conditional writes are single steps here.  Jobs are of one kind and are *)
(* numbered in the order of their creation.  An execution is named by the  *)
(* RQ id it was delivered under, the job and the attempt it was meant for. *)
(***************************************************************************)
EXTENDS Naturals, FiniteSets

CONSTANTS NumJobs,
          Idempotent,     \* the jobs submitted with an idempotency key (sentiment)
          MaxAttempts,
          NoWorker,
          NoJob,
          RecoveryBatch,  \* settings.job_recovery_batch_size
          PageSize,       \* the share of it reconcile_queued_jobs gives one kind
          MaxFaults,      \* bound: Redis errors and losses, process crashes
          MaxNewer        \* bound: newer queued rows of jobs outside of Jobs

Jobs == 1 .. NumJobs
RqIds == Jobs \X (1 .. MaxAttempts + 1)

ASSUME BoundsAssumption ==
    /\ NumJobs \in Nat /\ MaxAttempts \in Nat \ {0}
    /\ MaxFaults \in Nat /\ MaxNewer \in Nat
ASSUME NamesAssumption == NoWorker \notin RqIds /\ NoJob \notin Jobs

INSTANCE JobRows WITH Workers <- RqIds, FullProgress <- 1, TicksPerSecond <- 1

VARIABLES
    stored,       \* the jobs that have a row
    rows,         \* the jobs table
    lapsed,       \* the jobs whose present lease has ended
    api,          \* what the API process that submits each job does next
    apiRead,      \* the row it has read for its dispatch record
    rq,           \* the state of each RQ id
    phase,        \* the controller's next batch: "recover" or "reconcile"
    todo,         \* the RQ ids of its present batch it has yet to enqueue
    current,      \* the job whose dispatch it records
    ctlRead,      \* the row it has read for that, or NoRow
    faults,
    overwritten   \* history: the jobs on which a dispatch record undid a claim

storeVars == <<stored, rows, lapsed, overwritten>>
apiVars == <<api, apiRead>>
controllerVars == <<phase, todo, current, ctlRead>>
vars == <<storeVars, apiVars, rq, controllerVars, faults>>

NoRow == [NewRow EXCEPT !.lease = 0]

\* A lease ends at time 1; the time is 0 until the lease lapses.
Lease == 1
Now(j) == IF j \in lapsed THEN 1 ELSE 0

RqStates == {"none", "queued", "running", "crashed", "ended"}

\* _ACTIVE_RQ_STATUSES.  RQ takes a crashed execution for started until it notices.
ActiveRqStates == {"queued", "running", "crashed"}

Live(id) == id[1] \notin lapsed /\ HasLiveClaim(rows[id[1]], id, Now(id[1]))

Queued == {j \in stored : rows[j].status = "queued"}

TypeOK ==
    /\ stored \subseteq Jobs
    /\ rows \in [Jobs -> Rows]
    /\ lapsed \subseteq stored
    /\ api \in [Jobs -> {"new", "created", "saved", "dispatched", "writing", "done"}]
    /\ apiRead \in [Jobs -> Rows]
    /\ rq \in [RqIds -> RqStates]
    /\ phase \in {"recover", "reconcile"}
    /\ todo \subseteq RqIds
    /\ current \in Jobs \cup {NoJob}
    /\ ctlRead \in Rows
    /\ faults \in 0 .. MaxFaults
    /\ overwritten \subseteq stored

Init ==
    /\ stored = {}
    /\ rows = [j \in Jobs |-> NewRow]
    /\ lapsed = {}
    /\ api = [j \in Jobs |-> "new"]
    /\ apiRead = [j \in Jobs |-> NoRow]
    /\ rq = [id \in RqIds |-> "none"]
    /\ phase = "recover"
    /\ todo = {}
    /\ current = NoJob
    /\ ctlRead = NoRow
    /\ faults = 0
    /\ overwritten = {}

Fault == faults < MaxFaults /\ faults' = faults + 1

-----------------------------------------------------------------------------
(* The store's unconditional write, and enqueue_quant_job.                   *)

\* _persist_dispatch: a row that is not terminal goes back to the queue.
Dispatched(row) == IF row.status \in Terminal THEN row ELSE [row EXCEPT !.status = "queued"]

\* upsert_job.
Upsert(j, row) ==
    /\ rows' = [rows EXCEPT ![j] = row]
    /\ lapsed' = lapsed \ {j}
    /\ overwritten' = IF j \in stored /\ rows[j] # row THEN overwritten \cup {j} ELSE overwritten
    /\ stored' = stored \cup {j}

\* Mutant: an id that was ever enqueued is taken for a delivery that exists.
EnqueuedOnce(id) == [rq EXCEPT ![id] = IF @ # "none" THEN @ ELSE "queued"]

\* An id that is active stays as it is; the record of an ended one is replaced.
Enqueued(id) == [rq EXCEPT ![id] = IF @ \in ActiveRqStates THEN @ ELSE "queued"]

-----------------------------------------------------------------------------
(* The API process that submits job j.                                       *)

\* A sentiment job with an idempotency key is created first, if it is absent.
Submit(j) ==
    /\ api[j] = "new"
    /\ \A i \in Jobs : i < j => api[i] # "new"
    /\ Upsert(j, NewRow)
    /\ api' = [api EXCEPT ![j] = IF j \in Idempotent THEN "created" ELSE "saved"]
    /\ UNCHANGED <<apiRead, rq, controllerVars, faults>>

\* And then saved like every other one.
Save(j) ==
    /\ api[j] = "created"
    /\ Upsert(j, NewRow)
    /\ api' = [api EXCEPT ![j] = "saved"]
    /\ UNCHANGED <<apiRead, rq, controllerVars, faults>>

Enqueue(j) ==
    /\ api[j] = "saved"
    /\ rq' = Enqueued(<<j, 1>>)
    /\ api' = [api EXCEPT ![j] = "dispatched"]
    /\ UNCHANGED <<storeVars, apiRead, controllerVars, faults>>

\* Redis raises, before or after it has taken the job; "pending" is recorded in the
\* same way as "accepted".
EnqueueFails(j) ==
    /\ api[j] = "saved"
    /\ Fault
    /\ rq' \in {rq, Enqueued(<<j, 1>>)}
    /\ api' = [api EXCEPT ![j] = "dispatched"]
    /\ UNCHANGED <<storeVars, apiRead, controllerVars>>

ReadForRecord(j) ==
    /\ api[j] = "dispatched"
    /\ apiRead' = [apiRead EXCEPT ![j] = rows[j]]
    /\ api' = [api EXCEPT ![j] = "writing"]
    /\ UNCHANGED <<storeVars, rq, controllerVars, faults>>

WriteRecord(j) ==
    /\ api[j] = "writing"
    /\ Upsert(j, Dispatched(apiRead[j]))
    /\ api' = [api EXCEPT ![j] = "done"]
    /\ apiRead' = [apiRead EXCEPT ![j] = NoRow]
    /\ UNCHANGED <<rq, controllerVars, faults>>

ApiCrash(j) ==
    /\ api[j] \notin {"new", "done"}
    /\ Fault
    /\ api' = [api EXCEPT ![j] = "done"]
    /\ apiRead' = [apiRead EXCEPT ![j] = NoRow]
    /\ UNCHANGED <<storeVars, rq, controllerVars>>

-----------------------------------------------------------------------------
(* RQ and the executions it delivers.                                        *)

RqGoes(id, state) == rq' = [rq EXCEPT ![id] = state]

SetRow(j, row) ==
    /\ rows' = [rows EXCEPT ![j] = row]
    /\ lapsed' = lapsed \ {j}
    /\ UNCHANGED <<stored, overwritten>>

\* The delivery, and claim_job; an execution that cannot claim its job returns.
Claim(id) ==
    /\ rq[id] = "queued"
    /\ IF Claimable(rows[id[1]])
       THEN /\ SetRow(id[1], Claimed(rows[id[1]], id, Lease))
            /\ RqGoes(id, "running")
       ELSE /\ RqGoes(id, "ended")
            /\ UNCHANGED storeVars
    /\ UNCHANGED <<apiVars, controllerVars, faults>>

\* The execution ends: it completes or releases the job if it still owns it.
Finish(id) ==
    /\ rq[id] = "running"
    /\ RqGoes(id, "ended")
    /\ IF Live(id)
       THEN \E status \in {"completed", "queued"} :
                SetRow(id[1], Released(rows[id[1]], status))
       ELSE UNCHANGED storeVars
    /\ UNCHANGED <<apiVars, controllerVars, faults>>

WorkerCrash(id) ==
    /\ rq[id] \in {"queued", "running"}
    /\ Fault
    /\ RqGoes(id, "crashed")
    /\ UNCHANGED <<storeVars, apiVars, controllerVars>>

\* RQ's own supervision, or the job timeout.
RqNotices(id) ==
    /\ rq[id] = "crashed"
    /\ RqGoes(id, "ended")
    /\ UNCHANGED <<storeVars, apiVars, controllerVars, faults>>

RedisLoses(id) ==
    /\ rq[id] = "queued"
    /\ Fault
    /\ RqGoes(id, "none")
    /\ UNCHANGED <<storeVars, apiVars, controllerVars>>

\* The lease of a running job ends, with its owner alive or not.
LeaseEnds(j) ==
    /\ j \in stored \ lapsed
    /\ rows[j].status = "running"
    /\ lapsed' = lapsed \cup {j}
    /\ UNCHANGED <<stored, rows, overwritten, apiVars, rq, controllerVars, faults>>

-----------------------------------------------------------------------------
(* The controller's passes.                                                  *)

Idle == todo = {} /\ current = NoJob

ExpiredJobs == {j \in stored : Expired(rows[j], Now(j))}

\* run_recovery_pass: recover_expired_jobs, then the rows it requeued.
Recover ==
    /\ Idle /\ phase = "recover"
    /\ \E batch \in SUBSET ExpiredJobs :
           /\ batch = ExpiredJobs \/ Cardinality(batch) = RecoveryBatch
           /\ Cardinality(batch) <= RecoveryBatch
           /\ rows' = [j \in Jobs |-> IF j \in batch THEN Recovered(rows[j]) ELSE rows[j]]
           /\ lapsed' = lapsed \ batch
           /\ todo' = {<<j, rows[j].attempt + 1>> : j \in {k \in batch : rows'[k].status = "queued"}}
    /\ phase' = "reconcile"
    /\ UNCHANGED <<stored, overwritten, apiVars, rq, current, ctlRead, faults>>

\* list_jobs(status="queued", limit=...) lists the newest rows first; `newer` rows of jobs
\* that are not followed here come before all of Jobs.
Page(newer) == {j \in Queued : newer + Cardinality({k \in Queued : k > j}) < PageSize}

\* reconcile_queued_jobs, which always reads the first page.
List ==
    /\ Idle /\ phase = "reconcile"
    /\ \E newer \in 0 .. MaxNewer :
           todo' = {<<j, rows[j].attempt + 1>> : j \in Page(newer)}
    /\ phase' = "recover"
    /\ UNCHANGED <<storeVars, apiVars, rq, current, ctlRead, faults>>

Dispatch(id) ==
    /\ id \in todo /\ current = NoJob
    /\ rq' = Enqueued(id)
    /\ todo' = todo \ {id}
    /\ current' = id[1]
    /\ UNCHANGED <<storeVars, apiVars, phase, ctlRead, faults>>

\* Redis raises: the pass goes on with the next row.
DispatchFails(id) ==
    /\ id \in todo /\ current = NoJob
    /\ Fault
    /\ rq' \in {rq, Enqueued(id)}
    /\ todo' = todo \ {id}
    /\ UNCHANGED <<storeVars, apiVars, phase, current, ctlRead>>

\* So it does when the store raises.
MarkFails ==
    /\ current # NoJob
    /\ Fault
    /\ current' = NoJob
    /\ ctlRead' = NoRow
    /\ UNCHANGED <<storeVars, apiVars, rq, phase, todo>>

\* mark_dispatch_accepted.
ReadForMark ==
    /\ current # NoJob /\ ctlRead = NoRow
    /\ ctlRead' = rows[current]
    /\ UNCHANGED <<storeVars, apiVars, rq, phase, todo, current, faults>>

WriteMark ==
    /\ current # NoJob /\ ctlRead # NoRow
    /\ Upsert(current, Dispatched(ctlRead))
    /\ current' = NoJob
    /\ ctlRead' = NoRow
    /\ UNCHANGED <<apiVars, rq, phase, todo, faults>>

\* The process dies, or a batch raises and run_forever starts the next pass.
ControllerCrash ==
    /\ ~Idle \/ phase = "reconcile"
    /\ Fault
    /\ phase' = "recover"
    /\ todo' = {}
    /\ current' = NoJob
    /\ ctlRead' = NoRow
    /\ UNCHANGED <<storeVars, apiVars, rq>>

-----------------------------------------------------------------------------
Api(j) ==
    Submit(j) \/ Save(j) \/ Enqueue(j) \/ EnqueueFails(j) \/ ReadForRecord(j) \/ WriteRecord(j)

Execution(id) == Claim(id) \/ Finish(id) \/ RqNotices(id)

Controller ==
    Recover \/ List \/ (\E id \in todo : Dispatch(id)) \/ ReadForMark \/ WriteMark

Faults ==
    \/ \E j \in Jobs : ApiCrash(j)
    \/ \E id \in RqIds : WorkerCrash(id) \/ RedisLoses(id)
    \/ \E id \in todo : DispatchFails(id)
    \/ MarkFails
    \/ ControllerCrash

Next ==
    \/ \E j \in Jobs : Api(j) \/ LeaseEnds(j)
    \/ \E id \in RqIds : Execution(id)
    \/ Controller
    \/ Faults

Spec == Init /\ [][Next]_vars

\* The controller runs its passes.  Nothing is assumed of the API and the workers.
ControlledSpec == Spec /\ WF_vars(Controller)

\* The workers go on, and time passes.
WorkersGoOn ==
    /\ \A id \in RqIds : WF_vars(Execution(id))
    /\ \A j \in Jobs :
           WF_vars(LeaseEnds(j) /\ rq[rows[j].worker] # "running")

-----------------------------------------------------------------------------
\* Reconciliation lists a page of newer rows, on which a queued job j is not ...
PassesOver(j) == List /\ j \in Queued /\ \A id \in todo' : id[1] # j

\* ... and it does so again and again, and never comes to j.
Starves(j) == []<><<PassesOver(j)>>_vars /\ <>[][List => PassesOver(j)]_vars

\* A job that is queued in the store gets a delivery in RQ, although the row and the
\* queue are written by separate calls, Redis raises and forgets, and the API process
\* may be gone: the controller closes the window between them.  It does not when newer
\* rows fill every page that it reads.
QueuedJobsAreDispatched ==
    \A j \in Jobs :
        \/ j \in Queued ~> \/ j \notin Queued
                           \/ \E id \in RqIds : id[1] = j /\ rq[id] \in ActiveRqStates
        \/ Starves(j)

\* If workers go on, every submitted job ends, whatever is lost or crashes on the way,
\* unless a dispatch record undid a claim of it or newer rows fill every page.
JobsEndUnlessOverwritten ==
    WorkersGoOn =>
        \A j \in Jobs :
            \/ j \in stored ~> rows[j].status \in Terminal \/ j \in overwritten
            \/ Starves(j)

\* A finished job stays finished.
FinishedJobsStayFinished ==
    [][\A j \in Jobs : rows[j].status \in Terminal => rows'[j].status = rows[j].status]_vars
=============================================================================
