------------------------------ MODULE JobClaims ------------------------------
(***************************************************************************)
(* Executions of durable jobs by external workers, and the fencing that    *)
(* keeps an execution which lost its lease from changing the job or the    *)
(* published results.                                                      *)
(*                                                                         *)
(* One element of Workers is one call of worker_tasks._execute_queued_job: *)
(* a main thread that claims the job, computes, uploads its attempt's blob,*)
(* publishes the domain rows and releases the claim, and a heartbeat       *)
(* thread that renews the lease.  The controller recovers expired leases.  *)
(* Every method of the store that changes a row reads it in one            *)
(* transaction and writes it in another, conditionally on the version it   *)
(* read: the two are separate steps here, and everything interleaves with  *)
(* them.  Only publish_claimed_job does both in one transaction.           *)
(*                                                                         *)
(* The runner modelled is BacktestJobRunner; sentiment and market research *)
(* run the same protocol.  rows hold what the store's row holds; the       *)
(* unconditional upsert_job is the subject of JobDispatch.                 *)
(***************************************************************************)
EXTENDS JobRows, FiniteSets

CONSTANTS Jobs,
          JobOf,          \* the job each execution was delivered for
          LeaseTicks,     \* settings.job_lease_seconds
          CasRetries,     \* the attempts of each read-and-write loop, 5 in the code
          RecoveryBatch,  \* settings.job_recovery_batch_size
          MaxVersion,     \* bound: no beat or progress update begins at this version
          MaxClock,       \* bound: the clock stops here, and no lease ends later
          MaxRestarts     \* bound: crashes of the controller within a pass

ASSUME JobOfAssumption == JobOf \in [Workers -> Jobs]
ASSUME ParameterAssumption ==
    /\ LeaseTicks \in Nat \ {0}
    /\ CasRetries \in Nat \ {0}
    /\ RecoveryBatch \in 1 .. 200
    /\ MaxVersion \in Nat
    /\ MaxClock \in Nat
    /\ MaxRestarts \in Nat

VARIABLES
    rows,       \* the jobs table
    clock,      \* the time every process reads
    pc,         \* where the main thread of each execution is
    attempt,    \* the attempt number each execution claimed, 0 before
    read,       \* what its store call in progress has read
    tries,      \* the reads that call has made
    beat,       \* its heartbeat thread: "off", "idle" or "writing"
    beatRead,   \* the same two for the heartbeat's store call
    beatTries,
    lost,       \* _JobHeartbeat.lost_event
    uncertain,  \* _JobHeartbeat.uncertain_event
    blobs,      \* the executions whose attempt blob is in object storage
    domain,     \* the execution whose domain rows are the published ones
    batch,      \* the rows recover_expired_jobs selected and has not yet written
    restarts    \* controller crashes so far

mainVars == <<pc, attempt, read, tries>>
beatVars == <<beat, beatRead, beatTries, lost, uncertain>>
outputVars == <<blobs, domain>>
controllerVars == <<batch, restarts>>
vars == <<rows, clock, mainVars, beatVars, outputVars, controllerVars>>

\* The phases of a runner between its claim and the end of its release.
Computing == {"working", "uploading", "uploaded", "publishing", "published", "completing"}
Active == Computing \cup {"updating", "closing", "failing", "releasing"}
Phases == {"delivered", "claiming", "done", "crashed"} \cup Active

\* Mutant: the domain rows are published before the blob is uploaded.
GuardedPublishFirst ==
    [working |-> "publishing", published |-> "uploading", uploaded |-> "completing"]

\* The phase that a successful _assert_claim opens.
Guarded == [working |-> "uploading", uploaded |-> "publishing", published |-> "completing"]

Reads == [row : Rows, now : Nat, lease : Nat]
NoRead == [row |-> NewRow, now |-> 0, lease |-> 0]

Row(w) == rows[JobOf[w]]

\* _lease_expires_at.
LeaseEnd == IF clock + LeaseTicks < MaxClock THEN clock + LeaseTicks ELSE MaxClock

\* The attempt whose results are published for a job, 0 when none are.
Published(j) == IF domain[j] = NoWorker THEN 0 ELSE attempt[domain[j]]

TypeOK ==
    /\ rows \in [Jobs -> Rows]
    /\ clock \in 0 .. MaxClock
    /\ pc \in [Workers -> Phases]
    /\ attempt \in [Workers -> Nat]
    /\ read \in [Workers -> Reads]
    /\ tries \in [Workers -> 0 .. CasRetries]
    /\ beat \in [Workers -> {"off", "idle", "writing"}]
    /\ beatRead \in [Workers -> Reads]
    /\ beatTries \in [Workers -> 0 .. CasRetries]
    /\ lost \in [Workers -> BOOLEAN]
    /\ uncertain \in [Workers -> BOOLEAN]
    /\ blobs \in SUBSET Workers
    /\ domain \in [Jobs -> Workers \cup {NoWorker}]
    /\ batch \in SUBSET [job : Jobs, row : Rows]
    /\ restarts \in 0 .. MaxRestarts

Init ==
    /\ rows = [j \in Jobs |-> NewRow]
    /\ clock = 0
    /\ pc = [w \in Workers |-> "delivered"]
    /\ attempt = [w \in Workers |-> 0]
    /\ read = [w \in Workers |-> NoRead]
    /\ tries = [w \in Workers |-> 0]
    /\ beat = [w \in Workers |-> "off"]
    /\ beatRead = [w \in Workers |-> NoRead]
    /\ beatTries = [w \in Workers |-> 0]
    /\ lost = [w \in Workers |-> FALSE]
    /\ uncertain = [w \in Workers |-> FALSE]
    /\ blobs = {}
    /\ domain = [j \in Jobs |-> NoWorker]
    /\ batch = {}
    /\ restarts = 0

-----------------------------------------------------------------------------
(* The main thread's steps.  A store call that is not finished by its write  *)
(* is ended by one of these.                                                 *)

\* The call returns, and the main thread goes on in phase p.
GoTo(w, p) ==
    /\ pc' = [pc EXCEPT ![w] = p]
    /\ read' = [read EXCEPT ![w] = NoRead]
    /\ tries' = [tries EXCEPT ![w] = 0]

\* The call has read the row, for the n-th time, and will write it in phase p.
ReadRow(w, p, lease, n) ==
    /\ pc' = [pc EXCEPT ![w] = p]
    /\ read' = [read EXCEPT ![w] = [row |-> Row(w), now |-> clock, lease |-> lease]]
    /\ tries' = [tries EXCEPT ![w] = n]

Write(w, row) == rows' = [rows EXCEPT ![JobOf[w]] = row]

\* claim_job, its read.  A row that cannot be claimed ends the execution.
BeginClaim(w) ==
    /\ pc[w] = "delivered"
    /\ IF Claimable(Row(w)) THEN ReadRow(w, "claiming", LeaseEnd, 1) ELSE GoTo(w, "done")
    /\ UNCHANGED <<rows, clock, attempt, beatVars, outputVars, controllerVars>>

\* claim_job, its write.  The winner starts its heartbeat thread.
FinishClaim(w) ==
    /\ pc[w] = "claiming"
    /\ IF CasMatches(Row(w), read[w].row) /\ Row(w).attempt < MaxAttempts
       THEN /\ Write(w, Claimed(read[w].row, w, read[w].lease))
            /\ attempt' = [attempt EXCEPT ![w] = read[w].row.attempt + 1]
            /\ beat' = [beat EXCEPT ![w] = "idle"]
            /\ GoTo(w, "working")
       ELSE /\ GoTo(w, "done")
            /\ UNCHANGED <<rows, attempt, beat>>
    /\ UNCHANGED <<clock, beatRead, beatTries, lost, uncertain, outputVars, controllerVars>>

\* The read of a claimed call: update_claimed_job and release_job_claim return
\* None when the claim is not live, and the runner raises JobClaimLostError.
BeginClaimedCall(w, from, to) ==
    /\ pc[w] = from
    /\ IF HasLiveClaim(Row(w), w, clock) THEN ReadRow(w, to, 0, 1) ELSE GoTo(w, "done")
    /\ UNCHANGED <<rows, clock, attempt, beatVars, outputVars, controllerVars>>

\* Its write: the rows that `payload` allows, and phase `next` on success.  On a
\* version conflict the loop reads again, and gives up after CasRetries reads.
FinishClaimedCall(w, at, payloads, next) ==
    /\ pc[w] = at
    /\ IF OwnerCasMatches(Row(w), read[w].row, w, read[w].now)
       THEN /\ \E row \in payloads : Write(w, row)
            /\ GoTo(w, next)
       ELSE /\ IF tries[w] < CasRetries /\ HasLiveClaim(Row(w), w, clock)
               THEN ReadRow(w, at, 0, tries[w] + 1)
               ELSE GoTo(w, "done")
            /\ UNCHANGED rows
    /\ UNCHANGED <<clock, attempt, beatVars, outputVars, controllerVars>>

\* _set_status(job_id, "running", progress=...).
BeginUpdate(w) ==
    /\ Row(w).version < MaxVersion
    /\ BeginClaimedCall(w, "working", "updating")
FinishUpdate(w) ==
    FinishClaimedCall(w, "updating", {Updated(read[w].row, p) : p \in Progress}, "working")

\* _set_status(job_id, "completed", ...).
BeginComplete(w) == BeginClaimedCall(w, "completing", "closing")
FinishComplete(w) ==
    FinishClaimedCall(w, "closing", {Released(read[w].row, "completed")}, "done")

\* Any exception but JobClaimLostError reaches _execute_queued_job's handler.
RunnerFails(w) ==
    /\ pc[w] \in Computing \cup {"updating", "closing"}
    /\ GoTo(w, "failing")
    /\ UNCHANGED <<rows, clock, attempt, beatVars, outputVars, controllerVars>>

\* The handler: get_job and the first read of release_job_claim are one step,
\* the attempt of an owned row does not change between them.
BeginRelease(w) == BeginClaimedCall(w, "failing", "releasing")
FinishRelease(w) ==
    LET status == IF read[w].row.attempt < MaxAttempts THEN "queued" ELSE "failed"
    IN  FinishClaimedCall(w, "releasing", {Released(read[w].row, status)}, "done")

\* _assert_claim: the heartbeat's verdict first, then the stored row.
AssertClaim(w) ==
    /\ pc[w] \in DOMAIN Guarded
    /\ \/ /\ lost[w]
          /\ GoTo(w, "done")
       \/ /\ ~lost[w] /\ uncertain[w]
          /\ GoTo(w, "failing")
       \/ /\ ~lost[w] /\ ~uncertain[w]
          /\ GoTo(w, IF HasLiveClaim(Row(w), w, clock) THEN Guarded[pc[w]] ELSE "done")
    /\ UNCHANGED <<rows, clock, attempt, beatVars, outputVars, controllerVars>>

\* _publish_directory_reference under the attempt's own key.
Upload(w) ==
    /\ pc[w] = "uploading"
    /\ blobs' = blobs \cup {w}
    /\ GoTo(w, "uploaded")
    /\ UNCHANGED <<rows, clock, attempt, beatVars, domain, controllerVars>>

\* Mutant: the claim is not checked again in the transaction that publishes.
PublishUnchecked(w) ==
    /\ pc[w] = "publishing"
    /\ domain' = [domain EXCEPT ![JobOf[w]] = w]
    /\ GoTo(w, "published")
    /\ UNCHANGED <<rows, clock, attempt, beatVars, blobs, controllerVars>>

\* publish_claimed_job: one transaction that holds the row's lock.
Publish(w) ==
    /\ pc[w] = "publishing"
    /\ IF HasLiveClaim(Row(w), w, clock)
       THEN /\ domain' = [domain EXCEPT ![JobOf[w]] = w]
            /\ GoTo(w, "published")
       ELSE /\ GoTo(w, "done")
            /\ UNCHANGED domain
    /\ UNCHANGED <<rows, clock, attempt, beatVars, blobs, controllerVars>>

\* The worker process dies; its heartbeat dies with it.
Crash(w) ==
    /\ pc[w] \in Active \cup {"claiming"}
    /\ GoTo(w, "crashed")
    /\ beat' = [beat EXCEPT ![w] = "off"]
    /\ beatRead' = [beatRead EXCEPT ![w] = NoRead]
    /\ beatTries' = [beatTries EXCEPT ![w] = 0]
    /\ UNCHANGED <<rows, clock, attempt, lost, uncertain, outputVars, controllerVars>>

-----------------------------------------------------------------------------
(* The heartbeat thread.                                                     *)

\* The thread waits for its next beat, or ends.
BeatGoTo(w, state) ==
    /\ beat' = [beat EXCEPT ![w] = state]
    /\ beatRead' = [beatRead EXCEPT ![w] = NoRead]
    /\ beatTries' = [beatTries EXCEPT ![w] = 0]

\* heartbeat_job reads: None when the claim or the new lease is not live.
BeatRead(w, lease, n) ==
    IF lease > clock /\ HasLiveClaim(Row(w), w, clock)
    THEN /\ beat' = [beat EXCEPT ![w] = "writing"]
         /\ beatRead' = [beatRead EXCEPT ![w] =
                [row |-> Row(w), now |-> clock, lease |-> lease]]
         /\ beatTries' = [beatTries EXCEPT ![w] = n]
         /\ UNCHANGED lost
    ELSE /\ BeatGoTo(w, "off")
         /\ lost' = [lost EXCEPT ![w] = TRUE]

\* stop() keeps an ended execution from beginning another beat.
BeginBeat(w) ==
    /\ beat[w] = "idle"
    /\ pc[w] \in Active
    /\ Row(w).version < MaxVersion
    /\ BeatRead(w, LeaseEnd, 1)
    /\ UNCHANGED <<rows, clock, mainVars, uncertain, outputVars, controllerVars>>

FinishBeat(w) ==
    /\ beat[w] = "writing"
    /\ IF OwnerCasMatches(Row(w), beatRead[w].row, w, beatRead[w].now)
       THEN /\ Write(w, Refreshed(beatRead[w].row, beatRead[w].lease))
            /\ BeatGoTo(w, "idle")
            /\ uncertain' = [uncertain EXCEPT ![w] = FALSE]
            /\ UNCHANGED lost
       ELSE /\ IF beatTries[w] < CasRetries
               THEN BeatRead(w, beatRead[w].lease, beatTries[w] + 1)
               ELSE /\ BeatGoTo(w, "off")
                    /\ lost' = [lost EXCEPT ![w] = TRUE]
            /\ UNCHANGED <<rows, uncertain>>
    /\ UNCHANGED <<clock, mainVars, outputVars, controllerVars>>

\* The store raises: ownership is uncertain until a beat succeeds.
BeatFails(w) ==
    /\ beat[w] \in {"idle", "writing"}
    /\ pc[w] \in Active
    /\ BeatGoTo(w, "idle")
    /\ uncertain' = [uncertain EXCEPT ![w] = TRUE]
    /\ UNCHANGED <<rows, clock, mainVars, lost, outputVars, controllerVars>>

-----------------------------------------------------------------------------
(* The controller: recover_expired_jobs selects a batch and then writes its  *)
(* rows one by one.                                                          *)

ExpiredRows == {[job |-> j, row |-> rows[j]] : j \in {k \in Jobs : Expired(rows[k], clock)}}

\* ORDER BY lease_expires_at_utc ... LIMIT: what is left out does not end earlier.
RecoverSelect ==
    /\ batch = {}
    /\ ExpiredRows # {}
    /\ batch' \in {S \in SUBSET ExpiredRows :
           /\ IF Cardinality(ExpiredRows) <= RecoveryBatch
              THEN S = ExpiredRows
              ELSE Cardinality(S) = RecoveryBatch
           /\ \A r \in S, q \in ExpiredRows \ S : IsoLE(r.row.lease, q.row.lease)}
    /\ UNCHANGED <<rows, clock, mainVars, beatVars, outputVars, restarts>>

\* Mutant: recovery writes what it selected, unconditionally.
RecoverUnconditionally(r) ==
    /\ r \in batch
    /\ rows' = [rows EXCEPT ![r.job] = Recovered(r.row)]
    /\ batch' = batch \ {r}
    /\ UNCHANGED <<clock, mainVars, beatVars, outputVars, restarts>>

\* Mutant: recovery checks the owner but not the version.
RecoverByOwner(r) ==
    /\ r \in batch
    /\ rows' = IF rows[r.job].status = "running" /\ rows[r.job].worker = r.row.worker
               THEN [rows EXCEPT ![r.job] = Recovered(r.row)]
               ELSE rows
    /\ batch' = batch \ {r}
    /\ UNCHANGED <<clock, mainVars, beatVars, outputVars, restarts>>

\* A row that changed since the select is left alone.
RecoverOne(r) ==
    /\ r \in batch
    /\ rows' = IF CasMatches(rows[r.job], r.row) /\ rows[r.job].worker = r.row.worker
               THEN [rows EXCEPT ![r.job] = Recovered(r.row)]
               ELSE rows
    /\ batch' = batch \ {r}
    /\ UNCHANGED <<clock, mainVars, beatVars, outputVars, restarts>>

\* The controller restarts in the middle of a pass.
ControllerCrash ==
    /\ batch # {}
    /\ restarts < MaxRestarts
    /\ batch' = {}
    /\ restarts' = restarts + 1
    /\ UNCHANGED <<rows, clock, mainVars, beatVars, outputVars>>

Tick ==
    /\ clock < MaxClock
    /\ clock' = clock + 1
    /\ UNCHANGED <<rows, mainVars, beatVars, outputVars, controllerVars>>

-----------------------------------------------------------------------------
Main(w) ==
    \/ BeginClaim(w) \/ FinishClaim(w)
    \/ BeginUpdate(w) \/ FinishUpdate(w)
    \/ AssertClaim(w) \/ Upload(w) \/ Publish(w)
    \/ BeginComplete(w) \/ FinishComplete(w)
    \/ BeginRelease(w) \/ FinishRelease(w)

Environment(w) == RunnerFails(w) \/ Crash(w) \/ BeatFails(w)

Heartbeat(w) == BeginBeat(w) \/ FinishBeat(w)

Controller == RecoverSelect \/ \E r \in batch : RecoverOne(r)

Next ==
    \/ \E w \in Workers : Main(w) \/ Environment(w) \/ Heartbeat(w)
    \/ Controller
    \/ ControllerCrash
    \/ Tick

Spec == Init /\ [][Next]_vars

\* Time passes and the controller runs its passes; nothing is assumed of the
\* workers, which may stall anywhere.
LiveSpec == Spec /\ WF_vars(Tick) /\ WF_vars(Controller)
-----------------------------------------------------------------------------
(* What the fencing promises.                                                *)

\* Every attempt number is claimed by at most one execution, and none is claimed
\* beyond the row's counter: claim_job's read and conditional write never let two
\* deliveries of a job run the same attempt, so at most MaxAttempts ever run.
ExclusiveAttempts ==
    /\ \A j \in Jobs : rows[j].attempt <= MaxAttempts
    /\ \A w \in Workers : attempt[w] <= Row(w).attempt
    /\ \A v, w \in Workers :
           v # w /\ JobOf[v] = JobOf[w] /\ attempt[v] = attempt[w] => attempt[v] = 0

\* A running row names the execution that claimed its current attempt, so the
\* worker id alone identifies the claim that every guarded write checks.
OwnerHoldsCurrentAttempt ==
    \A j \in Jobs : rows[j].status = "running" =>
        /\ rows[j].worker \in Workers
        /\ JobOf[rows[j].worker] = j
        /\ attempt[rows[j].worker] = rows[j].attempt
        /\ rows[j].attempt > 0

\* The published domain rows of a completed job are those of the attempt that
\* completed it, although publication and completion are separate transactions
\* and other executions may be anywhere.
CompletedMatchesPublication ==
    \A j \in Jobs : rows[j].status = "completed" => Published(j) = rows[j].attempt

\* Published domain rows reference only blobs that were uploaded before.
PublishedBlobsExist == \A j \in Jobs : domain[j] # NoWorker => domain[j] \in blobs

\* Publications of a job only move to later attempts: a stalled execution never
\* puts its own domain rows in the place of its successor's.
NewerAttemptsWin ==
    [][\A j \in Jobs : domain'[j] # domain[j] => Published(j)' > Published(j)]_vars

\* A completed, failed or interrupted job never changes again.
TerminalIsFinal ==
    [][\A j \in Jobs : rows[j].status \in Terminal => rows'[j] = rows[j]]_vars

\* The stored progress never goes back, over heartbeats that write the whole row
\* and over attempts.
ProgressNeverRegresses ==
    [][\A j \in Jobs : rows'[j].progress >= rows[j].progress]_vars

\* Recovery takes a job only from an execution whose lease has ended, or ends within
\* the present second, which is as far as the texts it compares tell times apart:
\* one that renewed its lease between the controller's select and its write keeps it.
LiveLeaseIsKept ==
    [][\A j \in Jobs :
           /\ rows[j].status = "running"
           /\ Second(rows[j].lease) > Second(clock)
           /\ rows'[j].status # "running"
           => pc[rows[j].worker] \in {"closing", "releasing"}]_vars

\* A claim whose execution has ended without releasing it, by a crash or because a
\* store call gave up, does not keep the job forever.
AbandonedClaimsAreRecovered ==
    \A w \in Workers :
        pc[w] \in {"done", "crashed"} /\ Row(w).worker = w ~> Row(w).worker # w

\* The rows and the published results implement JobLifecycle: whatever was stale
\* when a call wrote, the stored job takes one of the promised steps or none.
Lifecycle == INSTANCE JobLifecycle WITH
    status <- [j \in Jobs |-> rows[j].status],
    tried <- [j \in Jobs |-> rows[j].attempt],
    published <- [j \in Jobs |-> Published(j)]

ImplementsLifecycle == Lifecycle!Spec

-----------------------------------------------------------------------------
(* The invariant that makes the promises inductive.                          *)

\* A row that was read is older than the stored one, or is the stored one.
OldOrCurrent(seen, row) ==
    /\ seen.version <= row.version
    /\ seen.version = row.version => seen = row

ReadsAreOldOrCurrent ==
    /\ \A j \in Jobs : OldOrCurrent(NewRow, rows[j])
    /\ \A w \in Workers : OldOrCurrent(read[w].row, Row(w))
    /\ \A w \in Workers : OldOrCurrent(beatRead[w].row, Row(w))
    /\ \A r \in batch : OldOrCurrent(r.row, rows[r.job])

\* What the calls in progress have read.
PendingWrites ==
    /\ \A w \in Workers : pc[w] = "claiming" => Claimable(read[w].row)
    /\ \A w \in Workers :
           pc[w] \in {"updating", "closing", "releasing"} => read[w].row.status = "running"
    /\ \A w \in Workers : beat[w] = "writing" => beatRead[w].row.status = "running"
    /\ \A r \in batch : r.row.status = "running" /\ Second(r.row.lease) <= Second(clock)

Unclaimed == \A w \in Workers : pc[w] \in {"delivered", "claiming"} => attempt[w] = 0

\* An execution past its publication that still owns the job is the published one.
PublisherOwnsDomain ==
    /\ \A w \in Workers :
           /\ pc[w] \in {"published", "completing", "closing"}
           /\ Row(w).status = "running"
           /\ Row(w).worker = w
           => domain[JobOf[w]] = w
    /\ \A w \in Workers :
           pc[w] \in {"uploaded", "publishing"} => w \in blobs
    /\ \A j \in Jobs : domain[j] # NoWorker =>
           JobOf[domain[j]] = j /\ attempt[domain[j]] > 0

\* The promises and what they rest on: every step preserves their conjunction,
\* although no promise alone survives a step from an arbitrary typed state.
InductiveInvariant ==
    /\ TypeOK
    /\ ReadsAreOldOrCurrent
    /\ PendingWrites
    /\ Unclaimed
    /\ ExclusiveAttempts
    /\ OwnerHoldsCurrentAttempt
    /\ PublisherOwnsDomain
    /\ CompletedMatchesPublication
    /\ PublishedBlobsExist
=============================================================================
