------------------------------- MODULE JobRows -------------------------------
(***************************************************************************)
(* The durable job row of pairs_trading/platform/persistence.py (table     *)
(* `jobs`), what the store's methods read of it and what they write to it. *)
(* Nothing here has state: JobClaims and JobDispatch keep the rows in      *)
(* variables and interleave the reads and the writes.                      *)
(*                                                                         *)
(* A timestamp is a number of clock ticks, TicksPerSecond of them in a     *)
(* second.  The progress fraction 0.0 .. 1.0 is 0 .. FullProgress.         *)
(***************************************************************************)
EXTENDS Integers

CONSTANTS MaxAttempts,     \* jobs.max_attempts, set from settings.job_max_attempts
          FullProgress,    \* the progress of a finished job, 1.0 in the code
          TicksPerSecond,  \* the resolution at which the clock is modelled
          Workers,         \* worker ids; _worker_owner_id makes a new one per execution
          NoWorker         \* a NULL worker_id

\* config.validate_job_runtime refuses job_max_attempts < 1.
ASSUME MaxAttemptsAssumption == MaxAttempts \in Nat \ {0}
ASSUME FullProgressAssumption == FullProgress \in Nat \ {0}
ASSUME TicksPerSecondAssumption == TicksPerSecond \in Nat \ {0}
ASSUME NoWorkerAssumption == NoWorker \notin Workers

Terminal == {"completed", "failed", "interrupted"}
Statuses == {"queued", "running"} \cup Terminal
ReleaseStatuses == {"queued", "completed", "failed", "interrupted"}

NoLease == -1  \* a NULL lease_expires_at_utc

Progress == 0 .. FullProgress

Rows == [status   : Statuses,
         version  : Nat,
         attempt  : Nat,
         worker   : Workers \cup {NoWorker},
         lease    : Nat \cup {NoLease},
         progress : Progress]

\* The row a runner's submit writes.
NewRow == [status |-> "queued", version |-> 0, attempt |-> 0,
           worker |-> NoWorker, lease |-> NoLease, progress |-> 0]

-----------------------------------------------------------------------------
(* What the methods read. *)

\* claim_job's first check: the row is queued and an attempt is left.
Claimable(row) == row.status = "queued" /\ row.attempt < MaxAttempts

\* Mutant: any running claim passes, whoever holds it.
HasAnyLiveClaim(row, worker, now) == row.status = "running" /\ row.lease > now

\* _has_live_job_claim.
HasLiveClaim(row, worker, now) ==
    /\ row.status = "running"
    /\ row.worker = worker
    /\ row.lease > now

\* The second in which a time lies: the part of an ISO-8601 text before the fraction.
Second(t) == t \div TicksPerSecond

\* recover_expired_jobs compares two ISO-8601 texts.  isoformat() leaves the
\* fraction out when it is zero, and '.' sorts before the 'Z' that ends such a
\* text: within one second, a fractional time sorts before the whole second.
IsoLE(a, b) ==
    LET fraction(t) == t % TicksPerSecond
    IN  \/ Second(a) < Second(b)
        \/ /\ Second(a) = Second(b)
           /\ \/ fraction(b) = 0
              \/ fraction(a) # 0 /\ fraction(a) <= fraction(b)

\* Mutant: only claims that can still be retried are recovered.
ExpiredWithRetriesLeft(row, now) ==
    /\ row.status = "running"
    /\ row.attempt < MaxAttempts
    /\ IsoLE(row.lease, now)

\* The WHERE clause of recover_expired_jobs.
Expired(row, now) ==
    /\ row.status = "running"
    /\ row.lease # NoLease
    /\ IsoLE(row.lease, now)

-----------------------------------------------------------------------------
(* What they write, computed from the row as it was read. *)

Claimed(row, worker, lease) ==
    [row EXCEPT !.status = "running", !.version = @ + 1, !.attempt = @ + 1,
                !.worker = worker, !.lease = lease]

Refreshed(row, lease) == [row EXCEPT !.version = @ + 1, !.lease = lease]

\* update_claimed_job: a requested progress never lowers the stored one.
Updated(row, progress) ==
    [row EXCEPT !.version = @ + 1,
                !.progress = IF progress > @ THEN progress ELSE @]

\* release_job_claim: "queued" becomes "failed" when no attempt is left, and
\* every caller that ends a job passes progress 1.0.
Released(row, status) ==
    LET next == IF status = "queued" /\ row.attempt >= MaxAttempts
                THEN "failed" ELSE status
    IN  [row EXCEPT !.status = next, !.version = @ + 1,
                    !.worker = NoWorker, !.lease = NoLease,
                    !.progress = IF next = "queued" THEN @ ELSE FullProgress]

\* Mutant: a recovered job is queued again whatever its attempts.
RecoveredToQueue(row) ==
    [row EXCEPT !.status = "queued", !.version = @ + 1, !.worker = NoWorker, !.lease = NoLease]

\* recover_expired_jobs, for one row of the batch.
Recovered(row) ==
    LET next == IF row.attempt < MaxAttempts THEN "queued" ELSE "interrupted"
    IN  [row EXCEPT !.status = next, !.version = @ + 1,
                    !.worker = NoWorker, !.lease = NoLease,
                    !.progress = IF next = "queued" THEN @ ELSE FullProgress]

-----------------------------------------------------------------------------
(* The WHERE clause of _conditional_job_transition: `row` is the stored row  *)
(* and `read` the row the caller computed its payload from.                  *)

\* Mutant: the version is not compared.
StatusMatches(row, read) == row.status = read.status

CasMatches(row, read) ==
    row.status = read.status /\ row.version = read.version

\* Mutant: the owner's writes rely on the lease alone.
LeaseMatches(row, read, worker, now) ==
    row.status = read.status /\ row.worker = worker /\ row.lease > now

OwnerCasMatches(row, read, worker, now) ==
    /\ CasMatches(row, read)
    /\ row.worker = worker
    /\ row.lease > now
=============================================================================
