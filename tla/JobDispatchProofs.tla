-------------------------- MODULE JobDispatchProofs --------------------------
(***************************************************************************)
(* Proofs about JobDispatch for any numbers of jobs, attempts and faults   *)
(* and any batch sizes: a job that no dispatch record has undone a claim   *)
(* of lives as if the store and the queue were one system.                 *)
(***************************************************************************)
EXTENDS JobDispatch, TLAPS

-----------------------------------------------------------------------------
(* What a row is turned into.                                                *)

LEMMA NewRowType == NewRow \in Rows /\ NoRow \in Rows
BY NamesAssumption DEF NewRow, NoRow, Rows, Statuses, NoLease, Progress, Terminal

LEMMA DispatchedRow ==
    ASSUME NEW row \in Rows
    PROVE  Dispatched(row) \in Rows /\ Dispatched(row).attempt = row.attempt
BY DEF Dispatched, Rows, Statuses

LEMMA ClaimedRow ==
    ASSUME NEW row \in Rows, NEW id \in RqIds
    PROVE  /\ Claimed(row, id, Lease) \in Rows
           /\ Claimed(row, id, Lease).status = "running"
           /\ Claimed(row, id, Lease).attempt = row.attempt + 1
<1> DEFINE v == row.version + 1  a == row.attempt + 1
<1>1. v \in Nat /\ a \in Nat /\ "running" \in Statuses /\ Lease \in Nat
  BY DEF Rows, Statuses, Lease
<1>2. Claimed(row, id, Lease) =
          [row EXCEPT !.status = "running", !.version = v, !.attempt = a,
                      !.worker = id, !.lease = Lease]
  BY DEF Claimed
<1>3. Claimed(row, id, Lease) \in Rows
  <2> HIDE DEF v, a
  <2> QED BY <1>1, <1>2, Zenon DEF Rows
<1> QED BY <1>3 DEF Claimed, Rows

\* An execution that ends leaves a job that can be claimed or has ended.
LEMMA ReleasedRow ==
    ASSUME NEW row \in Rows, row.attempt <= MaxAttempts, NEW status \in {"completed", "queued"}
    PROVE  /\ Released(row, status) \in Rows
           /\ Released(row, status).attempt = row.attempt
           /\ \/ Released(row, status).status = "completed"
              \/ Released(row, status).status = "queued" /\ row.attempt < MaxAttempts
              \/ Released(row, status).status = "failed" /\ row.attempt = MaxAttempts
<1> DEFINE v == row.version + 1
           next == IF status = "queued" /\ row.attempt >= MaxAttempts THEN "failed" ELSE status
           p == IF next = "queued" THEN row.progress ELSE 1
<1>1. v \in Nat /\ next \in Statuses /\ p \in 0 .. 1
  BY DEF Rows, Statuses, Terminal, Progress
<1>2. Released(row, status) =
          [row EXCEPT !.status = next, !.version = v, !.worker = NoWorker,
                      !.lease = NoLease, !.progress = p]
  BY DEF Released
<1>3. Released(row, status) \in Rows
  <2> HIDE DEF v, next, p
  <2> QED BY <1>1, <1>2, Zenon DEF Rows, Progress
<1>4. row.attempt \in Int /\ MaxAttempts \in Int
  BY BoundsAssumption DEF Rows
<1> QED BY <1>3, <1>4 DEF Released, Rows

LEMMA RecoveredRow ==
    ASSUME NEW row \in Rows, row.attempt <= MaxAttempts
    PROVE  /\ Recovered(row) \in Rows
           /\ Recovered(row).attempt = row.attempt
           /\ \/ Recovered(row).status = "queued" /\ row.attempt < MaxAttempts
              \/ Recovered(row).status = "interrupted" /\ row.attempt = MaxAttempts
<1> DEFINE v == row.version + 1
           next == IF row.attempt < MaxAttempts THEN "queued" ELSE "interrupted"
           p == IF next = "queued" THEN row.progress ELSE 1
<1>1. v \in Nat /\ next \in Statuses /\ p \in 0 .. 1
  BY DEF Rows, Statuses, Terminal, Progress
<1>2. Recovered(row) =
          [row EXCEPT !.status = next, !.version = v, !.worker = NoWorker,
                      !.lease = NoLease, !.progress = p]
  BY DEF Recovered
<1>3. Recovered(row) \in Rows
  <2> HIDE DEF v, next, p
  <2> QED BY <1>1, <1>2, Zenon DEF Rows, Progress
<1>4. row.attempt \in Int /\ MaxAttempts \in Int
  BY BoundsAssumption DEF Rows
<1> QED BY <1>3, <1>4 DEF Recovered, Rows

-----------------------------------------------------------------------------
(* The invariant.                                                            *)

\* What may become of a job's row: it is claimed for its next attempt, or its attempt ends,
\* in the queue only if another one is left and without results only if none is.
LifecycleStep(j) ==
    \/ rows'[j] = rows[j]
    \/ /\ rows[j].status = "queued" /\ rows[j].attempt < MaxAttempts
       /\ rows'[j].status = "running" /\ rows'[j].attempt = rows[j].attempt + 1
    \/ /\ rows[j].status = "running" /\ rows'[j].attempt = rows[j].attempt
       /\ \/ rows'[j].status = "completed"
          \/ rows'[j].status = "queued" /\ rows[j].attempt < MaxAttempts
          \/ rows'[j].status \in {"failed", "interrupted"} /\ rows[j].attempt = MaxAttempts

\* A job that waits in the queue of the store can be claimed, unless a dispatch record
\* has undone a claim of it.
QueuedJobsCanBeClaimed ==
    \A j \in Jobs \ overwritten : rows[j].status = "queued" => rows[j].attempt < MaxAttempts

\* What RQ has, or is about to get, is of a stored job and at most for the attempt after the
\* row's, and of an attempt that exists: the queue never runs ahead of the store.
Known(id) == id \in todo \/ rq[id] # "none"

DeliveriesFollowRows ==
    \A id \in RqIds :
        Known(id) =>
            /\ id[1] \in stored
            /\ id[1] \notin overwritten =>
                   id[2] <= rows[id[1]].attempt + 1 /\ id[2] <= MaxAttempts

DispatchInvariant ==
    /\ TypeOK
    /\ \A j \in Jobs : rows[j].attempt <= MaxAttempts /\ apiRead[j].attempt <= MaxAttempts
    /\ ctlRead.attempt <= MaxAttempts
    /\ \A j \in Jobs : api[j] = "new" <=> j \notin stored
    /\ \A j \in Jobs \ stored : rows[j] = NewRow
    /\ current # NoJob => current \in stored
    /\ QueuedJobsCanBeClaimed
    /\ DeliveriesFollowRows

\* What each step does to the store ...
StoreStep ==
    /\ rows' \in [Jobs -> Rows] /\ \A j \in Jobs : rows'[j].attempt <= MaxAttempts
    /\ stored \subseteq stored' /\ stored' \subseteq Jobs
    /\ lapsed' \subseteq stored'
    /\ overwritten \subseteq overwritten' /\ overwritten' \subseteq stored'
    /\ \A j \in Jobs \ stored' : rows'[j] = NewRow
    /\ \A j \in Jobs \ overwritten' : LifecycleStep(j)

\* ... to what is delivered ...
DeliveryStep ==
    /\ rq' \in [RqIds -> RqStates] /\ todo' \subseteq RqIds
    /\ \A id \in RqIds :
           (Known(id))' => \/ Known(id)
                           \/ id[1] \in stored /\ id[2] = 1
                           \/ /\ id[1] \in stored /\ rows'[id[1]].status = "queued"
                              /\ id[2] = rows'[id[1]].attempt + 1

\* ... and to the API processes and the controller.
ClientStep ==
    /\ api' \in [Jobs -> {"new", "created", "saved", "dispatched", "writing", "done"}]
    /\ apiRead' \in [Jobs -> Rows] /\ \A j \in Jobs : apiRead'[j].attempt <= MaxAttempts
    /\ \A j \in Jobs : api'[j] = "new" <=> j \notin stored'
    /\ phase' \in {"recover", "reconcile"}
    /\ current' \in stored' \cup {NoJob}
    /\ ctlRead' \in Rows /\ ctlRead'.attempt <= MaxAttempts
    /\ faults' \in 0 .. MaxFaults

-----------------------------------------------------------------------------
(* Steps of the store.                                                       *)

LEMMA StoreKept ==
    ASSUME DispatchInvariant, UNCHANGED storeVars
    PROVE  StoreStep
BY DEF DispatchInvariant, TypeOK, storeVars, StoreStep, LifecycleStep

\* An unconditional write leaves the row as it is, or undoes what was written since the read.
LEMMA UpsertStep ==
    ASSUME DispatchInvariant, NEW j \in Jobs, NEW row \in Rows, row.attempt <= MaxAttempts,
           j \notin stored => row = NewRow, Upsert(j, row)
    PROVE  StoreStep
<1>1. /\ rows' = [rows EXCEPT ![j] = row] /\ stored' = stored \cup {j}
      /\ lapsed' = lapsed \ {j}
      /\ overwritten' = IF j \in stored /\ rows[j] # row THEN overwritten \cup {j} ELSE overwritten
  BY DEF Upsert
<1>2. /\ rows \in [Jobs -> Rows] /\ stored \subseteq Jobs /\ lapsed \subseteq stored
      /\ overwritten \subseteq stored
      /\ \A i \in Jobs : rows[i].attempt <= MaxAttempts
      /\ \A i \in Jobs \ stored : rows[i] = NewRow
  BY DEF DispatchInvariant, TypeOK
<1>3. \A i \in Jobs \ overwritten' : rows'[i] = rows[i]
  BY <1>1, <1>2
<1> QED BY <1>1, <1>2, <1>3 DEF StoreStep, LifecycleStep

LEMMA SetRowStep ==
    ASSUME DispatchInvariant, NEW j \in stored, NEW row \in Rows, row.attempt <= MaxAttempts,
           SetRow(j, row), LifecycleStep(j)
    PROVE  StoreStep
<1>1. /\ rows' = [rows EXCEPT ![j] = row] /\ lapsed' = lapsed \ {j}
      /\ UNCHANGED <<stored, overwritten>>
  BY DEF SetRow
<1>2. /\ rows \in [Jobs -> Rows] /\ stored \subseteq Jobs /\ lapsed \subseteq stored
      /\ overwritten \subseteq stored
      /\ \A i \in Jobs : rows[i].attempt <= MaxAttempts
      /\ \A i \in Jobs \ stored : rows[i] = NewRow
  BY DEF DispatchInvariant, TypeOK
<1>3. \A i \in Jobs \ overwritten' : LifecycleStep(i)
  BY <1>1, <1>2 DEF LifecycleStep
<1> QED BY <1>1, <1>2, <1>3 DEF StoreStep

LEMMA RecoverStep ==
    ASSUME DispatchInvariant, Recover
    PROVE  StoreStep
<1>1. PICK batch \in SUBSET ExpiredJobs :
          /\ rows' = [j \in Jobs |-> IF j \in batch THEN Recovered(rows[j]) ELSE rows[j]]
          /\ lapsed' = lapsed \ batch
  BY DEF Recover
<1>2. /\ rows \in [Jobs -> Rows] /\ stored \subseteq Jobs /\ lapsed \subseteq stored
      /\ overwritten \subseteq stored
      /\ \A i \in Jobs : rows[i].attempt <= MaxAttempts
      /\ \A i \in Jobs \ stored : rows[i] = NewRow
      /\ UNCHANGED <<stored, overwritten>>
  BY DEF DispatchInvariant, TypeOK, Recover
<1>3. \A j \in batch : j \in stored /\ rows[j].status = "running"
  BY DEF ExpiredJobs, Expired
<1>4. ASSUME NEW j \in Jobs
      PROVE  /\ rows'[j] \in Rows /\ rows'[j].attempt <= MaxAttempts
             /\ j \notin stored => rows'[j] = NewRow
             /\ LifecycleStep(j)
  <2>1. CASE j \in batch
    <3>1. rows[j] \in Rows /\ rows[j].attempt <= MaxAttempts /\ rows'[j] = Recovered(rows[j])
      BY <1>1, <1>2, <2>1
    <3> QED BY <1>3, <2>1, <3>1, RecoveredRow DEF LifecycleStep
  <2>2. CASE j \notin batch
    BY <1>1, <1>2, <2>2 DEF LifecycleStep
  <2> QED BY <2>1, <2>2
<1>5. rows' \in [Jobs -> Rows]
  BY <1>1, <1>4
<1> QED BY <1>1, <1>2, <1>4, <1>5 DEF StoreStep

-----------------------------------------------------------------------------
(* Steps of RQ, the API and the controller.                                  *)

LEMMA RqIdsAre ==
    /\ \A j \in Jobs, k \in 1 .. MaxAttempts + 1 : <<j, k>> \in RqIds
    /\ \A id \in RqIds : id[1] \in Jobs /\ id[2] \in 1 .. MaxAttempts + 1
    /\ \A j \in Jobs : <<j, 1>> \in RqIds
BY BoundsAssumption DEF RqIds

\* One id of RQ goes on, or is taken up by a step that knows it.
LEMMA RqStep ==
    ASSUME DispatchInvariant, NEW id \in RqIds, NEW state \in RqStates,
           rq' \in {rq, [rq EXCEPT ![id] = state]}, todo' \subseteq todo,
           \/ Known(id)
           \/ id[1] \in stored /\ id[2] = 1
    PROVE  DeliveryStep
<1>1. rq \in [RqIds -> RqStates] /\ todo \subseteq RqIds
  BY DEF DispatchInvariant, TypeOK
<1>2. rq' \in [RqIds -> RqStates] /\ \A o \in RqIds \ {id} : rq'[o] = rq[o]
  BY <1>1
<1> QED BY <1>1, <1>2 DEF DeliveryStep, Known

LEMMA DeliveriesKept ==
    ASSUME DispatchInvariant, UNCHANGED rq, todo' \subseteq todo
    PROVE  DeliveryStep
BY DEF DispatchInvariant, TypeOK, DeliveryStep, Known

LEMMA ActiveStates == ASSUME DispatchInvariant, NEW id \in RqIds
    PROVE \E state \in RqStates : Enqueued(id) = [rq EXCEPT ![id] = state]
<1>1. rq \in [RqIds -> RqStates]
  BY DEF DispatchInvariant, TypeOK
<1>2. rq[id] \in RqStates /\ "queued" \in RqStates
  BY <1>1 DEF RqStates
<1> QED BY <1>2 DEF Enqueued

\* The API process that submits a job.
LEMMA ApiStep ==
    ASSUME DispatchInvariant, NEW j \in Jobs, Api(j) \/ ApiCrash(j)
    PROVE  StoreStep /\ DeliveryStep /\ ClientStep
<1>1. /\ api \in [Jobs -> {"new", "created", "saved", "dispatched", "writing", "done"}]
      /\ apiRead \in [Jobs -> Rows] /\ \A i \in Jobs : apiRead[i].attempt <= MaxAttempts
      /\ \A i \in Jobs : api[i] = "new" <=> i \notin stored
      /\ rows \in [Jobs -> Rows] /\ \A i \in Jobs : rows[i].attempt <= MaxAttempts
      /\ phase \in {"recover", "reconcile"} /\ current \in stored \cup {NoJob}
      /\ ctlRead \in Rows /\ ctlRead.attempt <= MaxAttempts
      /\ faults \in 0 .. MaxFaults
  BY DEF DispatchInvariant, TypeOK
<1>2. NewRow \in Rows /\ NewRow.attempt <= MaxAttempts /\ NoRow \in Rows
      /\ NoRow.attempt <= MaxAttempts
  BY NewRowType, BoundsAssumption DEF NewRow, NoRow
<1>3. CASE Submit(j)
  <2>1. StoreStep
    BY <1>2, <1>3, UpsertStep DEF Submit
  <2>2. DeliveryStep
    BY <1>3, DeliveriesKept DEF Submit, controllerVars
  <2>3. ClientStep
    BY <1>1, <1>3 DEF Submit, Upsert, controllerVars, ClientStep
  <2> QED BY <2>1, <2>2, <2>3
<1>4. CASE Save(j)
  <2>1. j \in stored
    BY <1>1, <1>4 DEF Save
  <2>2. StoreStep
    BY <1>2, <1>4, <2>1, UpsertStep DEF Save
  <2>3. DeliveryStep
    BY <1>4, DeliveriesKept DEF Save, controllerVars
  <2>4. ClientStep
    BY <1>1, <1>4, <2>1 DEF Save, Upsert, controllerVars, ClientStep
  <2> QED BY <2>2, <2>3, <2>4
<1>5. CASE Enqueue(j) \/ EnqueueFails(j)
  <2>1. j \in stored /\ <<j, 1>> \in RqIds
    BY <1>1, <1>5, RqIdsAre DEF Enqueue, EnqueueFails
  <2>2. UNCHANGED <<storeVars, apiRead, controllerVars>>
    BY <1>5 DEF Enqueue, EnqueueFails
  <2>3. DeliveryStep
    <3>1. rq' \in {rq, Enqueued(<<j, 1>>)} /\ todo' = todo
      BY <1>5 DEF Enqueue, EnqueueFails, controllerVars
    <3>2. PICK state \in RqStates : Enqueued(<<j, 1>>) = [rq EXCEPT ![<<j, 1>>] = state]
      BY <2>1, ActiveStates
    <3> QED BY <2>1, <3>1, <3>2, RqStep
  <2>4. faults' \in 0 .. MaxFaults
    BY <1>1, <1>5, BoundsAssumption DEF Enqueue, EnqueueFails, Fault
  <2>5. api' = [api EXCEPT ![j] = "dispatched"]
    BY <1>5 DEF Enqueue, EnqueueFails
  <2>6. ClientStep
    BY <1>1, <2>1, <2>2, <2>4, <2>5 DEF storeVars, controllerVars, ClientStep
  <2> QED BY <2>2, <2>3, <2>6, StoreKept
<1>6. CASE ReadForRecord(j) \/ ApiCrash(j)
  <2>1. j \in stored
    BY <1>1, <1>6 DEF ReadForRecord, ApiCrash
  <2>2. UNCHANGED <<storeVars, rq, controllerVars>>
    BY <1>6 DEF ReadForRecord, ApiCrash
  <2>3. faults' \in 0 .. MaxFaults
    BY <1>1, <1>6, BoundsAssumption DEF ReadForRecord, ApiCrash, Fault
  <2>4. \E row \in {rows[j], NoRow}, next \in {"writing", "done"} :
            apiRead' = [apiRead EXCEPT ![j] = row] /\ api' = [api EXCEPT ![j] = next]
    BY <1>6 DEF ReadForRecord, ApiCrash
  <2>5. ClientStep
    BY <1>1, <1>2, <2>1, <2>2, <2>3, <2>4 DEF storeVars, controllerVars, ClientStep
  <2>6. DeliveryStep
    BY <2>2, DeliveriesKept DEF controllerVars
  <2> QED BY <2>2, <2>5, <2>6, StoreKept
<1>7. CASE WriteRecord(j)
  <2>1. j \in stored
    BY <1>1, <1>7 DEF WriteRecord
  <2>2. Dispatched(apiRead[j]) \in Rows /\ Dispatched(apiRead[j]).attempt <= MaxAttempts
    BY <1>1, DispatchedRow
  <2>3. StoreStep
    BY <1>7, <2>1, <2>2, UpsertStep DEF WriteRecord
  <2>4. DeliveryStep
    BY <1>7, DeliveriesKept DEF WriteRecord, controllerVars
  <2>5. ClientStep
    BY <1>1, <1>2, <1>7, <2>1 DEF WriteRecord, Upsert, controllerVars, ClientStep
  <2> QED BY <2>3, <2>4, <2>5
<1> QED BY <1>3, <1>4, <1>5, <1>6, <1>7 DEF Api

\* What is left alone by the steps of executions and leases.
LEMMA ClientsKept ==
    ASSUME DispatchInvariant, UNCHANGED <<apiVars, controllerVars, stored>>,
           faults' \in 0 .. MaxFaults
    PROVE  ClientStep
BY DEF DispatchInvariant, TypeOK, apiVars, controllerVars, ClientStep

\* RQ and the executions.
LEMMA ExecutionStep ==
    ASSUME DispatchInvariant, NEW id \in RqIds,
           Execution(id) \/ WorkerCrash(id) \/ RedisLoses(id)
    PROVE  StoreStep /\ DeliveryStep /\ ClientStep
<1>1. /\ rq[id] # "none" /\ todo' = todo
      /\ \E state \in {"running", "ended", "crashed", "none"} : rq' = [rq EXCEPT ![id] = state]
  BY DEF Execution, Claim, Finish, RqNotices, WorkerCrash, RedisLoses, RqGoes, controllerVars
<1>2. DeliveryStep
  BY <1>1, RqStep DEF RqStates, Known
<1>3. UNCHANGED <<apiVars, controllerVars, stored>> /\ faults' \in 0 .. MaxFaults
  <2>1. faults \in 0 .. MaxFaults
    BY DEF DispatchInvariant, TypeOK
  <2> QED BY <2>1, BoundsAssumption
          DEF Execution, Claim, Finish, RqNotices, WorkerCrash, RedisLoses, Fault, SetRow, storeVars
<1>4. ClientStep
  BY <1>3, ClientsKept
<1> DEFINE j == id[1]
<1>5. /\ j \in stored /\ rows[j] \in Rows /\ rows[j].attempt <= MaxAttempts
      /\ rows \in [Jobs -> Rows] /\ j \in Jobs
  BY <1>1, RqIdsAre DEF DispatchInvariant, DeliveriesFollowRows, Known, TypeOK
<1>6. StoreStep
  <2>1. CASE UNCHANGED storeVars
    BY <2>1, StoreKept
  <2>2. CASE Claimable(rows[j]) /\ SetRow(j, Claimed(rows[j], id, Lease))
    <3>1. rows[j].attempt < MaxAttempts /\ rows[j].status = "queued"
      BY <2>2 DEF Claimable
    <3> DEFINE row == Claimed(rows[j], id, Lease)
    <3>2. row \in Rows /\ row.status = "running" /\ row.attempt = rows[j].attempt + 1
      BY <1>5, ClaimedRow
    <3> HIDE DEF row, j
    <3>3. row.attempt <= MaxAttempts
      BY <1>5, <3>1, <3>2, BoundsAssumption DEF Rows
    <3>4. rows'[j] = row
      BY <1>5, <2>2 DEF SetRow, row
    <3>5. LifecycleStep(j)
      BY <3>1, <3>2, <3>4 DEF LifecycleStep
    <3> QED BY <1>5, <2>2, <3>2, <3>3, <3>5, SetRowStep DEF row
  <2>3. CASE /\ Live(id)
             /\ \E status \in {"completed", "queued"} : SetRow(j, Released(rows[j], status))
    <3>1. PICK status \in {"completed", "queued"} : SetRow(j, Released(rows[j], status))
      BY <2>3
    <3> DEFINE row == Released(rows[j], status)
    <3>2. /\ row \in Rows /\ row.attempt = rows[j].attempt
          /\ \/ row.status = "completed"
             \/ row.status = "queued" /\ rows[j].attempt < MaxAttempts
             \/ row.status = "failed" /\ rows[j].attempt = MaxAttempts
      BY <1>5, ReleasedRow
    <3>3. rows[j].status = "running"
      BY <2>3 DEF Live, HasLiveClaim
    <3> HIDE DEF row, j
    <3>4. rows'[j] = row
      BY <1>5, <3>1 DEF SetRow, row
    <3>5. LifecycleStep(j)
      BY <3>2, <3>3, <3>4 DEF LifecycleStep
    <3> QED BY <1>5, <3>1, <3>2, <3>5, SetRowStep DEF row
  <2> QED BY <2>1, <2>2, <2>3 DEF Execution, Claim, Finish, RqNotices, WorkerCrash, RedisLoses
<1> QED BY <1>2, <1>4, <1>6

LEMMA LeaseStep ==
    ASSUME DispatchInvariant, NEW j \in Jobs, LeaseEnds(j)
    PROVE  StoreStep /\ DeliveryStep /\ ClientStep
<1>1. StoreStep
  BY DEF LeaseEnds, DispatchInvariant, TypeOK, StoreStep, LifecycleStep
<1>2. DeliveryStep
  BY DeliveriesKept DEF LeaseEnds, controllerVars
<1>3. ClientStep
  <2>1. faults \in 0 .. MaxFaults
    BY DEF DispatchInvariant, TypeOK
  <2> QED BY <2>1, ClientsKept DEF LeaseEnds
<1> QED BY <1>1, <1>2, <1>3

\* What a batch of the controller takes up: rows that wait in the queue of the store.
LEMMA BatchStep ==
    ASSUME DispatchInvariant, UNCHANGED rq, rows' \in [Jobs -> Rows],
           \A j \in Jobs : rows'[j].attempt = rows[j].attempt,
           NEW batch \in SUBSET stored, \A j \in batch : rows'[j].status = "queued",
           todo' = {<<j, rows[j].attempt + 1>> : j \in batch}
    PROVE  DeliveryStep
<1>1. /\ rq \in [RqIds -> RqStates] /\ stored \subseteq Jobs /\ rows \in [Jobs -> Rows]
      /\ \A j \in Jobs : rows[j].attempt <= MaxAttempts
  BY DEF DispatchInvariant, TypeOK
<1>2. ASSUME NEW j \in batch
      PROVE  <<j, rows[j].attempt + 1>> \in RqIds
  <2>1. j \in Jobs /\ rows[j].attempt \in Nat /\ rows[j].attempt <= MaxAttempts
    BY <1>1 DEF Rows
  <2>2. rows[j].attempt + 1 \in 1 .. MaxAttempts + 1
    BY <2>1, BoundsAssumption
  <2> QED BY <2>1, <2>2, RqIdsAre
<1>3. todo' \subseteq RqIds
  BY <1>2
<1>4. ASSUME NEW id \in RqIds, (Known(id))', ~Known(id)
      PROVE  id[1] \in stored /\ rows'[id[1]].status = "queued" /\ id[2] = rows'[id[1]].attempt + 1
  <2>1. id \in todo'
    BY <1>4 DEF Known
  <2>2. PICK j \in batch : id = <<j, rows[j].attempt + 1>>
    BY <2>1
  <2>3. id[1] = j /\ id[2] = rows[j].attempt + 1 /\ j \in Jobs
    BY <1>1, <2>2
  <2> QED BY <2>3
<1> QED BY <1>1, <1>3, <1>4 DEF DeliveryStep

\* The controller.
LEMMA ControllerStep ==
    ASSUME DispatchInvariant,
           \/ Controller
           \/ \E id \in todo : DispatchFails(id)
           \/ MarkFails
           \/ ControllerCrash
    PROVE  StoreStep /\ DeliveryStep /\ ClientStep
<1>1. /\ api \in [Jobs -> {"new", "created", "saved", "dispatched", "writing", "done"}]
      /\ apiRead \in [Jobs -> Rows] /\ \A i \in Jobs : apiRead[i].attempt <= MaxAttempts
      /\ \A i \in Jobs : api[i] = "new" <=> i \notin stored
      /\ rows \in [Jobs -> Rows] /\ \A i \in Jobs : rows[i].attempt <= MaxAttempts
      /\ phase \in {"recover", "reconcile"} /\ current \in stored \cup {NoJob}
      /\ ctlRead \in Rows /\ ctlRead.attempt <= MaxAttempts
      /\ faults \in 0 .. MaxFaults /\ todo \subseteq RqIds /\ stored \subseteq Jobs
  BY DEF DispatchInvariant, TypeOK
<1>2. NoRow \in Rows /\ NoRow.attempt <= MaxAttempts
  BY NewRowType, BoundsAssumption DEF NewRow, NoRow
<1>3. CASE Recover
  <2>1. StoreStep
    BY <1>3, RecoverStep
  <2>2. PICK batch \in SUBSET ExpiredJobs :
            /\ rows' = [j \in Jobs |-> IF j \in batch THEN Recovered(rows[j]) ELSE rows[j]]
            /\ todo' = {<<j, rows[j].attempt + 1>> : j \in {k \in batch : rows'[k].status = "queued"}}
    BY <1>3 DEF Recover
  <2>3. \A j \in Jobs : rows'[j].attempt = rows[j].attempt
    BY <1>1, <2>2, RecoveredRow
  <2> DEFINE queued == {k \in batch : rows'[k].status = "queued"}
  <2>4. queued \in SUBSET stored /\ \A j \in queued : rows'[j].status = "queued"
    BY DEF ExpiredJobs
  <2>5. todo' = {<<j, rows[j].attempt + 1>> : j \in queued}
    BY <2>2
  <2>6. rows' \in [Jobs -> Rows] /\ UNCHANGED rq
    BY <1>3, <2>1 DEF StoreStep, Recover
  <2> HIDE DEF queued
  <2>7. DeliveryStep
    BY <2>3, <2>4, <2>5, <2>6, BatchStep
  <2>8. ClientStep
    BY <1>1, <1>3 DEF Recover, apiVars, ClientStep
  <2> QED BY <2>1, <2>7, <2>8
<1>4. CASE List
  <2>1. UNCHANGED <<storeVars, apiVars, rq, current, ctlRead, faults>> /\ phase' = "recover"
    BY <1>4 DEF List
  <2>2. PICK newer \in 0 .. MaxNewer :
            todo' = {<<j, rows[j].attempt + 1>> : j \in Page(newer)}
    BY <1>4 DEF List
  <2>3. Page(newer) \in SUBSET stored /\ \A j \in Page(newer) : rows'[j].status = "queued"
    BY <2>1 DEF Page, Queued, storeVars
  <2>4. rows' \in [Jobs -> Rows] /\ \A j \in Jobs : rows'[j].attempt = rows[j].attempt
    BY <1>1, <2>1 DEF storeVars
  <2>5. DeliveryStep
    BY <2>1, <2>2, <2>3, <2>4, BatchStep
  <2>6. ClientStep
    BY <1>1, <2>1 DEF storeVars, apiVars, ClientStep
  <2> QED BY <2>1, <2>5, <2>6, StoreKept
<1>5. ASSUME NEW id \in todo, Dispatch(id) \/ DispatchFails(id)
      PROVE  StoreStep /\ DeliveryStep /\ ClientStep
  <2>1. id \in RqIds /\ Known(id) /\ id[1] \in stored
    BY <1>1 DEF Known, DispatchInvariant, DeliveriesFollowRows
  <2>2. PICK state \in RqStates : Enqueued(id) = [rq EXCEPT ![id] = state]
    BY <2>1, ActiveStates
  <2>3. rq' \in {rq, Enqueued(id)} /\ todo' \subseteq todo
    BY <1>5 DEF Dispatch, DispatchFails
  <2>4. DeliveryStep
    BY <2>1, <2>2, <2>3, RqStep
  <2>5. UNCHANGED <<storeVars, apiVars, phase, ctlRead>> /\ current' \in {current, id[1]}
    BY <1>5 DEF Dispatch, DispatchFails
  <2>6. faults' \in 0 .. MaxFaults
    BY <1>1, <1>5, BoundsAssumption DEF Dispatch, DispatchFails, Fault
  <2>7. ClientStep
    BY <1>1, <2>1, <2>5, <2>6 DEF storeVars, apiVars, ClientStep
  <2> QED BY <2>4, <2>5, <2>7, StoreKept
<1>6. CASE ReadForMark \/ MarkFails \/ ControllerCrash
  <2>1. UNCHANGED <<storeVars, apiVars, rq>> /\ todo' \subseteq todo
    BY <1>6 DEF ReadForMark, MarkFails, ControllerCrash
  <2>2. faults' \in 0 .. MaxFaults
    BY <1>1, <1>6, BoundsAssumption DEF ReadForMark, MarkFails, ControllerCrash, Fault
  <2>3. phase' \in {phase, "recover"} /\ current' \in {current, NoJob}
    BY <1>6 DEF ReadForMark, MarkFails, ControllerCrash
  <2>4. ctlRead' \in Rows /\ ctlRead'.attempt <= MaxAttempts
    <3>1. CASE ReadForMark
      <4>1. current \in Jobs /\ ctlRead' = rows[current]
        BY <1>1, <3>1 DEF ReadForMark
      <4> QED BY <1>1, <4>1
    <3>2. CASE MarkFails \/ ControllerCrash
      BY <1>2, <3>2 DEF MarkFails, ControllerCrash
    <3> QED BY <1>6, <3>1, <3>2
  <2>5. ClientStep
    BY <1>1, <2>1, <2>2, <2>3, <2>4 DEF storeVars, apiVars, ClientStep
  <2> QED BY <2>1, <2>5, StoreKept, DeliveriesKept
<1>7. CASE WriteMark
  <2>1. current \in stored /\ current \in Jobs
    BY <1>1, <1>7 DEF WriteMark
  <2>2. Dispatched(ctlRead) \in Rows /\ Dispatched(ctlRead).attempt <= MaxAttempts
    BY <1>1, DispatchedRow
  <2>3. StoreStep
    BY <1>7, <2>1, <2>2, UpsertStep DEF WriteMark
  <2>4. DeliveryStep
    BY <1>7, DeliveriesKept DEF WriteMark
  <2>5. UNCHANGED <<apiVars, phase, faults>> /\ current' = NoJob /\ ctlRead' = NoRow
    BY <1>7 DEF WriteMark
  <2>6. stored' = stored
    BY <1>7, <2>1 DEF WriteMark, Upsert
  <2>7. ClientStep
    BY <1>1, <1>2, <2>5, <2>6 DEF apiVars, ClientStep
  <2> QED BY <2>3, <2>4, <2>7
<1> QED BY <1>3, <1>4, <1>5, <1>6, <1>7 DEF Controller

-----------------------------------------------------------------------------
(* The theorems.                                                             *)

LEMMA NextSteps ==
    ASSUME DispatchInvariant, [Next]_vars
    PROVE  StoreStep /\ DeliveryStep /\ ClientStep
<1>1. CASE Next
  <2>1. ASSUME NEW j \in Jobs, Api(j) \/ LeaseEnds(j) \/ ApiCrash(j)
        PROVE  StoreStep /\ DeliveryStep /\ ClientStep
    BY <2>1, ApiStep, LeaseStep
  <2>2. ASSUME NEW id \in RqIds, Execution(id) \/ WorkerCrash(id) \/ RedisLoses(id)
        PROVE  StoreStep /\ DeliveryStep /\ ClientStep
    BY <2>2, ExecutionStep
  <2> QED BY <1>1, <2>1, <2>2, ControllerStep DEF Next, Faults
<1>2. CASE UNCHANGED vars
  <2>1. UNCHANGED <<storeVars, apiVars, controllerVars, rq, faults>>
    BY <1>2 DEF vars
  <2>2. faults' \in 0 .. MaxFaults
    BY <2>1 DEF DispatchInvariant, TypeOK
  <2>3. ClientStep
    BY <2>1, <2>2, ClientsKept DEF storeVars
  <2>4. DeliveryStep
    BY <2>1, DeliveriesKept DEF controllerVars
  <2> QED BY <2>1, <2>3, <2>4, StoreKept
<1> QED BY <1>1, <1>2

LEMMA InitialDispatch == Init => DispatchInvariant
<1> SUFFICES ASSUME Init PROVE DispatchInvariant
  OBVIOUS
<1>1. NewRow \in Rows /\ NoRow \in Rows /\ NewRow.attempt = 0 /\ NoRow.attempt = 0
  BY NewRowType DEF NewRow, NoRow
<1>2. TypeOK
  BY <1>1, BoundsAssumption DEF Init, TypeOK, RqStates
<1>3. DeliveriesFollowRows
  BY DEF Init, DeliveriesFollowRows, Known
<1>4. QueuedJobsCanBeClaimed
  BY <1>1, BoundsAssumption DEF Init, QueuedJobsCanBeClaimed
<1> QED BY <1>1, <1>2, <1>3, <1>4, BoundsAssumption DEF Init, DispatchInvariant

LEMMA DispatchPreserved ==
    ASSUME DispatchInvariant, StoreStep, DeliveryStep, ClientStep
    PROVE  DispatchInvariant'
<1>1. TypeOK'
  BY DEF TypeOK, StoreStep, DeliveryStep, ClientStep
<1>2. /\ rows \in [Jobs -> Rows] /\ rows' \in [Jobs -> Rows] /\ overwritten \subseteq overwritten'
      /\ stored \subseteq stored' /\ stored' \subseteq Jobs
      /\ \A j \in Jobs \ overwritten' : LifecycleStep(j)
  BY DEF DispatchInvariant, TypeOK, StoreStep
<1>3. QueuedJobsCanBeClaimed'
  BY <1>2 DEF DispatchInvariant, QueuedJobsCanBeClaimed, LifecycleStep
<1>4. DeliveriesFollowRows'
  <2> SUFFICES ASSUME NEW id \in RqIds, (Known(id))'
               PROVE  /\ id[1] \in stored'
                      /\ id[1] \notin overwritten' =>
                             id[2] <= rows'[id[1]].attempt + 1 /\ id[2] <= MaxAttempts
    BY DEF DeliveriesFollowRows
  <2> DEFINE j == id[1]
  <2>1. j \in Jobs /\ id[2] \in Nat /\ MaxAttempts \in Nat \ {0}
    BY RqIdsAre, BoundsAssumption
  <2>2. rows[j].attempt \in Nat /\ rows'[j].attempt \in Nat
    BY <1>2, <2>1 DEF Rows
  <2>3. CASE Known(id)
    <3>1. /\ j \in stored
          /\ j \notin overwritten => id[2] <= rows[j].attempt + 1 /\ id[2] <= MaxAttempts
      BY <2>3 DEF DispatchInvariant, DeliveriesFollowRows
    <3>2. ASSUME j \notin overwritten'
          PROVE  rows[j].attempt <= rows'[j].attempt
      BY <1>2, <2>1, <2>2, <3>2 DEF LifecycleStep
    <3> QED BY <1>2, <2>1, <2>2, <3>1, <3>2
  <2>4. CASE j \in stored /\ id[2] = 1
    BY <1>2, <2>1, <2>2, <2>4
  <2>5. CASE j \in stored /\ rows'[j].status = "queued" /\ id[2] = rows'[j].attempt + 1
    <3>1. j \notin overwritten' => rows'[j].attempt < MaxAttempts
      BY <1>3, <2>1, <2>5 DEF QueuedJobsCanBeClaimed
    <3> QED BY <1>2, <2>1, <2>2, <2>5, <3>1
  <2> QED BY <2>3, <2>4, <2>5 DEF DeliveryStep
<1> QED BY <1>1, <1>2, <1>3, <1>4 DEF DispatchInvariant, StoreStep, ClientStep

\* The invariant that relates the store, the queue and what the clients hold.
THEOREM DispatchInvariance == Spec => []DispatchInvariant
<1>1. DispatchInvariant /\ [Next]_vars => DispatchInvariant'
  BY NextSteps, DispatchPreserved
<1> QED BY <1>1, InitialDispatch, PTL DEF Spec

\* The states of JobDispatch have their types (the rows of job_dispatch.py and
\* job_control.py, the RQ ids, the controller's batch).
THEOREM TypeCorrect == Spec => []TypeOK
<1>1. DispatchInvariant => TypeOK
  BY DEF DispatchInvariant
<1> QED BY <1>1, DispatchInvariance, PTL

\* A job that waits in the queue of the store has an attempt left, so that a delivery of it
\* can claim it: claim_job refuses any other, and a queued row that nobody can claim would
\* stay for ever.  Only a dispatch record that undid another write can break this.
THEOREM QueuedJobsStayClaimable == Spec => []QueuedJobsCanBeClaimed
<1>1. DispatchInvariant => QueuedJobsCanBeClaimed
  BY DEF DispatchInvariant
<1> QED BY <1>1, DispatchInvariance, PTL

\* Redis holds, and the controller enqueues, only deliveries of jobs that the store has, at
\* most for the attempt that follows the row's and never for one that the job does not have:
\* no delivery is ahead of the store, whatever is lost, repeated or crashes in between, unless
\* a dispatch record undid another write of the job's row.
THEOREM QueueFollowsStore == Spec => []DeliveriesFollowRows
<1>1. DispatchInvariant => DeliveriesFollowRows
  BY DEF DispatchInvariant
<1> QED BY <1>1, DispatchInvariance, PTL

\* The dispatch record (_persist_dispatch, an unconditional write of a row read before) is the
\* only way out of the lifecycle: a job that it has not undone a write of is claimed and ended
\* one attempt after the other, and is left alone once it has ended.
THEOREM OnlyRecordsLeaveTheLifecycle ==
    Spec => [][\A j \in Jobs : j \notin overwritten' => LifecycleStep(j)]_vars
<1>1. DispatchInvariant /\ [Next]_vars =>
          [\A j \in Jobs : j \notin overwritten' => LifecycleStep(j)]_vars
  BY NextSteps DEF StoreStep
<1> QED BY <1>1, DispatchInvariance, PTL DEF Spec
=============================================================================
