--------------------------- MODULE JobClaimsProofs ---------------------------
(***************************************************************************)
(* Proofs about JobClaims for any jobs, executions, deliveries, lease      *)
(* lengths and bounds.                                                     *)
(***************************************************************************)
EXTENDS JobClaims, TLAPS

-----------------------------------------------------------------------------
(* What the store's methods compute from a row: a row with the next version, *)
(* and the fields that the invariants read.                                  *)

\* claim_job begins the next attempt and names its owner.
LEMMA ClaimedRow ==
    ASSUME NEW row \in Rows, NEW w \in Workers, NEW lease \in Nat
    PROVE  /\ Claimed(row, w, lease) \in Rows
           /\ Claimed(row, w, lease).status = "running"
           /\ Claimed(row, w, lease).version = row.version + 1
           /\ Claimed(row, w, lease).attempt = row.attempt + 1
           /\ Claimed(row, w, lease).worker = w
           /\ Claimed(row, w, lease).progress = row.progress
  <1> DEFINE v == row.version + 1  a == row.attempt + 1
  <1>1. v \in Nat /\ a \in Nat /\ "running" \in Statuses
    BY DEF Rows, Statuses
  <1>2. Claimed(row, w, lease) =
            [row EXCEPT !.status = "running", !.version = v, !.attempt = a,
                        !.worker = w, !.lease = lease]
    BY DEF Claimed
  <1>3. Claimed(row, w, lease) \in Rows
    <2> HIDE DEF v, a
    <2> QED BY <1>1, <1>2, Zenon DEF Rows
  <1> QED BY <1>3 DEF Claimed, Rows

\* heartbeat_job changes the version and the lease.
LEMMA RefreshedRow ==
    ASSUME NEW row \in Rows, NEW lease \in Nat
    PROVE  /\ Refreshed(row, lease) \in Rows
           /\ Refreshed(row, lease).status = row.status
           /\ Refreshed(row, lease).version = row.version + 1
           /\ Refreshed(row, lease).attempt = row.attempt
           /\ Refreshed(row, lease).worker = row.worker
           /\ Refreshed(row, lease).progress = row.progress
  <1> DEFINE v == row.version + 1
  <1>1. v \in Nat
    BY DEF Rows
  <1>2. Refreshed(row, lease) = [row EXCEPT !.version = v, !.lease = lease]
    BY DEF Refreshed
  <1>3. Refreshed(row, lease) \in Rows
    <2> HIDE DEF v
    <2> QED BY <1>1, <1>2, Zenon DEF Rows
  <1> QED BY <1>3 DEF Refreshed, Rows

\* update_claimed_job changes the version and raises the progress.
LEMMA UpdatedRow ==
    ASSUME NEW row \in Rows, NEW p \in Progress
    PROVE  /\ Updated(row, p) \in Rows
           /\ Updated(row, p).status = row.status
           /\ Updated(row, p).version = row.version + 1
           /\ Updated(row, p).attempt = row.attempt
           /\ Updated(row, p).worker = row.worker
           /\ Updated(row, p).progress >= row.progress
  <1> DEFINE v == row.version + 1
             raised == IF p > row.progress THEN p ELSE row.progress
  <1>1. v \in Nat /\ raised \in Progress
    BY DEF Rows
  <1>2. Updated(row, p) = [row EXCEPT !.version = v, !.progress = raised]
    BY DEF Updated
  <1>3. Updated(row, p) \in Rows
    <2> HIDE DEF v, raised
    <2> QED BY <1>1, <1>2, Zenon DEF Rows
  <1>4. p \in Int /\ row.progress \in Int
    BY FullProgressAssumption DEF Rows, Progress
  <1> QED BY <1>3, <1>4 DEF Updated, Rows

\* release_job_claim ends the claim, in the queue or in a terminal status.
LEMMA ReleasedRow ==
    ASSUME NEW row \in Rows, NEW s \in ReleaseStatuses
    PROVE  /\ Released(row, s) \in Rows
           /\ Released(row, s).status \in ReleaseStatuses
           /\ s = "completed" => Released(row, s).status = "completed"
           /\ Released(row, s).status = "completed" => s = "completed"
           /\ Released(row, s).status = "queued" => row.attempt < MaxAttempts
           /\ Released(row, s).status \in {"failed", "interrupted"} =>
                  row.attempt >= MaxAttempts \/ s \in {"failed", "interrupted"}
           /\ Released(row, s).version = row.version + 1
           /\ Released(row, s).attempt = row.attempt
           /\ Released(row, s).progress >= row.progress
  <1> DEFINE v == row.version + 1
             next == IF s = "queued" /\ row.attempt >= MaxAttempts THEN "failed" ELSE s
             p == IF next = "queued" THEN row.progress ELSE FullProgress
  <1>1. v \in Nat /\ next \in Statuses /\ p \in Progress
    BY FullProgressAssumption DEF Rows, Statuses, Terminal, ReleaseStatuses, Progress
  <1>2. Released(row, s) =
            [row EXCEPT !.status = next, !.version = v, !.worker = NoWorker,
                        !.lease = NoLease, !.progress = p]
    BY DEF Released
  <1>3. Released(row, s) \in Rows
    <2> HIDE DEF v, next, p
    <2> QED BY <1>1, <1>2, Zenon DEF Rows
  <1>4. row.progress \in Int /\ row.progress <= FullProgress /\ FullProgress \in Int
    BY FullProgressAssumption DEF Rows, Progress
  <1>5. row.attempt \in Int /\ MaxAttempts \in Int
    BY MaxAttemptsAssumption DEF Rows
  <1> QED BY <1>3, <1>4, <1>5 DEF Released, Rows, ReleaseStatuses

\* recover_expired_jobs ends the claim, in the queue or as interrupted.
LEMMA RecoveredRow ==
    ASSUME NEW row \in Rows
    PROVE  /\ Recovered(row) \in Rows
           /\ Recovered(row).status \in {"queued", "interrupted"}
           /\ Recovered(row).status = "queued" => row.attempt < MaxAttempts
           /\ Recovered(row).status = "interrupted" => row.attempt >= MaxAttempts
           /\ Recovered(row).version = row.version + 1
           /\ Recovered(row).attempt = row.attempt
           /\ Recovered(row).progress >= row.progress
  <1> DEFINE v == row.version + 1
             next == IF row.attempt < MaxAttempts THEN "queued" ELSE "interrupted"
             p == IF next = "queued" THEN row.progress ELSE FullProgress
  <1>1. v \in Nat /\ next \in Statuses /\ p \in Progress
    BY FullProgressAssumption DEF Rows, Statuses, Terminal, Progress
  <1>2. Recovered(row) =
            [row EXCEPT !.status = next, !.version = v, !.worker = NoWorker,
                        !.lease = NoLease, !.progress = p]
    BY DEF Recovered
  <1>3. Recovered(row) \in Rows
    <2> HIDE DEF v, next, p
    <2> QED BY <1>1, <1>2, Zenon DEF Rows
  <1>4. row.progress \in Int /\ row.progress <= FullProgress /\ FullProgress \in Int
    BY FullProgressAssumption DEF Rows, Progress
  <1>5. row.attempt \in Int /\ MaxAttempts \in Int
    BY MaxAttemptsAssumption DEF Rows
  <1> QED BY <1>3, <1>4, <1>5 DEF Recovered, Rows

-----------------------------------------------------------------------------
(* Types.                                                                    *)

\* The values that the actions put together from the state have their types.
LEMMA ValueTypes ==
    ASSUME TypeOK
    PROVE  /\ NewRow \in Rows
           /\ NoRead \in Reads
           /\ LeaseEnd \in Nat
           /\ clock \in Nat
           /\ \A w \in Workers : JobOf[w] \in Jobs /\ Row(w) \in Rows
           /\ \A w \in Workers, lease \in Nat :
                  [row |-> Row(w), now |-> clock, lease |-> lease] \in Reads
           /\ \A w \in Workers :
                  /\ read[w].row \in Rows /\ read[w].lease \in Nat
                  /\ beatRead[w].row \in Rows /\ beatRead[w].lease \in Nat
           /\ \A r \in batch : r.job \in Jobs /\ r.row \in Rows
  <1>1. NewRow \in Rows
    BY FullProgressAssumption DEF NewRow, Rows, Statuses, Progress
  <1>2. clock \in Nat /\ LeaseEnd \in Nat
    BY ParameterAssumption DEF TypeOK, LeaseEnd
  <1>3. \A w \in Workers : JobOf[w] \in Jobs /\ Row(w) \in Rows
    BY JobOfAssumption DEF TypeOK, Row
  <1>4. NoRead \in Reads
    BY <1>1 DEF NoRead, Reads
  <1>5. \A w \in Workers, lease \in Nat :
            [row |-> Row(w), now |-> clock, lease |-> lease] \in Reads
    BY <1>2, <1>3 DEF Reads
  <1>6. \A w \in Workers :
            /\ read[w].row \in Rows /\ read[w].lease \in Nat
            /\ beatRead[w].row \in Rows /\ beatRead[w].lease \in Nat
    BY DEF TypeOK, Reads
  <1>7. \A r \in batch : r.job \in Jobs /\ r.row \in Rows
    BY DEF TypeOK
  <1> QED BY <1>1, <1>2, <1>3, <1>4, <1>5, <1>6, <1>7

\* Seconds are integers, and follow the order of the times they are taken from.
LEMMA SecondTypes ==
    /\ \A t \in Int : Second(t) \in Int
    /\ \A row \in Rows : row.lease \in Int /\ Second(row.lease) \in Int
    /\ \A s, t \in Nat : s <= t => Second(s) <= Second(t)
  <1>1. TicksPerSecond \in Int /\ TicksPerSecond > 0
    BY TicksPerSecondAssumption
  <1>2. ASSUME NEW t \in Int PROVE Second(t) \in Int
    BY <1>1, SMT DEF Second
  <1>3. ASSUME NEW row \in Rows PROVE row.lease \in Int
    BY DEF Rows, NoLease
  <1>4. ASSUME NEW s \in Int, NEW t \in Int, s <= t PROVE Second(s) <= Second(t)
    BY <1>1, <1>4, SMT DEF Second
  <1> QED BY <1>2, <1>3, <1>4

\* Time does not go back.
LEMMA ClockStep == TypeOK /\ [Next]_vars => clock' \in Nat /\ clock <= clock'
  <1> SUFFICES ASSUME TypeOK, [Next]_vars PROVE clock' \in Nat /\ clock <= clock'
    OBVIOUS
  <1>1. clock \in Nat
    BY ValueTypes
  <1>2. ASSUME NEW w \in Workers, Main(w) \/ Environment(w) \/ Heartbeat(w)
        PROVE  UNCHANGED clock
    BY <1>2 DEF Main, BeginClaim, FinishClaim, BeginUpdate, FinishUpdate, AssertClaim, Upload,
                Publish, BeginComplete, FinishComplete, BeginRelease, FinishRelease,
                BeginClaimedCall, FinishClaimedCall, Environment, RunnerFails, Crash, BeatFails,
                Heartbeat, BeginBeat, FinishBeat
  <1>3. ASSUME Controller \/ ControllerCrash \/ UNCHANGED vars PROVE UNCHANGED clock
    BY <1>3 DEF Controller, RecoverSelect, RecoverOne, ControllerCrash, vars
  <1>4. ASSUME Tick PROVE clock' = clock + 1
    BY <1>4 DEF Tick
  <1> QED BY <1>1, <1>2, <1>3, <1>4 DEF Next

\* The main thread's bookkeeping keeps its types.
LEMMA CallTypes ==
    ASSUME TypeOK, NEW w \in Workers, NEW p \in Phases, NEW lease \in Nat,
           NEW n \in 0 .. CasRetries
    PROVE  GoTo(w, p) \/ ReadRow(w, p, lease, n) =>
               /\ pc' \in [Workers -> Phases]
               /\ read' \in [Workers -> Reads]
               /\ tries' \in [Workers -> 0 .. CasRetries]
  <1>1. 0 \in 0 .. CasRetries
    BY ParameterAssumption
  <1>2. ASSUME GoTo(w, p)
        PROVE  /\ pc' \in [Workers -> Phases]
               /\ read' \in [Workers -> Reads]
               /\ tries' \in [Workers -> 0 .. CasRetries]
    BY <1>1, <1>2, ValueTypes DEF GoTo, TypeOK
  <1>3. ASSUME ReadRow(w, p, lease, n)
        PROVE  /\ pc' \in [Workers -> Phases]
               /\ read' \in [Workers -> Reads]
               /\ tries' \in [Workers -> 0 .. CasRetries]
    BY <1>3, ValueTypes DEF ReadRow, TypeOK
  <1> QED BY <1>2, <1>3

\* The heartbeat thread's bookkeeping keeps its types.
LEMMA BeatTypes ==
    ASSUME TypeOK, NEW w \in Workers
    PROVE  /\ \A state \in {"off", "idle"} : BeatGoTo(w, state) =>
                  /\ beat' \in [Workers -> {"off", "idle", "writing"}]
                  /\ beatRead' \in [Workers -> Reads]
                  /\ beatTries' \in [Workers -> 0 .. CasRetries]
           /\ \A lease \in Nat, n \in 0 .. CasRetries : BeatRead(w, lease, n) =>
                  /\ beat' \in [Workers -> {"off", "idle", "writing"}]
                  /\ beatRead' \in [Workers -> Reads]
                  /\ beatTries' \in [Workers -> 0 .. CasRetries]
                  /\ lost' \in [Workers -> BOOLEAN]
  <1>1. 0 \in 0 .. CasRetries
    BY ParameterAssumption
  <1>2. ASSUME NEW state \in {"off", "idle"}, BeatGoTo(w, state)
        PROVE  /\ beat' \in [Workers -> {"off", "idle", "writing"}]
               /\ beatRead' \in [Workers -> Reads]
               /\ beatTries' \in [Workers -> 0 .. CasRetries]
    BY <1>1, <1>2, ValueTypes DEF BeatGoTo, TypeOK
  <1>3. ASSUME NEW lease \in Nat, NEW n \in 0 .. CasRetries, BeatRead(w, lease, n)
        PROVE  /\ beat' \in [Workers -> {"off", "idle", "writing"}]
               /\ beatRead' \in [Workers -> Reads]
               /\ beatTries' \in [Workers -> 0 .. CasRetries]
               /\ lost' \in [Workers -> BOOLEAN]
    <2>1. CASE lease > clock /\ HasLiveClaim(Row(w), w, clock)
      <3> DEFINE seen == [row |-> Row(w), now |-> clock, lease |-> lease]
      <3>1. seen \in Reads
        BY ValueTypes
      <3>2. /\ beat' = [beat EXCEPT ![w] = "writing"]
            /\ beatRead' = [beatRead EXCEPT ![w] = seen]
            /\ beatTries' = [beatTries EXCEPT ![w] = n]
            /\ lost' = lost
        BY <1>3, <2>1 DEF BeatRead
      <3> HIDE DEF seen
      <3> QED BY <3>1, <3>2 DEF TypeOK
    <2>2. CASE ~(lease > clock /\ HasLiveClaim(Row(w), w, clock))
      <3>1. BeatGoTo(w, "off") /\ lost' = [lost EXCEPT ![w] = TRUE]
        BY <1>3, <2>2 DEF BeatRead
      <3> QED BY <1>2, <3>1 DEF TypeOK
    <2> QED BY <2>1, <2>2
  <1> QED BY <1>2, <1>3

\* A call's write and the phases around it keep the types.
LEMMA ClaimedCallTypes ==
    ASSUME TypeOK, NEW w \in Workers, NEW from, NEW to \in Phases,
           NEW at \in Phases, NEW next \in Phases, NEW payloads \in SUBSET Rows
    PROVE  /\ BeginClaimedCall(w, from, to) => TypeOK'
           /\ FinishClaimedCall(w, at, payloads, next) => TypeOK'
  <1> USE DEF TypeOK, beatVars, outputVars, controllerVars
  <1>1. 1 \in 0 .. CasRetries /\ "done" \in Phases
    BY ParameterAssumption DEF Phases
  <1>2. ASSUME BeginClaimedCall(w, from, to) PROVE TypeOK'
    BY <1>1, <1>2, CallTypes DEF BeginClaimedCall
  <1>3. ASSUME FinishClaimedCall(w, at, payloads, next) PROVE TypeOK'
    <2>1. tries[w] < CasRetries => tries[w] + 1 \in 0 .. CasRetries
      <3>1. tries[w] \in 0 .. CasRetries
        OBVIOUS
      <3> HIDE DEF TypeOK
      <3> QED BY <3>1, ParameterAssumption
    <2>2. /\ pc' \in [Workers -> Phases]
          /\ read' \in [Workers -> Reads]
          /\ tries' \in [Workers -> 0 .. CasRetries]
      BY <1>1, <1>3, <2>1, CallTypes DEF FinishClaimedCall
    <2>3. rows' \in [Jobs -> Rows]
      BY <1>3, ValueTypes DEF FinishClaimedCall, Write
    <2> QED BY <1>3, <2>2, <2>3 DEF FinishClaimedCall
  <1> QED BY <1>2, <1>3

\* Every step of the system keeps the types.
LEMMA TypeStep == TypeOK /\ [Next]_vars => TypeOK'
  <1> SUFFICES ASSUME TypeOK, [Next]_vars PROVE TypeOK'
    OBVIOUS
  <1> USE DEF beatVars, outputVars, controllerVars, mainVars
  <1>1. /\ {"claiming", "working", "done", "crashed", "failing", "uploaded", "published",
            "uploading", "publishing", "completing", "updating", "closing", "releasing"}
               \subseteq Phases
        /\ \A p \in DOMAIN Guarded : Guarded[p] \in Phases
    BY DEF Phases, Active, Computing, Guarded
  <1>2. 0 \in 0 .. CasRetries /\ 1 \in 0 .. CasRetries
    BY ParameterAssumption
  <1>3. ASSUME NEW w \in Workers, BeginClaim(w) PROVE TypeOK'
    <2>1. /\ pc' \in [Workers -> Phases]
          /\ read' \in [Workers -> Reads]
          /\ tries' \in [Workers -> 0 .. CasRetries]
      BY <1>1, <1>2, <1>3, CallTypes, ValueTypes DEF BeginClaim
    <2> QED BY <1>3, <2>1 DEF BeginClaim, TypeOK
  <1>4. ASSUME NEW w \in Workers, FinishClaim(w) PROVE TypeOK'
    <2>1. /\ pc' \in [Workers -> Phases]
          /\ read' \in [Workers -> Reads]
          /\ tries' \in [Workers -> 0 .. CasRetries]
      BY <1>1, <1>2, <1>4, CallTypes DEF FinishClaim
    <2>2. read[w].row \in Rows /\ read[w].lease \in Nat
      BY ValueTypes
    <2>3. Claimed(read[w].row, w, read[w].lease) \in Rows
      BY <2>2, ClaimedRow
    <2>4. rows' \in [Jobs -> Rows]
      BY <1>4, <2>3 DEF FinishClaim, Write, TypeOK
    <2>5. read[w].row.attempt + 1 \in Nat
      BY <2>2 DEF Rows
    <2>6. attempt' \in [Workers -> Nat] /\ beat' \in [Workers -> {"off", "idle", "writing"}]
      BY <1>4, <2>5 DEF FinishClaim, TypeOK
    <2> QED BY <1>4, <2>1, <2>4, <2>6 DEF FinishClaim, TypeOK
  <1>5. ASSUME NEW w \in Workers, BeginUpdate(w) PROVE TypeOK'
    BY <1>1, <1>5, ClaimedCallTypes DEF BeginUpdate
  <1>6. ASSUME NEW w \in Workers, FinishUpdate(w) PROVE TypeOK'
    <2>1. {Updated(read[w].row, p) : p \in Progress} \in SUBSET Rows
      BY ValueTypes, UpdatedRow
    <2> QED BY <1>1, <1>6, <2>1, ClaimedCallTypes DEF FinishUpdate
  <1>7. ASSUME NEW w \in Workers, AssertClaim(w) PROVE TypeOK'
    <2>1. \E p \in Phases : GoTo(w, p)
      <3>1. CASE lost[w]
        BY <1>1, <1>7, <3>1 DEF AssertClaim
      <3>2. CASE ~lost[w] /\ uncertain[w]
        BY <1>1, <1>7, <3>2 DEF AssertClaim
      <3>3. CASE ~lost[w] /\ ~uncertain[w]
        BY <1>1, <1>7, <3>3 DEF AssertClaim
      <3> QED BY <3>1, <3>2, <3>3
    <2>2. /\ pc' \in [Workers -> Phases]
          /\ read' \in [Workers -> Reads]
          /\ tries' \in [Workers -> 0 .. CasRetries]
      BY <1>2, <2>1, CallTypes
    <2> QED BY <1>7, <2>2 DEF AssertClaim, TypeOK
  <1>8. ASSUME NEW w \in Workers, Upload(w) PROVE TypeOK'
    <2>1. /\ pc' \in [Workers -> Phases]
          /\ read' \in [Workers -> Reads]
          /\ tries' \in [Workers -> 0 .. CasRetries]
      BY <1>1, <1>2, <1>8, CallTypes DEF Upload
    <2> QED BY <1>8, <2>1 DEF Upload, TypeOK
  <1>9. ASSUME NEW w \in Workers, Publish(w) PROVE TypeOK'
    <2>1. /\ pc' \in [Workers -> Phases]
          /\ read' \in [Workers -> Reads]
          /\ tries' \in [Workers -> 0 .. CasRetries]
      BY <1>1, <1>2, <1>9, CallTypes DEF Publish
    <2>2. domain' \in [Jobs -> Workers \cup {NoWorker}]
      BY <1>9 DEF Publish, TypeOK
    <2> QED BY <1>9, <2>1, <2>2 DEF Publish, TypeOK
  <1>10. ASSUME NEW w \in Workers, BeginComplete(w) PROVE TypeOK'
    BY <1>1, <1>10, ClaimedCallTypes DEF BeginComplete
  <1>11. ASSUME NEW w \in Workers, FinishComplete(w) PROVE TypeOK'
    <2>1. {Released(read[w].row, "completed")} \in SUBSET Rows
      BY ValueTypes, ReleasedRow DEF ReleaseStatuses
    <2> QED BY <1>1, <1>11, <2>1, ClaimedCallTypes DEF FinishComplete
  <1>12. ASSUME NEW w \in Workers, BeginRelease(w) PROVE TypeOK'
    BY <1>1, <1>12, ClaimedCallTypes DEF BeginRelease
  <1>13. ASSUME NEW w \in Workers, FinishRelease(w) PROVE TypeOK'
    <2> DEFINE status == IF read[w].row.attempt < MaxAttempts THEN "queued" ELSE "failed"
    <2>1. status \in ReleaseStatuses
      BY DEF ReleaseStatuses
    <2>2. {Released(read[w].row, status)} \in SUBSET Rows
      BY <2>1, ValueTypes, ReleasedRow
    <2> QED BY <1>1, <1>13, <2>2, ClaimedCallTypes DEF FinishRelease
  <1>14. ASSUME NEW w \in Workers, RunnerFails(w) PROVE TypeOK'
    <2>1. /\ pc' \in [Workers -> Phases]
          /\ read' \in [Workers -> Reads]
          /\ tries' \in [Workers -> 0 .. CasRetries]
      BY <1>1, <1>2, <1>14, CallTypes DEF RunnerFails
    <2> QED BY <1>14, <2>1 DEF RunnerFails, TypeOK
  <1>15. ASSUME NEW w \in Workers, Crash(w) PROVE TypeOK'
    <2>1. /\ pc' \in [Workers -> Phases]
          /\ read' \in [Workers -> Reads]
          /\ tries' \in [Workers -> 0 .. CasRetries]
      BY <1>1, <1>2, <1>15, CallTypes DEF Crash
    <2>2. BeatGoTo(w, "off")
      BY <1>15 DEF Crash, BeatGoTo
    <2>3. /\ beat' \in [Workers -> {"off", "idle", "writing"}]
          /\ beatRead' \in [Workers -> Reads]
          /\ beatTries' \in [Workers -> 0 .. CasRetries]
      BY <2>2, BeatTypes
    <2> QED BY <1>15, <2>1, <2>3 DEF Crash, TypeOK
  <1>16. ASSUME NEW w \in Workers, BeatFails(w) PROVE TypeOK'
    <2>1. /\ beat' \in [Workers -> {"off", "idle", "writing"}]
          /\ beatRead' \in [Workers -> Reads]
          /\ beatTries' \in [Workers -> 0 .. CasRetries]
      BY <1>16, BeatTypes DEF BeatFails
    <2> QED BY <1>16, <2>1 DEF BeatFails, TypeOK
  <1>17. ASSUME NEW w \in Workers, BeginBeat(w) PROVE TypeOK'
    <2>1. /\ beat' \in [Workers -> {"off", "idle", "writing"}]
          /\ beatRead' \in [Workers -> Reads]
          /\ beatTries' \in [Workers -> 0 .. CasRetries]
          /\ lost' \in [Workers -> BOOLEAN]
      BY <1>2, <1>17, BeatTypes, ValueTypes DEF BeginBeat
    <2> QED BY <1>17, <2>1 DEF BeginBeat, TypeOK
  <1>18. ASSUME NEW w \in Workers, FinishBeat(w) PROVE TypeOK'
    <2>1. beatRead[w].row \in Rows /\ beatRead[w].lease \in Nat
      BY ValueTypes
    <2>2. CASE OwnerCasMatches(Row(w), beatRead[w].row, w, beatRead[w].now)
      <3>1. /\ beat' \in [Workers -> {"off", "idle", "writing"}]
            /\ beatRead' \in [Workers -> Reads]
            /\ beatTries' \in [Workers -> 0 .. CasRetries]
        BY <1>18, <2>2, BeatTypes DEF FinishBeat
      <3>2. rows' \in [Jobs -> Rows]
        <4>1. Refreshed(beatRead[w].row, beatRead[w].lease) \in Rows
          BY <2>1, RefreshedRow
        <4> QED BY <1>18, <2>2, <4>1 DEF FinishBeat, Write, TypeOK
      <3> QED BY <1>18, <2>2, <3>1, <3>2 DEF FinishBeat, TypeOK
    <2>3. CASE ~OwnerCasMatches(Row(w), beatRead[w].row, w, beatRead[w].now)
      <3>1. \/ /\ beatTries[w] < CasRetries
               /\ BeatRead(w, beatRead[w].lease, beatTries[w] + 1)
            \/ BeatGoTo(w, "off") /\ lost' = [lost EXCEPT ![w] = TRUE]
        BY <1>18, <2>3 DEF FinishBeat
      <3>2. beatTries[w] < CasRetries => beatTries[w] + 1 \in 0 .. CasRetries
        <4>1. beatTries[w] \in 0 .. CasRetries
          BY DEF TypeOK
        <4> QED BY <4>1, ParameterAssumption
      <3>3. /\ beat' \in [Workers -> {"off", "idle", "writing"}]
            /\ beatRead' \in [Workers -> Reads]
            /\ beatTries' \in [Workers -> 0 .. CasRetries]
            /\ lost' \in [Workers -> BOOLEAN]
        <4>1. CASE BeatGoTo(w, "off") /\ lost' = [lost EXCEPT ![w] = TRUE]
          BY <4>1, BeatTypes DEF TypeOK
        <4>2. CASE beatTries[w] < CasRetries /\ BeatRead(w, beatRead[w].lease, beatTries[w] + 1)
          BY <2>1, <3>2, <4>2, BeatTypes
        <4> QED BY <3>1, <4>1, <4>2
      <3> QED BY <1>18, <2>3, <3>3 DEF FinishBeat, TypeOK
    <2> QED BY <2>2, <2>3
  <1>19. ASSUME RecoverSelect PROVE TypeOK'
    <2>1. ExpiredRows \in SUBSET [job : Jobs, row : Rows]
      BY DEF ExpiredRows, TypeOK
    <2>2. batch' \in SUBSET ExpiredRows
      BY <1>19 DEF RecoverSelect
    <2> QED BY <1>19, <2>1, <2>2 DEF RecoverSelect, TypeOK
  <1>20. ASSUME NEW r \in batch, RecoverOne(r) PROVE TypeOK'
    <2>1. rows' \in [Jobs -> Rows]
      BY <1>20, ValueTypes, RecoveredRow DEF RecoverOne, TypeOK
    <2> QED BY <1>20, <2>1 DEF RecoverOne, TypeOK
  <1>21. ASSUME ControllerCrash PROVE TypeOK'
    BY <1>21, ParameterAssumption DEF ControllerCrash, TypeOK
  <1>22. ASSUME Tick PROVE TypeOK'
    BY <1>22, ParameterAssumption DEF Tick, TypeOK
  <1>23. ASSUME UNCHANGED vars PROVE TypeOK'
    BY <1>23 DEF vars, TypeOK
  <1> QED
    BY <1>3, <1>4, <1>5, <1>6, <1>7, <1>8, <1>9, <1>10, <1>11, <1>12, <1>13, <1>14, <1>15,
       <1>16, <1>17, <1>18, <1>19, <1>20, <1>21, <1>22, <1>23
       DEF Next, Main, Environment, Heartbeat, Controller

-----------------------------------------------------------------------------
(* What a step does to the rows.  A conditional write succeeds only on the   *)
(* row that was read, so that every write is one of three transitions of the *)
(* stored row.                                                               *)

\* claim_job begins an attempt of a claimable row.
Claims(j, w) ==
    /\ JobOf[w] = j
    /\ pc[w] = "claiming"
    /\ Claimable(rows[j])
    /\ rows' = [rows EXCEPT ![j] = Claimed(rows[j], w, read[w].lease)]
    /\ attempt' = [attempt EXCEPT ![w] = rows[j].attempt + 1]
    /\ pc'[w] = "working"

\* The owner keeps its claim: a heartbeat or a progress update.
Renews(j, row) ==
    /\ rows[j].status = "running"
    /\ row.status = "running"
    /\ row.version = rows[j].version + 1
    /\ row.attempt = rows[j].attempt
    /\ row.worker = rows[j].worker
    /\ row.progress >= rows[j].progress
    /\ rows' = [rows EXCEPT ![j] = row]
    /\ attempt' = attempt

\* The claim ends: the owner releases it, or the controller recovers it.
Ends(j, row) ==
    /\ rows[j].status = "running"
    /\ row.status \in ReleaseStatuses
    /\ row.version = rows[j].version + 1
    /\ row.attempt = rows[j].attempt
    /\ row.progress >= rows[j].progress
    /\ row.status = "completed" =>
           \E w \in Workers : JobOf[w] = j /\ pc[w] = "closing" /\ rows[j].worker = w
    /\ row.status = "queued" => rows[j].attempt < MaxAttempts
    /\ row.status \in {"failed", "interrupted"} => rows[j].attempt >= MaxAttempts
    /\ Second(rows[j].lease) > Second(clock) =>
           pc[rows[j].worker] \in {"closing", "releasing"}
    /\ rows' = [rows EXCEPT ![j] = row]
    /\ attempt' = attempt

StoreStep ==
    \/ rows' = rows /\ attempt' = attempt
    \/ \E j \in Jobs, w \in Workers : Claims(j, w)
    \/ \E j \in Jobs, row \in Rows : Renews(j, row) \/ Ends(j, row)

\* A conditional write that finds the version it read finds the row it read.
LEMMA CasIsCurrent ==
    ASSUME NEW seen, NEW row, OldOrCurrent(seen, row), CasMatches(row, seen)
    PROVE  seen = row
  BY DEF OldOrCurrent, CasMatches

\* The write of a claimed call ends it or leaves the rows alone.
LEMMA ClaimedCallWrites ==
    ASSUME TypeOK, ReadsAreOldOrCurrent, PendingWrites,
           NEW w \in Workers, NEW at \in {"updating", "closing", "releasing"},
           NEW payloads, NEW next, FinishClaimedCall(w, at, payloads, next)
    PROVE  /\ attempt' = attempt
           /\ pc[w] = at
           /\ \/ rows' = rows
              \/ /\ read[w].row = Row(w)
                 /\ Row(w).status = "running"
                 /\ Row(w).worker = w
                 /\ \E row \in payloads : rows' = [rows EXCEPT ![JobOf[w]] = row]
  <1>1. CASE OwnerCasMatches(Row(w), read[w].row, w, read[w].now)
    <2>1. read[w].row = Row(w)
      BY <1>1, CasIsCurrent DEF OwnerCasMatches, ReadsAreOldOrCurrent
    <2>2. read[w].row.status = "running"
      BY DEF FinishClaimedCall, PendingWrites
    <2> QED BY <1>1, <2>1, <2>2 DEF FinishClaimedCall, OwnerCasMatches, Write
  <1>2. CASE ~OwnerCasMatches(Row(w), read[w].row, w, read[w].now)
    BY <1>2 DEF FinishClaimedCall
  <1> QED BY <1>1, <1>2

\* Every step of the system is one of these transitions or leaves the rows alone.
LEMMA StoreSteps ==
    TypeOK /\ ReadsAreOldOrCurrent /\ PendingWrites /\ [Next]_vars => StoreStep
  <1> SUFFICES ASSUME TypeOK, ReadsAreOldOrCurrent, PendingWrites, [Next]_vars
               PROVE  StoreStep
    OBVIOUS
  <1> USE DEF mainVars
  <1>1. ASSUME NEW w \in Workers, FinishClaim(w) PROVE StoreStep
    <2>1. CASE CasMatches(Row(w), read[w].row) /\ Row(w).attempt < MaxAttempts
      <3>1. read[w].row = Row(w)
        BY <2>1, CasIsCurrent DEF ReadsAreOldOrCurrent
      <3>2. Claimable(Row(w))
        BY <1>1, <3>1 DEF FinishClaim, PendingWrites
      <3>3. Claims(JobOf[w], w)
        BY <1>1, <2>1, <3>1, <3>2 DEF Claims, FinishClaim, GoTo, TypeOK, Write, Row
      <3> QED BY <3>3, ValueTypes DEF StoreStep
    <2>2. CASE ~(CasMatches(Row(w), read[w].row) /\ Row(w).attempt < MaxAttempts)
      BY <1>1, <2>2 DEF FinishClaim, StoreStep
    <2> QED BY <2>1, <2>2
  <1>2. ASSUME NEW w \in Workers, FinishUpdate(w) PROVE StoreStep
    <2>1. CASE rows' = rows
      BY <1>2, <2>1, ClaimedCallWrites DEF FinishUpdate, StoreStep
    <2>2. CASE rows' # rows
      <3>1. PICK p \in Progress : rows' = [rows EXCEPT ![JobOf[w]] = Updated(Row(w), p)]
        BY <1>2, <2>2, ClaimedCallWrites DEF FinishUpdate
      <3>2. Row(w).status = "running" /\ attempt' = attempt
        BY <1>2, <2>2, ClaimedCallWrites DEF FinishUpdate
      <3>3. Renews(JobOf[w], Updated(Row(w), p))
        BY <3>1, <3>2, UpdatedRow, ValueTypes DEF Renews, Row
      <3> QED BY <3>3, UpdatedRow, ValueTypes DEF StoreStep
    <2> QED BY <2>1, <2>2
  <1>3. ASSUME NEW w \in Workers, FinishComplete(w) PROVE StoreStep
    <2>1. CASE rows' = rows
      BY <1>3, <2>1, ClaimedCallWrites DEF FinishComplete, StoreStep
    <2>2. CASE rows' # rows
      <3>1. /\ rows' = [rows EXCEPT ![JobOf[w]] = Released(Row(w), "completed")]
            /\ Row(w).status = "running" /\ Row(w).worker = w
            /\ attempt' = attempt /\ pc[w] = "closing"
        BY <1>3, <2>2, ClaimedCallWrites DEF FinishComplete
      <3>2. "completed" \in ReleaseStatuses
        BY DEF ReleaseStatuses
      <3>3. Ends(JobOf[w], Released(Row(w), "completed"))
        BY <3>1, <3>2, ReleasedRow, ValueTypes DEF Ends, Row
      <3> QED BY <3>2, <3>3, ReleasedRow, ValueTypes DEF StoreStep
    <2> QED BY <2>1, <2>2
  <1>4. ASSUME NEW w \in Workers, FinishRelease(w) PROVE StoreStep
    <2> DEFINE status == IF read[w].row.attempt < MaxAttempts THEN "queued" ELSE "failed"
    <2>1. CASE rows' = rows
      BY <1>4, <2>1, ClaimedCallWrites DEF FinishRelease, StoreStep
    <2>2. CASE rows' # rows
      <3>1. /\ rows' = [rows EXCEPT ![JobOf[w]] = Released(Row(w), status)]
            /\ Row(w).status = "running" /\ Row(w).worker = w
            /\ attempt' = attempt /\ pc[w] = "releasing"
            /\ read[w].row = Row(w)
        BY <1>4, <2>2, ClaimedCallWrites DEF FinishRelease
      <3>2. status \in ReleaseStatuses /\ status # "completed"
        BY DEF ReleaseStatuses
      <3>4. status \in {"failed", "interrupted"} => Row(w).attempt >= MaxAttempts
        <4>1. Row(w).attempt \in Int /\ MaxAttempts \in Int
          BY ValueTypes, MaxAttemptsAssumption DEF Rows
        <4> QED BY <3>1, <4>1
      <3> HIDE DEF status
      <3>3. Ends(JobOf[w], Released(Row(w), status))
        BY <3>1, <3>2, <3>4, ReleasedRow, ValueTypes DEF Ends, Row
      <3> QED BY <3>2, <3>3, ReleasedRow, ValueTypes DEF StoreStep
    <2> QED BY <2>1, <2>2
  <1>5. ASSUME NEW w \in Workers, FinishBeat(w) PROVE StoreStep
    <2>1. CASE OwnerCasMatches(Row(w), beatRead[w].row, w, beatRead[w].now)
      <3>1. beatRead[w].row = Row(w)
        BY <2>1, CasIsCurrent DEF OwnerCasMatches, ReadsAreOldOrCurrent
      <3>2. Row(w).status = "running"
        BY <1>5, <3>1 DEF FinishBeat, PendingWrites
      <3>3. /\ rows' = [rows EXCEPT ![JobOf[w]] = Refreshed(Row(w), beatRead[w].lease)]
            /\ attempt' = attempt
        BY <1>5, <2>1, <3>1 DEF FinishBeat, Write
      <3>4. beatRead[w].lease \in Nat /\ Row(w) \in Rows /\ JobOf[w] \in Jobs
        BY ValueTypes
      <3>5. Row(w).progress \in Int
        BY <3>4, FullProgressAssumption DEF Rows, Progress
      <3>6. Renews(JobOf[w], Refreshed(Row(w), beatRead[w].lease))
        <4> DEFINE row == Refreshed(Row(w), beatRead[w].lease)
        <4>1. /\ row.status = Row(w).status /\ row.version = Row(w).version + 1
              /\ row.attempt = Row(w).attempt /\ row.worker = Row(w).worker
              /\ row.progress = Row(w).progress
          BY <3>4, RefreshedRow
        <4>2. row.progress >= Row(w).progress
          BY <3>5, <4>1
        <4> HIDE DEF row
        <4> QED BY <3>2, <3>3, <4>1, <4>2 DEF Renews, Row, row
      <3> QED BY <3>4, <3>6, RefreshedRow DEF StoreStep
    <2>2. CASE ~OwnerCasMatches(Row(w), beatRead[w].row, w, beatRead[w].now)
      BY <1>5, <2>2 DEF FinishBeat, StoreStep
    <2> QED BY <2>1, <2>2
  <1>6. ASSUME NEW r \in batch, RecoverOne(r) PROVE StoreStep
    <2>1. CASE CasMatches(rows[r.job], r.row) /\ rows[r.job].worker = r.row.worker
      <3>1. r.row = rows[r.job]
        BY <2>1, CasIsCurrent DEF ReadsAreOldOrCurrent
      <3>2. rows[r.job].status = "running"
        BY <3>1 DEF PendingWrites
      <3>3. /\ rows' = [rows EXCEPT ![r.job] = Recovered(rows[r.job])]
            /\ attempt' = attempt
        BY <1>6, <2>1, <3>1 DEF RecoverOne
      <3>4. r.job \in Jobs /\ rows[r.job] \in Rows
        BY <3>1, ValueTypes
      <3>6. ~(Second(rows[r.job].lease) > Second(clock))
        BY <3>1, <3>4, SecondTypes, ValueTypes DEF PendingWrites
      <3>5. Ends(r.job, Recovered(rows[r.job]))
        BY <3>2, <3>3, <3>4, <3>6, RecoveredRow DEF Ends, ReleaseStatuses
      <3> QED BY <3>4, <3>5, RecoveredRow DEF StoreStep
    <2>2. CASE ~(CasMatches(rows[r.job], r.row) /\ rows[r.job].worker = r.row.worker)
      BY <1>6, <2>2 DEF RecoverOne, StoreStep
    <2> QED BY <2>1, <2>2
  <1>7. ASSUME NEW w \in Workers,
               BeginClaim(w) \/ BeginUpdate(w) \/ BeginComplete(w) \/ BeginRelease(w)
               \/ AssertClaim(w) \/ Upload(w) \/ Publish(w) \/ Environment(w) \/ BeginBeat(w)
        PROVE  StoreStep
    BY <1>7 DEF BeginClaim, BeginUpdate, BeginComplete, BeginRelease, BeginClaimedCall,
                AssertClaim, Upload, Publish, Environment, RunnerFails, Crash, BeatFails,
                BeginBeat, StoreStep
  <1>8. ASSUME RecoverSelect \/ ControllerCrash \/ Tick \/ UNCHANGED vars PROVE StoreStep
    BY <1>8 DEF RecoverSelect, ControllerCrash, Tick, vars, StoreStep
  <1> QED
    BY <1>1, <1>2, <1>3, <1>4, <1>5, <1>6, <1>7, <1>8
       DEF Next, Main, Heartbeat, Controller

-----------------------------------------------------------------------------
(* What a step does to the store calls in progress.                          *)

\* A main thread's call goes on, ends, or begins from the row as it is stored.
CallStep(w) ==
    \/ pc'[w] = pc[w] /\ read'[w] = read[w]
    \/ /\ read'[w] = NoRead
       /\ pc'[w] \notin {"delivered", "claiming", "updating", "closing", "releasing"}
    \/ /\ rows' = rows
       /\ read'[w].row = Row(w)
       /\ \/ pc[w] = "delivered" /\ pc'[w] = "claiming" /\ Claimable(Row(w))
          \/ /\ pc[w] \notin {"delivered", "claiming"}
             /\ pc'[w] \in {"updating", "closing", "releasing"}
             /\ Row(w).status = "running"

\* So does a heartbeat's.
BeatStep(w) ==
    \/ beat'[w] = beat[w] /\ beatRead'[w] = beatRead[w]
    \/ beatRead'[w] \in {NoRead, beatRead[w]} /\ beat'[w] # "writing"
    \/ /\ rows' = rows
       /\ beatRead'[w].row = Row(w)
       /\ Row(w).status = "running"

\* The controller's batch shrinks, or is selected from the stored rows.
BatchStep ==
    \A r \in batch' :
        \/ r \in batch
        \/ /\ rows' = rows
           /\ r.job \in Jobs
           /\ r.row = rows[r.job]
           /\ r.row.status = "running"
           /\ Second(r.row.lease) <= Second(clock)

\* Ending a call, or reading the row, is a step of that thread only.
LEMMA MainCall ==
    ASSUME TypeOK, NEW v \in Workers, NEW p, NEW lease, NEW n
    PROVE  /\ GoTo(v, p) =>
                 /\ pc'[v] = p /\ read'[v] = NoRead
                 /\ \A w \in Workers \ {v} : pc'[w] = pc[w] /\ read'[w] = read[w]
           /\ ReadRow(v, p, lease, n) =>
                 /\ pc'[v] = p /\ read'[v].row = Row(v)
                 /\ \A w \in Workers \ {v} : pc'[w] = pc[w] /\ read'[w] = read[w]
  BY DEF GoTo, ReadRow, TypeOK

\* The calls on a claimed job.
LEMMA ClaimedCallSteps ==
    ASSUME TypeOK, NEW v \in Workers,
           NEW from \in Phases \ {"delivered", "claiming"},
           NEW to \in {"updating", "closing", "releasing"},
           NEW next \in {"working", "done"}, NEW payloads
    PROVE  BeginClaimedCall(v, from, to) \/ FinishClaimedCall(v, to, payloads, next)
               => \A w \in Workers : CallStep(w)
  <1>1. ASSUME BeginClaimedCall(v, from, to) PROVE \A w \in Workers : CallStep(w)
    <2>1. CASE HasLiveClaim(Row(v), v, clock)
      BY <1>1, <2>1, MainCall DEF BeginClaimedCall, HasLiveClaim, CallStep
    <2>2. CASE ~HasLiveClaim(Row(v), v, clock)
      BY <1>1, <2>2, MainCall DEF BeginClaimedCall, CallStep
    <2> QED BY <2>1, <2>2
  <1>2. ASSUME FinishClaimedCall(v, to, payloads, next) PROVE \A w \in Workers : CallStep(w)
    <2>1. CASE OwnerCasMatches(Row(v), read[v].row, v, read[v].now)
      BY <1>2, <2>1, MainCall DEF FinishClaimedCall, CallStep
    <2>2. CASE ~OwnerCasMatches(Row(v), read[v].row, v, read[v].now)
      <3>1. CASE tries[v] < CasRetries /\ HasLiveClaim(Row(v), v, clock)
        BY <1>2, <2>2, <3>1, MainCall DEF FinishClaimedCall, HasLiveClaim, CallStep
      <3>2. CASE ~(tries[v] < CasRetries /\ HasLiveClaim(Row(v), v, clock))
        BY <1>2, <2>2, <3>2, MainCall DEF FinishClaimedCall, CallStep
      <3> QED BY <3>1, <3>2
    <2> QED BY <2>1, <2>2
  <1> QED BY <1>1, <1>2

\* Every step of the system is such a step of every main thread.
LEMMA CallSteps == TypeOK /\ [Next]_vars => \A w \in Workers : CallStep(w)
  <1> SUFFICES ASSUME TypeOK, [Next]_vars PROVE \A w \in Workers : CallStep(w)
    OBVIOUS
  <1>1. {"working", "completing", "failing"} \subseteq Phases \ {"delivered", "claiming"}
    BY DEF Phases, Active, Computing
  <1>2. ASSUME NEW v \in Workers, BeginClaim(v) PROVE \A w \in Workers : CallStep(w)
    <2> SUFFICES ASSUME NEW w \in Workers PROVE CallStep(w)
      OBVIOUS
    <2>1. CASE w # v
      BY <1>2, <2>1, MainCall DEF BeginClaim, CallStep
    <2>2. CASE w = v /\ Claimable(Row(v))
      <3>1. ReadRow(v, "claiming", LeaseEnd, 1) /\ rows' = rows /\ pc[v] = "delivered"
        BY <1>2, <2>2 DEF BeginClaim
      <3> QED BY <2>2, <3>1, MainCall DEF CallStep
    <2>3. CASE w = v /\ ~Claimable(Row(v))
      <3>1. GoTo(v, "done")
        BY <1>2, <2>3 DEF BeginClaim
      <3> QED BY <2>3, <3>1, MainCall DEF CallStep
    <2> QED BY <2>1, <2>2, <2>3
  <1>3. ASSUME NEW v \in Workers, FinishClaim(v) PROVE \A w \in Workers : CallStep(w)
    <2> SUFFICES ASSUME NEW w \in Workers PROVE CallStep(w)
      OBVIOUS
    <2>1. PICK p \in {"working", "done"} : GoTo(v, p)
      BY <1>3 DEF FinishClaim
    <2> QED BY <2>1, MainCall DEF CallStep
  <1>4. ASSUME NEW v \in Workers,
               BeginUpdate(v) \/ FinishUpdate(v) \/ BeginComplete(v) \/ FinishComplete(v)
               \/ BeginRelease(v) \/ FinishRelease(v)
        PROVE  \A w \in Workers : CallStep(w)
    BY <1>1, <1>4, ClaimedCallSteps
       DEF BeginUpdate, FinishUpdate, BeginComplete, FinishComplete, BeginRelease, FinishRelease
  <1>5. ASSUME NEW v \in Workers, AssertClaim(v) PROVE \A w \in Workers : CallStep(w)
    <2>1. PICK p \in {"uploading", "publishing", "completing", "failing", "done"} : GoTo(v, p)
      BY <1>5 DEF AssertClaim, Guarded
    <2> QED BY <2>1, MainCall DEF CallStep
  <1>6. ASSUME NEW v \in Workers, Upload(v) \/ Publish(v) \/ RunnerFails(v) \/ Crash(v)
        PROVE  \A w \in Workers : CallStep(w)
    <2>1. PICK p \in {"uploaded", "published", "failing", "done", "crashed"} : GoTo(v, p)
      BY <1>6 DEF Upload, Publish, RunnerFails, Crash
    <2> QED BY <2>1, MainCall DEF CallStep
  <1>7. ASSUME UNCHANGED mainVars PROVE \A w \in Workers : CallStep(w)
    BY <1>7 DEF mainVars, CallStep
  <1>8. ASSUME NEW v \in Workers, BeatFails(v) \/ BeginBeat(v) \/ FinishBeat(v)
        PROVE  UNCHANGED mainVars
    BY <1>8 DEF BeatFails, BeginBeat, FinishBeat
  <1>9. ASSUME Controller \/ ControllerCrash \/ Tick \/ UNCHANGED vars
        PROVE  UNCHANGED mainVars
    BY <1>9 DEF Controller, RecoverSelect, RecoverOne, ControllerCrash, Tick, vars
  <1> QED
    BY <1>2, <1>3, <1>4, <1>5, <1>6, <1>7, <1>8, <1>9 DEF Next, Main, Environment, Heartbeat

\* Every step of the system is such a step of every heartbeat thread.
LEMMA BeatSteps == TypeOK /\ [Next]_vars => \A w \in Workers : BeatStep(w)
  <1> SUFFICES ASSUME TypeOK, [Next]_vars PROVE \A w \in Workers : BeatStep(w)
    OBVIOUS
  <1>1. ASSUME NEW v \in Workers, NEW state \in {"off", "idle"}, BeatGoTo(v, state)
        PROVE  \A w \in Workers : BeatStep(w)
    BY <1>1 DEF BeatGoTo, BeatStep, TypeOK
  <1>2. ASSUME NEW v \in Workers, NEW lease, NEW n, BeatRead(v, lease, n), rows' = rows
        PROVE  \A w \in Workers : BeatStep(w)
    <2>1. CASE lease > clock /\ HasLiveClaim(Row(v), v, clock)
      BY <1>2, <2>1 DEF BeatRead, HasLiveClaim, BeatStep, TypeOK
    <2>2. CASE ~(lease > clock /\ HasLiveClaim(Row(v), v, clock))
      BY <1>1, <1>2, <2>2 DEF BeatRead
    <2> QED BY <2>1, <2>2
  <1>3. ASSUME NEW v \in Workers, FinishClaim(v) PROVE \A w \in Workers : BeatStep(w)
    <2>1. beatRead' = beatRead /\ (beat' = beat \/ beat' = [beat EXCEPT ![v] = "idle"])
      BY <1>3 DEF FinishClaim
    <2> QED BY <2>1 DEF BeatStep, TypeOK
  <1>4. ASSUME NEW v \in Workers, Crash(v) PROVE \A w \in Workers : BeatStep(w)
    BY <1>1, <1>4 DEF Crash, BeatGoTo
  <1>5. ASSUME NEW v \in Workers, BeatFails(v) PROVE \A w \in Workers : BeatStep(w)
    BY <1>1, <1>5 DEF BeatFails
  <1>6. ASSUME NEW v \in Workers, BeginBeat(v) PROVE \A w \in Workers : BeatStep(w)
    BY <1>2, <1>6 DEF BeginBeat
  <1>7. ASSUME NEW v \in Workers, FinishBeat(v) PROVE \A w \in Workers : BeatStep(w)
    BY <1>1, <1>2, <1>7 DEF FinishBeat
  <1>8. ASSUME UNCHANGED beatVars PROVE \A w \in Workers : BeatStep(w)
    BY <1>8 DEF beatVars, BeatStep
  <1>9. ASSUME NEW v \in Workers,
               BeginClaim(v) \/ BeginUpdate(v) \/ FinishUpdate(v) \/ AssertClaim(v)
               \/ Upload(v) \/ Publish(v) \/ BeginComplete(v) \/ FinishComplete(v)
               \/ BeginRelease(v) \/ FinishRelease(v) \/ RunnerFails(v)
        PROVE  UNCHANGED beatVars
    BY <1>9 DEF BeginClaim, BeginUpdate, FinishUpdate, AssertClaim, Upload, Publish,
                BeginComplete, FinishComplete, BeginRelease, FinishRelease, RunnerFails,
                BeginClaimedCall, FinishClaimedCall
  <1>10. ASSUME Controller \/ ControllerCrash \/ Tick \/ UNCHANGED vars
         PROVE  UNCHANGED beatVars
    BY <1>10 DEF Controller, RecoverSelect, RecoverOne, ControllerCrash, Tick, vars
  <1> QED
    BY <1>3, <1>4, <1>5, <1>6, <1>7, <1>8, <1>9, <1>10 DEF Next, Main, Environment, Heartbeat

\* Every step of the system is such a step of the controller.
LEMMA BatchSteps == TypeOK /\ [Next]_vars => BatchStep
  <1> SUFFICES ASSUME TypeOK, [Next]_vars PROVE BatchStep
    OBVIOUS
  <1>1. ASSUME RecoverSelect PROVE BatchStep
    <2>1. rows' = rows /\ batch' \subseteq ExpiredRows
      BY <1>1 DEF RecoverSelect
    <2>2. \A j \in Jobs : Expired(rows[j], clock) => Second(rows[j].lease) <= Second(clock)
      BY SecondTypes, ValueTypes DEF Expired, IsoLE, TypeOK
    <2> QED BY <2>1, <2>2 DEF ExpiredRows, Expired, BatchStep
  <1>2. ASSUME NEW r \in batch, RecoverOne(r) PROVE BatchStep
    BY <1>2 DEF RecoverOne, BatchStep
  <1>3. ASSUME ControllerCrash PROVE BatchStep
    BY <1>3 DEF ControllerCrash, BatchStep
  <1>4. ASSUME UNCHANGED batch PROVE BatchStep
    BY <1>4 DEF BatchStep
  <1>5. ASSUME NEW w \in Workers, Main(w) \/ Environment(w) \/ Heartbeat(w)
        PROVE  UNCHANGED batch
    BY <1>5 DEF Main, BeginClaim, FinishClaim, BeginUpdate, FinishUpdate, AssertClaim, Upload,
                Publish, BeginComplete, FinishComplete, BeginRelease, FinishRelease,
                BeginClaimedCall, FinishClaimedCall, Environment, RunnerFails, Crash, BeatFails,
                Heartbeat, BeginBeat, FinishBeat, controllerVars
  <1>6. ASSUME Tick \/ UNCHANGED vars PROVE UNCHANGED batch
    BY <1>6 DEF Tick, vars, controllerVars
  <1> QED BY <1>1, <1>2, <1>3, <1>4, <1>5, <1>6 DEF Next, Controller

-----------------------------------------------------------------------------
(* What a step does to the results, and when a main thread goes on to        *)
(* publish and complete.                                                     *)

\* Only the owner of a running row publishes, in one transaction.
OutputStep ==
    \/ domain' = domain /\ blobs \subseteq blobs'
    \/ \E w \in Workers :
           /\ pc[w] = "publishing"
           /\ Row(w).status = "running"
           /\ Row(w).worker = w
           /\ domain' = [domain EXCEPT ![JobOf[w]] = w]
           /\ UNCHANGED <<rows, attempt, blobs>>

\* The order of upload, publication and completion.
PhaseStep(w) ==
    \/ pc'[w] = pc[w]
    \/ pc'[w] \notin {"uploaded", "publishing", "published", "completing", "closing"}
    \/ pc'[w] = "uploaded" /\ w \in blobs'
    \/ pc[w] = "uploaded" /\ pc'[w] = "publishing"
    \/ pc'[w] = "published" /\ domain'[JobOf[w]] = w
    \/ pc[w] = "published" /\ pc'[w] = "completing"
    \/ pc[w] = "completing" /\ pc'[w] = "closing"

\* Every step of the system is such a step.
LEMMA OutputSteps == TypeOK /\ [Next]_vars => OutputStep /\ \A w \in Workers : PhaseStep(w)
  <1> SUFFICES ASSUME TypeOK, [Next]_vars
               PROVE  OutputStep /\ \A w \in Workers : PhaseStep(w)
    OBVIOUS
  <1> USE DEF outputVars, mainVars
  <1>1. ASSUME NEW v \in Workers, Upload(v)
        PROVE  OutputStep /\ \A w \in Workers : PhaseStep(w)
    <2>1. /\ domain' = domain /\ blobs' = blobs \cup {v}
          /\ pc'[v] = "uploaded" /\ \A w \in Workers \ {v} : pc'[w] = pc[w]
      BY <1>1, MainCall DEF Upload
    <2> QED BY <2>1 DEF OutputStep, PhaseStep
  <1>2. ASSUME NEW v \in Workers, Publish(v)
        PROVE  OutputStep /\ \A w \in Workers : PhaseStep(w)
    <2>1. CASE HasLiveClaim(Row(v), v, clock)
      <3>1. /\ pc[v] = "publishing" /\ pc'[v] = "published"
            /\ \A w \in Workers \ {v} : pc'[w] = pc[w]
            /\ domain' = [domain EXCEPT ![JobOf[v]] = v]
            /\ UNCHANGED <<rows, attempt, blobs>>
        BY <1>2, <2>1, MainCall DEF Publish
      <3>2. domain'[JobOf[v]] = v
        BY <3>1, ValueTypes DEF TypeOK
      <3> QED BY <2>1, <3>1, <3>2 DEF HasLiveClaim, OutputStep, PhaseStep
    <2>2. CASE ~HasLiveClaim(Row(v), v, clock)
      BY <1>2, <2>2, MainCall DEF Publish, OutputStep, PhaseStep
    <2> QED BY <2>1, <2>2
  <1>3. ASSUME NEW v \in Workers, AssertClaim(v)
        PROVE  OutputStep /\ \A w \in Workers : PhaseStep(w)
    <2>1. UNCHANGED outputVars
      BY <1>3 DEF AssertClaim
    <2>2. PICK p : GoTo(v, p) /\ (p \in {"done", "failing"} \/ p = Guarded[pc[v]])
      BY <1>3 DEF AssertClaim
    <2>3. pc[v] \in DOMAIN Guarded
      BY <1>3 DEF AssertClaim
    <2>4. pc'[v] = p /\ \A w \in Workers \ {v} : pc'[w] = pc[w]
      BY <2>2, MainCall
    <2> QED BY <2>1, <2>2, <2>3, <2>4 DEF Guarded, OutputStep, PhaseStep
  <1>4. ASSUME NEW v \in Workers, NEW p, NEW lease, NEW n,
               GoTo(v, p) \/ ReadRow(v, p, lease, n), UNCHANGED outputVars,
               \/ p = pc[v]
               \/ p \notin {"uploaded", "publishing", "published", "completing", "closing"}
               \/ pc[v] = "completing" /\ p = "closing"
        PROVE  OutputStep /\ \A w \in Workers : PhaseStep(w)
    <2>1. pc'[v] = p /\ \A w \in Workers \ {v} : pc'[w] = pc[w]
      BY <1>4, MainCall
    <2> QED BY <1>4, <2>1 DEF OutputStep, PhaseStep
  <1>5. ASSUME NEW v \in Workers,
               BeginClaim(v) \/ FinishClaim(v) \/ RunnerFails(v) \/ Crash(v)
        PROVE  OutputStep /\ \A w \in Workers : PhaseStep(w)
    <2>1. \E p \in {"claiming", "done", "working", "failing", "crashed"} : \E lease, n :
              GoTo(v, p) \/ ReadRow(v, p, lease, n)
      BY <1>5 DEF BeginClaim, FinishClaim, RunnerFails, Crash
    <2>2. UNCHANGED outputVars
      BY <1>5 DEF BeginClaim, FinishClaim, RunnerFails, Crash
    <2> QED BY <1>4, <2>1, <2>2
  <1>6. ASSUME NEW v \in Workers, NEW from, NEW to,
               BeginClaimedCall(v, from, to),
               to \in {"updating", "releasing"} \/ (from = "completing" /\ to = "closing")
        PROVE  OutputStep /\ \A w \in Workers : PhaseStep(w)
    <2>1. CASE HasLiveClaim(Row(v), v, clock)
      BY <1>4, <1>6, <2>1 DEF BeginClaimedCall
    <2>2. CASE ~HasLiveClaim(Row(v), v, clock)
      BY <1>4, <1>6, <2>2 DEF BeginClaimedCall
    <2> QED BY <2>1, <2>2
  <1>7. ASSUME NEW v \in Workers, NEW at, NEW next \in {"working", "done"}, NEW payloads,
               FinishClaimedCall(v, at, payloads, next)
        PROVE  OutputStep /\ \A w \in Workers : PhaseStep(w)
    <2>1. \/ GoTo(v, next) \/ GoTo(v, "done")
          \/ pc[v] = at /\ ReadRow(v, at, 0, tries[v] + 1)
      BY <1>7 DEF FinishClaimedCall
    <2>2. UNCHANGED outputVars
      BY <1>7 DEF FinishClaimedCall
    <2> QED BY <1>4, <2>1, <2>2
  <1>8. ASSUME NEW v \in Workers,
               BeginUpdate(v) \/ FinishUpdate(v) \/ BeginComplete(v) \/ FinishComplete(v)
               \/ BeginRelease(v) \/ FinishRelease(v)
        PROVE  OutputStep /\ \A w \in Workers : PhaseStep(w)
    <2>1. CASE BeginUpdate(v)
      BY <1>6, <2>1 DEF BeginUpdate
    <2>5. CASE BeginComplete(v)
      BY <1>6, <2>5 DEF BeginComplete
    <2>6. CASE BeginRelease(v)
      BY <1>6, <2>6 DEF BeginRelease
    <2>2. CASE FinishUpdate(v)
      BY <1>7, <2>2 DEF FinishUpdate
    <2>3. CASE FinishComplete(v)
      BY <1>7, <2>3 DEF FinishComplete
    <2>4. CASE FinishRelease(v)
      BY <1>7, <2>4 DEF FinishRelease
    <2> QED BY <1>8, <2>1, <2>2, <2>3, <2>4, <2>5, <2>6
  <1>9. ASSUME UNCHANGED <<mainVars, outputVars>>
        PROVE  OutputStep /\ \A w \in Workers : PhaseStep(w)
    BY <1>9 DEF OutputStep, PhaseStep
  <1>10. ASSUME NEW v \in Workers, BeatFails(v) \/ Heartbeat(v)
         PROVE  UNCHANGED <<mainVars, outputVars>>
    BY <1>10 DEF BeatFails, Heartbeat, BeginBeat, FinishBeat
  <1>11. ASSUME Controller \/ ControllerCrash \/ Tick \/ UNCHANGED vars
         PROVE  UNCHANGED <<mainVars, outputVars>>
    BY <1>11 DEF Controller, RecoverSelect, RecoverOne, ControllerCrash, Tick, vars
  <1> QED
    BY <1>1, <1>2, <1>3, <1>5, <1>8, <1>9, <1>10, <1>11 DEF Next, Main, Environment

-----------------------------------------------------------------------------
(* The inductive invariant, part by part.                                    *)

\* ClaimedRow for the rows of the state.
LEMMA ClaimedStored ==
    ASSUME TypeOK, NEW j \in Jobs, NEW w \in Workers
    PROVE  /\ Claimed(rows[j], w, read[w].lease).version = rows[j].version + 1
           /\ Claimed(rows[j], w, read[w].lease).attempt = rows[j].attempt + 1
           /\ Claimed(rows[j], w, read[w].lease).worker = w
           /\ Claimed(rows[j], w, read[w].lease).status = "running"
           /\ Claimed(rows[j], w, read[w].lease).progress = rows[j].progress
  <1>1. rows[j] \in Rows /\ read[w].lease \in Nat
    BY ValueTypes DEF TypeOK
  <1> QED BY <1>1, ClaimedRow

\* A row that was read stays old or current: versions only grow.
LEMMA ReadsStep ==
    ASSUME TypeOK, ReadsAreOldOrCurrent, PendingWrites, [Next]_vars
    PROVE  ReadsAreOldOrCurrent'
  <1>1. ASSUME NEW j \in Jobs, NEW seen \in Rows, OldOrCurrent(seen, rows[j])
        PROVE  OldOrCurrent(seen, rows'[j])
    <2>1. rows'[j] = rows[j] \/ rows'[j].version = rows[j].version + 1
      <3>1. CASE \E k \in Jobs, w \in Workers : Claims(k, w)
        <4>1. PICK k \in Jobs, w \in Workers : Claims(k, w)
          BY <3>1
        <4>2. Claimed(rows[k], w, read[w].lease).version = rows[k].version + 1
          BY ClaimedStored
        <4> QED BY <4>1, <4>2 DEF Claims, TypeOK
      <3>2. CASE \E k \in Jobs, row \in Rows : Renews(k, row) \/ Ends(k, row)
        BY <3>2 DEF Renews, Ends, TypeOK
      <3> QED BY <3>1, <3>2, StoreSteps DEF StoreStep
    <2>2. seen.version \in Nat /\ rows[j].version \in Nat
      BY DEF TypeOK, Rows
    <2> QED BY <1>1, <2>1, <2>2 DEF OldOrCurrent
  <1>2. \A w \in Workers : JobOf[w] \in Jobs /\ Row(w)' = rows'[JobOf[w]]
    BY ValueTypes DEF Row
  <1>3. \A w \in Workers : OldOrCurrent(NewRow, Row(w)) /\ OldOrCurrent(NewRow, rows'[JobOf[w]])
    BY <1>1, <1>2, ValueTypes DEF ReadsAreOldOrCurrent, Row
  <1>4. \A w \in Workers : OldOrCurrent(Row(w), Row(w))
    BY ValueTypes DEF OldOrCurrent, Rows
  <1>5. ASSUME NEW w \in Workers PROVE OldOrCurrent(read'[w].row, rows'[JobOf[w]])
    <2>1. CASE read'[w] = read[w]
      BY <1>1, <1>2, <2>1, ValueTypes DEF ReadsAreOldOrCurrent, Row
    <2>2. CASE read'[w] = NoRead
      BY <1>3, <2>2 DEF NoRead
    <2>3. CASE rows' = rows /\ read'[w].row = Row(w)
      BY <1>4, <2>3 DEF Row
    <2> QED BY <2>1, <2>2, <2>3, CallSteps DEF CallStep
  <1>6. ASSUME NEW w \in Workers PROVE OldOrCurrent(beatRead'[w].row, rows'[JobOf[w]])
    <2>1. CASE beatRead'[w] = beatRead[w]
      BY <1>1, <1>2, <2>1, ValueTypes DEF ReadsAreOldOrCurrent, Row
    <2>2. CASE beatRead'[w] = NoRead
      BY <1>3, <2>2 DEF NoRead
    <2>3. CASE rows' = rows /\ beatRead'[w].row = Row(w)
      BY <1>4, <2>3 DEF Row
    <2> QED BY <2>1, <2>2, <2>3, BeatSteps DEF BeatStep
  <1>7. ASSUME NEW r \in batch' PROVE OldOrCurrent(r.row, rows'[r.job])
    <2>1. CASE r \in batch
      BY <1>1, <2>1, ValueTypes DEF ReadsAreOldOrCurrent
    <2>2. CASE rows' = rows /\ r.job \in Jobs /\ r.row = rows[r.job]
      <3>1. rows[r.job].version \in Nat
        BY <2>2 DEF TypeOK, Rows
      <3> QED BY <2>2, <3>1 DEF OldOrCurrent
    <2> QED BY <2>1, <2>2, BatchSteps DEF BatchStep
  <1>8. \A j \in Jobs : OldOrCurrent(NewRow, rows'[j])
    BY <1>1, ValueTypes DEF ReadsAreOldOrCurrent
  <1> QED BY <1>2, <1>5, <1>6, <1>7, <1>8 DEF ReadsAreOldOrCurrent, OldOrCurrent

\* A call in progress has read a row that its method lets it write.
LEMMA PendingStep == TypeOK /\ PendingWrites /\ [Next]_vars => PendingWrites'
  <1> SUFFICES ASSUME TypeOK, PendingWrites, [Next]_vars PROVE PendingWrites'
    OBVIOUS
  <1>1. ASSUME NEW w \in Workers
        PROVE  /\ pc'[w] = "claiming" => Claimable(read'[w].row)
               /\ pc'[w] \in {"updating", "closing", "releasing"}
                      => read'[w].row.status = "running"
    BY CallSteps DEF CallStep, PendingWrites
  <1>2. ASSUME NEW w \in Workers, beat'[w] = "writing"
        PROVE  beatRead'[w].row.status = "running"
    BY <1>2, BeatSteps DEF BeatStep, PendingWrites
  <1>3. ASSUME NEW r \in batch'
        PROVE  r.row.status = "running" /\ Second(r.row.lease) <= Second(clock')
    <2>1. r.row \in Rows
      BY BatchSteps, ValueTypes DEF BatchStep, TypeOK
    <2>2. r.row.status = "running" /\ Second(r.row.lease) <= Second(clock)
      BY BatchSteps DEF BatchStep, PendingWrites
    <2>3. Second(clock) <= Second(clock')
      BY ClockStep, SecondTypes, ValueTypes
    <2>4. Second(r.row.lease) \in Int /\ Second(clock) \in Int /\ Second(clock') \in Int
      BY <2>1, ClockStep, SecondTypes, ValueTypes
    <2> QED BY <2>2, <2>3, <2>4
  <1> QED BY <1>1, <1>2, <1>3 DEF PendingWrites, Claimable

\* An execution has no attempt before its claim succeeds.
LEMMA UnclaimedStep ==
    ASSUME TypeOK, ReadsAreOldOrCurrent, PendingWrites, Unclaimed, [Next]_vars
    PROVE  Unclaimed'
  <1> SUFFICES ASSUME NEW w \in Workers, pc'[w] \in {"delivered", "claiming"}
               PROVE  attempt'[w] = 0
    BY DEF Unclaimed
  <1>1. pc[w] \in {"delivered", "claiming"}
    BY CallSteps DEF CallStep
  <1>2. attempt[w] = 0
    BY <1>1 DEF Unclaimed
  <1>3. CASE attempt' = attempt
    BY <1>2, <1>3
  <1>4. CASE \E j \in Jobs, v \in Workers : Claims(j, v)
    <2>1. PICK j \in Jobs, v \in Workers : Claims(j, v)
      BY <1>4
    <2>2. v # w
      BY <2>1 DEF Claims
    <2> QED BY <1>2, <2>1, <2>2 DEF Claims, TypeOK
  <1> QED BY <1>3, <1>4, StoreSteps DEF StoreStep, Renews, Ends

\* claim_job's conditional write gives each attempt number to one execution.
LEMMA ExclusiveStep ==
    ASSUME TypeOK, StoreStep, Unclaimed, ExclusiveAttempts
    PROVE  ExclusiveAttempts'
  <1> USE DEF Row
  <1>0. \A w \in Workers : JobOf[w] \in Jobs
    BY ValueTypes
  <1>1. CASE \A j \in Jobs : rows'[j].attempt = rows[j].attempt /\ attempt' = attempt
    BY <1>0, <1>1 DEF ExclusiveAttempts
  <1>2. CASE \E j \in Jobs, w \in Workers : Claims(j, w)
    <2>1. PICK j \in Jobs, w \in Workers : Claims(j, w)
      BY <1>2
    <2>2. /\ rows'[j].attempt = rows[j].attempt + 1
          /\ \A k \in Jobs \ {j} : rows'[k] = rows[k]
      <3>1. Claimed(rows[j], w, read[w].lease).attempt = rows[j].attempt + 1
        BY ClaimedStored
      <3> QED BY <2>1, <3>1 DEF Claims, TypeOK
    <2>3. /\ attempt'[w] = rows[j].attempt + 1
          /\ \A v \in Workers \ {w} : attempt'[v] = attempt[v]
      BY <2>1 DEF Claims, TypeOK
    <2>4. rows[j].attempt < MaxAttempts /\ JobOf[w] = j
      BY <2>1 DEF Claims, Claimable
    <2>5. \A k \in Jobs : rows[k].attempt \in Nat
      BY DEF TypeOK, Rows
    <2>6. \A v \in Workers : attempt[v] \in Nat
      BY DEF TypeOK
    <2>7. \A k \in Jobs : rows'[k].attempt <= MaxAttempts
      BY <2>2, <2>4, <2>5, MaxAttemptsAssumption DEF ExclusiveAttempts
    <2>8. \A v \in Workers : attempt'[v] <= rows'[JobOf[v]].attempt
      BY <1>0, <2>2, <2>3, <2>4, <2>5, <2>6 DEF ExclusiveAttempts
    <2>9. ASSUME NEW u \in Workers, NEW v \in Workers, u # v, JobOf[u] = JobOf[v],
                 attempt'[u] = attempt'[v]
          PROVE  attempt'[u] = 0
      <3>1. CASE u # w /\ v # w
        BY <2>3, <2>9, <3>1 DEF ExclusiveAttempts
      <3>2. \A x \in Workers : x # w /\ JobOf[x] = j => attempt'[x] < attempt'[w]
        BY <2>3, <2>5, <2>6 DEF ExclusiveAttempts
      <3>3. \A x \in Workers : attempt'[x] \in Nat
        BY <2>3, <2>5, <2>6
      <3>4. CASE u = w \/ v = w
        BY <2>4, <2>9, <3>2, <3>3, <3>4
      <3> QED BY <3>1, <3>4
    <2> QED BY <2>7, <2>8, <2>9 DEF ExclusiveAttempts
  <1>3. CASE \E j \in Jobs, row \in Rows : Renews(j, row) \/ Ends(j, row)
    BY <1>1, <1>3 DEF Renews, Ends, TypeOK
  <1> QED BY <1>1, <1>2, <1>3 DEF StoreStep

\* The owner of a running row is the execution that claimed its attempt.
LEMMA OwnerStep ==
    ASSUME TypeOK, StoreStep, Unclaimed, OwnerHoldsCurrentAttempt
    PROVE  OwnerHoldsCurrentAttempt'
  <1> SUFFICES ASSUME NEW j \in Jobs, rows'[j].status = "running"
               PROVE  /\ rows'[j].worker \in Workers
                      /\ JobOf[rows'[j].worker] = j
                      /\ attempt'[rows'[j].worker] = rows'[j].attempt
                      /\ rows'[j].attempt > 0
    BY DEF OwnerHoldsCurrentAttempt
  <1>1. CASE rows'[j] = rows[j] /\ attempt' = attempt
    BY <1>1 DEF OwnerHoldsCurrentAttempt
  <1>2. ASSUME NEW k \in Jobs, NEW w \in Workers, Claims(k, w)
        PROVE  /\ rows'[j].worker \in Workers
               /\ JobOf[rows'[j].worker] = j
               /\ attempt'[rows'[j].worker] = rows'[j].attempt
               /\ rows'[j].attempt > 0
    <2>1. CASE j = k
      <3> DEFINE row == Claimed(rows[j], w, read[w].lease)
      <3>1. row.worker = w /\ row.attempt = rows[j].attempt + 1
        BY ClaimedStored
      <3>2. rows'[j] = row /\ attempt'[w] = rows[j].attempt + 1 /\ JobOf[w] = j
        BY <1>2, <2>1 DEF Claims, TypeOK
      <3>3. rows[j].attempt \in Nat
        BY DEF TypeOK, Rows
      <3> HIDE DEF row
      <3> QED BY <3>1, <3>2, <3>3
    <2>2. CASE j # k
      <3>1. rows'[j] = rows[j]
        BY <1>2, <2>2 DEF Claims, TypeOK
      <3>2. rows[j].worker # w
        BY <1>2, <2>2, <3>1 DEF Claims, OwnerHoldsCurrentAttempt
      <3> QED BY <1>2, <3>1, <3>2 DEF Claims, OwnerHoldsCurrentAttempt, TypeOK
    <2> QED BY <2>1, <2>2
  <1>3. ASSUME NEW k \in Jobs, NEW row \in Rows, Renews(k, row)
        PROVE  /\ rows'[j].worker \in Workers
               /\ JobOf[rows'[j].worker] = j
               /\ attempt'[rows'[j].worker] = rows'[j].attempt
               /\ rows'[j].attempt > 0
    BY <1>1, <1>3 DEF Renews, OwnerHoldsCurrentAttempt, TypeOK
  <1>4. ASSUME NEW k \in Jobs, NEW row \in Rows, Ends(k, row)
        PROVE  rows'[j] = rows[j] /\ attempt' = attempt
    BY <1>4 DEF Ends, ReleaseStatuses, TypeOK
  <1> QED BY <1>1, <1>2, <1>3, <1>4 DEF StoreStep

\* An owner past its publication is the published one; no other publishes.
LEMMA PublisherStep ==
    ASSUME TypeOK, ReadsAreOldOrCurrent, PendingWrites, Unclaimed,
           OwnerHoldsCurrentAttempt, PublisherOwnsDomain, [Next]_vars
    PROVE  PublisherOwnsDomain'
  <1>1. StoreStep /\ OutputStep /\ \A w \in Workers : PhaseStep(w)
    BY StoreSteps, OutputSteps
  <1>2. \A w \in Workers : JobOf[w] \in Jobs /\ Row(w) = rows[JobOf[w]] /\ Row(w)' = rows'[JobOf[w]]
    BY ValueTypes DEF Row
  <1>3. ASSUME NEW w \in Workers, pc'[w] \in {"published", "completing", "closing"},
               rows'[JobOf[w]].status = "running", rows'[JobOf[w]].worker = w
        PROVE  domain'[JobOf[w]] = w
    <2>1. CASE pc[w] \in {"published", "completing", "closing"}
      <3>1. rows[JobOf[w]].status = "running" /\ rows[JobOf[w]].worker = w
        <4>1. CASE rows'[JobOf[w]] = rows[JobOf[w]]
          BY <1>3, <4>1
        <4>2. ASSUME NEW k \in Jobs, NEW v \in Workers, Claims(k, v)
              PROVE  rows'[JobOf[w]] = rows[JobOf[w]]
          <5>1. v # w
            BY <2>1, <4>2 DEF Claims
          <5>2. CASE k = JobOf[w]
            <6>1. rows'[k].worker = v
              BY <4>2, ClaimedStored DEF Claims, TypeOK
            <6> QED BY <1>3, <5>1, <5>2, <6>1
          <5>3. CASE k # JobOf[w]
            BY <1>2, <4>2, <5>3 DEF Claims, TypeOK
          <5> QED BY <5>2, <5>3
        <4>3. ASSUME NEW k \in Jobs, NEW row \in Rows, Renews(k, row)
              PROVE  rows[JobOf[w]].status = "running" /\ rows[JobOf[w]].worker = w
          BY <1>2, <1>3, <4>3 DEF Renews, TypeOK
        <4>4. ASSUME NEW k \in Jobs, NEW row \in Rows, Ends(k, row)
              PROVE  rows'[JobOf[w]] = rows[JobOf[w]]
          BY <1>2, <1>3, <4>4 DEF Ends, ReleaseStatuses, TypeOK
        <4> QED BY <1>1, <4>1, <4>2, <4>3, <4>4 DEF StoreStep
      <3>2. domain[JobOf[w]] = w
        BY <1>2, <2>1, <3>1 DEF PublisherOwnsDomain
      <3>3. ASSUME NEW v \in Workers, Row(v).worker = v, JobOf[v] = JobOf[w]
            PROVE  v = w
        BY <1>2, <3>1, <3>3
      <3> QED BY <1>1, <1>2, <3>2, <3>3 DEF OutputStep, TypeOK
    <2>2. CASE pc[w] \notin {"published", "completing", "closing"}
      BY <1>1, <1>3, <2>2 DEF PhaseStep
    <2> QED BY <2>1, <2>2
  <1>4. blobs \subseteq blobs'
    BY <1>1 DEF OutputStep
  <1>5. ASSUME NEW w \in Workers, pc'[w] \in {"uploaded", "publishing"}
        PROVE  w \in blobs'
    BY <1>1, <1>4, <1>5 DEF PhaseStep, PublisherOwnsDomain
  <1>6. ASSUME NEW w \in Workers, attempt[w] > 0
        PROVE  attempt'[w] > 0
    <2>1. CASE attempt' = attempt
      BY <1>6, <2>1
    <2>2. ASSUME NEW k \in Jobs, NEW v \in Workers, Claims(k, v)
          PROVE  attempt'[w] > 0
      <3>1. attempt[v] = 0
        BY <2>2 DEF Claims, Unclaimed
      <3> QED BY <1>6, <2>2, <3>1 DEF Claims, TypeOK
    <2> QED BY <1>1, <2>1, <2>2 DEF StoreStep, Renews, Ends
  <1>7. ASSUME NEW j \in Jobs, domain'[j] # NoWorker
        PROVE  JobOf[domain'[j]] = j /\ attempt'[domain'[j]] > 0
    <2>1. CASE domain'[j] = domain[j]
      <3>1. domain[j] \in Workers
        BY <1>7, <2>1 DEF TypeOK
      <3> QED BY <1>6, <1>7, <2>1, <3>1 DEF PublisherOwnsDomain
    <2>2. CASE domain'[j] # domain[j]
      <3>1. PICK w \in Workers :
               /\ Row(w).status = "running" /\ Row(w).worker = w
               /\ domain' = [domain EXCEPT ![JobOf[w]] = w]
               /\ attempt' = attempt
        BY <1>1, <2>2 DEF OutputStep
      <3>2. JobOf[w] = j /\ domain'[j] = w
        BY <1>2, <2>2, <3>1 DEF TypeOK
      <3>3. rows[j].status = "running" /\ rows[j].worker = w
        BY <1>2, <3>1, <3>2
      <3>4. attempt[w] > 0
        BY <3>3 DEF OwnerHoldsCurrentAttempt
      <3> QED BY <3>1, <3>2, <3>4
    <2> QED BY <2>1, <2>2
  <1> QED BY <1>2, <1>3, <1>5, <1>7 DEF PublisherOwnsDomain

\* A job completes with the results of its attempt, and keeps them.
LEMMA CompletionStep ==
    ASSUME TypeOK, StoreStep, OutputStep, Unclaimed, OwnerHoldsCurrentAttempt,
           PublisherOwnsDomain, CompletedMatchesPublication
    PROVE  CompletedMatchesPublication'
  <1> SUFFICES ASSUME NEW j \in Jobs, rows'[j].status = "completed"
               PROVE  Published(j)' = rows'[j].attempt
    BY DEF CompletedMatchesPublication
  <1>1. \A w \in Workers : JobOf[w] \in Jobs /\ Row(w) = rows[JobOf[w]]
    BY ValueTypes DEF Row
  <1>2. CASE rows'[j] = rows[j]
    <2>1. domain'[j] = domain[j]
      BY <1>1, <1>2 DEF OutputStep, TypeOK
    <2>2. ASSUME domain[j] # NoWorker PROVE attempt'[domain[j]] = attempt[domain[j]]
      <3>1. domain[j] \in Workers /\ attempt[domain[j]] > 0
        BY <2>2 DEF TypeOK, PublisherOwnsDomain
      <3>2. ASSUME NEW k \in Jobs, NEW w \in Workers, Claims(k, w)
            PROVE  attempt'[domain[j]] = attempt[domain[j]]
        <4>1. attempt[w] = 0
          BY <3>2 DEF Claims, Unclaimed
        <4> QED BY <3>1, <3>2, <4>1 DEF Claims, TypeOK
      <3> QED BY <3>2 DEF StoreStep, Renews, Ends
    <2> QED BY <1>2, <2>1, <2>2 DEF CompletedMatchesPublication, Published
  <1>3. ASSUME NEW k \in Jobs, NEW w \in Workers, Claims(k, w)
        PROVE  rows'[j] = rows[j]
    <2>1. rows'[k].status = "running"
      BY <1>3, ClaimedStored DEF Claims, TypeOK
    <2> QED BY <1>3, <2>1 DEF Claims, TypeOK
  <1>4. ASSUME NEW k \in Jobs, NEW row \in Rows, Renews(k, row)
        PROVE  rows'[j] = rows[j]
    BY <1>4 DEF Renews, TypeOK
  <1>5. ASSUME NEW k \in Jobs, NEW row \in Rows, Ends(k, row)
        PROVE  Published(j)' = rows'[j].attempt
    <2>1. CASE k # j
      BY <1>2, <1>5, <2>1 DEF Ends, TypeOK
    <2>2. CASE k = j
      <3>1. rows'[j] = row /\ row.status = "completed"
        BY <1>5, <2>2 DEF Ends, TypeOK
      <3>2. PICK w \in Workers : JobOf[w] = j /\ pc[w] = "closing" /\ rows[j].worker = w
        BY <1>5, <2>2, <3>1 DEF Ends
      <3>3. rows[j].status = "running" /\ row.attempt = rows[j].attempt /\ attempt' = attempt
        BY <1>5, <2>2 DEF Ends
      <3>4. domain[j] = w
        BY <1>1, <3>2, <3>3 DEF PublisherOwnsDomain
      <3>5. domain' = domain
        <4>1. rows' # rows
          BY <3>1, <3>3
        <4> QED BY <4>1 DEF OutputStep
      <3>6. w # NoWorker /\ attempt[w] = rows[j].attempt
        BY <3>2, <3>3, NoWorkerAssumption DEF OwnerHoldsCurrentAttempt
      <3> QED BY <3>1, <3>3, <3>4, <3>5, <3>6 DEF Published
    <2> QED BY <2>1, <2>2
  <1> QED BY <1>2, <1>3, <1>4, <1>5 DEF StoreStep

\* Only an execution whose blob is uploaded publishes.
LEMMA BlobStep ==
    ASSUME TypeOK, OutputStep, PublisherOwnsDomain, PublishedBlobsExist
    PROVE  PublishedBlobsExist'
  <1>1. CASE domain' = domain /\ blobs \subseteq blobs'
    BY <1>1 DEF PublishedBlobsExist
  <1>2. ASSUME NEW w \in Workers, pc[w] = "publishing",
               domain' = [domain EXCEPT ![JobOf[w]] = w], blobs' = blobs
        PROVE  PublishedBlobsExist'
    <2>1. w \in blobs
      BY <1>2 DEF PublisherOwnsDomain
    <2> QED BY <1>2, <2>1 DEF PublishedBlobsExist, TypeOK
  <1> QED BY <1>1, <1>2 DEF OutputStep

-----------------------------------------------------------------------------
(* The theorems.                                                             *)

\* The invariant holds before any delivery.
LEMMA InitInvariant == Init => InductiveInvariant
  <1> SUFFICES ASSUME Init PROVE InductiveInvariant
    OBVIOUS
  <1>1. NewRow \in Rows
    BY FullProgressAssumption DEF NewRow, Rows, Statuses, Progress
  <1>2. NoRead \in Reads
    BY <1>1 DEF NoRead, Reads
  <1>3. 0 \in 0 .. CasRetries /\ 0 \in 0 .. MaxClock /\ 0 \in 0 .. MaxRestarts
    BY ParameterAssumption
  <1>4. TypeOK
    BY <1>1, <1>2, <1>3 DEF Init, TypeOK, Phases
  <1>5. \A w \in Workers : Row(w) = NewRow
    BY JobOfAssumption DEF Init, Row
  <1>6. NewRow.version = 0 /\ NewRow.status = "queued" /\ NewRow.attempt = 0
    BY DEF NewRow
  <1>7. ReadsAreOldOrCurrent /\ PendingWrites /\ Unclaimed
    BY <1>5, <1>6 DEF Init, ReadsAreOldOrCurrent, OldOrCurrent, PendingWrites, Unclaimed, NoRead
  <1>8. ExclusiveAttempts /\ OwnerHoldsCurrentAttempt
    BY <1>5, <1>6, MaxAttemptsAssumption DEF Init, ExclusiveAttempts, OwnerHoldsCurrentAttempt
  <1>9. PublisherOwnsDomain /\ CompletedMatchesPublication /\ PublishedBlobsExist
    BY <1>5, <1>6 DEF Init, PublisherOwnsDomain, CompletedMatchesPublication, PublishedBlobsExist
  <1> QED BY <1>4, <1>7, <1>8, <1>9 DEF InductiveInvariant

\* Every step of the system preserves the invariant.
LEMMA InvariantStep == InductiveInvariant /\ [Next]_vars => InductiveInvariant'
  <1> SUFFICES ASSUME InductiveInvariant, [Next]_vars PROVE InductiveInvariant'
    OBVIOUS
  <1> USE DEF InductiveInvariant
  <1>1. StoreStep /\ OutputStep
    BY StoreSteps, OutputSteps
  <1>2. TypeOK' /\ ReadsAreOldOrCurrent' /\ PendingWrites' /\ Unclaimed'
    BY TypeStep, ReadsStep, PendingStep, UnclaimedStep
  <1>3. ExclusiveAttempts' /\ OwnerHoldsCurrentAttempt'
    BY <1>1, ExclusiveStep, OwnerStep
  <1>4. PublisherOwnsDomain' /\ CompletedMatchesPublication' /\ PublishedBlobsExist'
    BY <1>1, PublisherStep, CompletionStep, BlobStep
  <1> QED BY <1>2, <1>3, <1>4

\* The state of the rows, the executions, the heartbeats and the controller stays
\* in its types in every behaviour.
THEOREM TypeCorrect == Spec => []TypeOK
  <1>1. Init => TypeOK
    BY InitInvariant DEF InductiveInvariant
  <1> QED BY <1>1, TypeStep, PTL DEF Spec

\* The invariant holds in every reachable state.
THEOREM Invariance == Spec => []InductiveInvariant
  BY InitInvariant, InvariantStep, PTL DEF Spec

\* However many executions a job is delivered to, no two run the same attempt and
\* none runs one past MaxAttempts.
THEOREM AttemptsAreExclusive == Spec => []ExclusiveAttempts
  <1>1. InductiveInvariant => ExclusiveAttempts
    BY DEF InductiveInvariant
  <1> QED BY <1>1, Invariance, PTL

\* The worker id that every guarded write checks is that of the execution which
\* claimed the current attempt.
THEOREM OwnershipIsCurrent == Spec => []OwnerHoldsCurrentAttempt
  <1>1. InductiveInvariant => OwnerHoldsCurrentAttempt
    BY DEF InductiveInvariant
  <1> QED BY <1>1, Invariance, PTL

\* A completed job's published rows are those of the attempt that completed it.
THEOREM CompletionIsFenced == Spec => []CompletedMatchesPublication
  <1>1. InductiveInvariant => CompletedMatchesPublication
    BY DEF InductiveInvariant
  <1> QED BY <1>1, Invariance, PTL

\* Published rows never reference a blob that was not uploaded.
THEOREM PublicationFollowsUpload == Spec => []PublishedBlobsExist
  <1>1. InductiveInvariant => PublishedBlobsExist
    BY DEF InductiveInvariant
  <1> QED BY <1>1, Invariance, PTL

\* A terminal row is never written again by any claim, heartbeat, update, release
\* or recovery, however old what the call has read.
THEOREM TerminalRowsAreFinal == Spec => TerminalIsFinal
  <1>1. ASSUME InductiveInvariant, [Next]_vars, NEW j \in Jobs, rows[j].status \in Terminal
        PROVE  rows'[j] = rows[j]
    <2>1. StoreStep
      BY <1>1, StoreSteps DEF InductiveInvariant
    <2>2. rows[j].status \notin {"queued", "running"}
      BY <1>1 DEF Terminal
    <2>3. rows \in [Jobs -> Rows]
      BY <1>1 DEF InductiveInvariant, TypeOK
    <2> QED BY <2>1, <2>2, <2>3 DEF StoreStep, Claims, Claimable, Renews, Ends
  <1>2. InductiveInvariant /\ [Next]_vars =>
            [\A j \in Jobs : rows[j].status \in Terminal => rows'[j] = rows[j]]_vars
    BY <1>1
  <1> QED BY <1>2, Invariance, PTL DEF Spec, TerminalIsFinal

\* No write lowers a stored progress, within an attempt or across attempts.
THEOREM ProgressIsMonotone == Spec => ProgressNeverRegresses
  <1>1. ASSUME InductiveInvariant, [Next]_vars, NEW j \in Jobs
        PROVE  rows'[j].progress >= rows[j].progress
    <2>1. StoreStep /\ TypeOK
      BY <1>1, StoreSteps DEF InductiveInvariant
    <2>2. rows[j].progress \in Int
      BY <2>1, FullProgressAssumption DEF TypeOK, Rows, Progress
    <2>3. ASSUME NEW k \in Jobs, NEW w \in Workers, Claims(k, w)
          PROVE  rows'[j].progress = rows[j].progress
      BY <2>1, <2>3, ClaimedStored DEF Claims, TypeOK
    <2>4. ASSUME NEW k \in Jobs, NEW row \in Rows, Renews(k, row) \/ Ends(k, row)
          PROVE  rows'[j] = rows[j] \/ rows'[j].progress >= rows[j].progress
      BY <2>1, <2>4 DEF Renews, Ends, TypeOK
    <2> QED BY <2>1, <2>2, <2>3, <2>4 DEF StoreStep
  <1>2. InductiveInvariant /\ [Next]_vars =>
            [\A j \in Jobs : rows'[j].progress >= rows[j].progress]_vars
    BY <1>1
  <1> QED BY <1>2, Invariance, PTL DEF Spec, ProgressNeverRegresses

\* A publication replaces only the results of an earlier attempt of its job.
THEOREM PublicationsMoveForward == Spec => NewerAttemptsWin
  <1>1. ASSUME InductiveInvariant, [Next]_vars, NEW j \in Jobs, domain'[j] # domain[j]
        PROVE  Published(j)' > Published(j)
    <2> USE DEF InductiveInvariant
    <2>1. OutputStep /\ TypeOK
      BY <1>1, OutputSteps
    <2>2. PICK w \in Workers :
               /\ Row(w).status = "running" /\ Row(w).worker = w
               /\ domain' = [domain EXCEPT ![JobOf[w]] = w]
               /\ attempt' = attempt
      BY <1>1, <2>1 DEF OutputStep
    <2>3. JobOf[w] = j /\ domain'[j] = w
      BY <1>1, <2>1, <2>2, ValueTypes DEF TypeOK
    <2>4. attempt[w] = rows[j].attempt /\ attempt[w] > 0
      BY <1>1, <2>2, <2>3 DEF OwnerHoldsCurrentAttempt, Row
    <2>5. Published(j)' = attempt[w]
      BY <2>2, <2>3, NoWorkerAssumption DEF Published
    <2>6. CASE domain[j] = NoWorker
      BY <2>4, <2>5, <2>6 DEF Published
    <2>7. CASE domain[j] # NoWorker
      <3> DEFINE v == domain[j]
      <3>1. v \in Workers /\ v # w /\ JobOf[v] = j /\ attempt[v] > 0
        BY <1>1, <2>1, <2>3, <2>7 DEF TypeOK, PublisherOwnsDomain
      <3>2. attempt[v] <= rows[j].attempt /\ attempt[v] # attempt[w]
        BY <1>1, <2>3, <3>1 DEF ExclusiveAttempts, Row
      <3>3. attempt[v] \in Nat /\ attempt[w] \in Nat
        BY <2>1, <3>1 DEF TypeOK
      <3>4. Published(j) = attempt[v]
        BY <2>7 DEF Published
      <3> HIDE DEF v
      <3> QED BY <2>4, <2>5, <3>2, <3>3, <3>4
    <2> QED BY <2>6, <2>7
  <1>2. InductiveInvariant /\ [Next]_vars =>
            [\A j \in Jobs : domain'[j] # domain[j] => Published(j)' > Published(j)]_vars
    BY <1>1
  <1> QED BY <1>2, Invariance, PTL DEF Spec, NewerAttemptsWin

\* The controller takes a job away only when its lease is over, to the second that
\* its text comparison tells apart: every other end of a claim is the owner's.
THEOREM LiveLeasesAreKept == Spec => LiveLeaseIsKept
  <1>1. ASSUME InductiveInvariant, [Next]_vars, NEW j \in Jobs,
               rows[j].status = "running", Second(rows[j].lease) > Second(clock),
               rows'[j].status # "running"
        PROVE  pc[rows[j].worker] \in {"closing", "releasing"}
    <2>1. StoreStep /\ TypeOK
      BY <1>1, StoreSteps DEF InductiveInvariant
    <2>2. ASSUME NEW k \in Jobs, NEW w \in Workers, Claims(k, w)
          PROVE  rows'[j] = rows[j]
      <3>1. k # j
        BY <1>1, <2>2 DEF Claims, Claimable
      <3> QED BY <2>1, <2>2, <3>1 DEF Claims, TypeOK
    <2>3. ASSUME NEW k \in Jobs, NEW row \in Rows, Renews(k, row)
          PROVE  rows'[j].status = "running"
      BY <1>1, <2>1, <2>3 DEF Renews, TypeOK
    <2>4. ASSUME NEW k \in Jobs, NEW row \in Rows, Ends(k, row)
          PROVE  rows'[j] = rows[j] \/ pc[rows[j].worker] \in {"closing", "releasing"}
      BY <1>1, <2>1, <2>4 DEF Ends, TypeOK
    <2> QED BY <1>1, <2>1, <2>2, <2>3, <2>4 DEF StoreStep
  <1>2. InductiveInvariant /\ [Next]_vars =>
            [\A j \in Jobs :
                 /\ rows[j].status = "running"
                 /\ Second(rows[j].lease) > Second(clock)
                 /\ rows'[j].status # "running"
                 => pc[rows[j].worker] \in {"closing", "releasing"}]_vars
    BY <1>1
  <1> QED BY <1>2, Invariance, PTL DEF Spec, LiveLeaseIsKept

-----------------------------------------------------------------------------
(* The refinement of JobLifecycle: every step of the system is, on the rows  *)
(* and the published attempts, one step of the abstract job or none.         *)

\* Only a publication changes the attempt whose results are published.
LEMMA PublishedStep ==
    ASSUME InductiveInvariant, [Next]_vars, NEW j \in Jobs, domain'[j] = domain[j]
    PROVE  Published(j)' = Published(j)
  <1> USE DEF InductiveInvariant
  <1>1. CASE domain[j] = NoWorker
    BY <1>1 DEF Published
  <1>2. CASE domain[j] # NoWorker
    <2>1. domain[j] \in Workers /\ attempt[domain[j]] > 0
      BY <1>2 DEF TypeOK, PublisherOwnsDomain
    <2>2. ASSUME NEW k \in Jobs, NEW w \in Workers, Claims(k, w)
          PROVE  attempt'[domain[j]] = attempt[domain[j]]
      <3>1. attempt[w] = 0
        BY <2>2 DEF Claims, Unclaimed
      <3> QED BY <2>1, <2>2, <3>1 DEF Claims, TypeOK
    <2>3. attempt'[domain[j]] = attempt[domain[j]]
      BY <2>2, StoreSteps DEF StoreStep, Renews, Ends
    <2> QED BY <1>2, <2>3 DEF Published
  <1> QED BY <1>1, <1>2

\* What the abstract steps say of the rows, job by job.
LEMMA AbstractSteps ==
    ASSUME NEW j \in Jobs, TypeOK, rows' \in [Jobs -> Rows],
           \A k \in Jobs \ {j} : rows'[k] = rows[k] /\ Published(k)' = Published(k)
    PROVE  /\ /\ rows[j].status = "queued" /\ rows[j].attempt < MaxAttempts
              /\ rows'[j].status = "running" /\ rows'[j].attempt = rows[j].attempt + 1
              /\ Published(j)' = Published(j)
              => Lifecycle!Start(j)
           /\ /\ rows[j].status = "running" /\ rows'[j] = rows[j]
              /\ Published(j)' = rows[j].attempt
              => Lifecycle!Publish(j)
           /\ /\ rows[j].status = "running" /\ Published(j) = rows[j].attempt
              /\ rows'[j].status = "completed" /\ rows'[j].attempt = rows[j].attempt
              /\ Published(j)' = Published(j)
              => Lifecycle!Complete(j)
           /\ /\ rows[j].status = "running" /\ rows[j].attempt < MaxAttempts
              /\ rows'[j].status = "queued" /\ rows'[j].attempt = rows[j].attempt
              /\ Published(j)' = Published(j)
              => Lifecycle!Requeue(j)
           /\ /\ rows[j].status = "running" /\ rows[j].attempt = MaxAttempts
              /\ rows'[j].status \in {"failed", "interrupted"}
              /\ rows'[j].attempt = rows[j].attempt
              /\ Published(j)' = Published(j)
              => Lifecycle!GiveUp(j)
  BY DEF Lifecycle!Start, Lifecycle!Publish, Lifecycle!Complete, Lifecycle!Requeue,
         Lifecycle!GiveUp

\* A step that changes no status, no attempt and no publication is a stutter.
LEMMA AbstractStutter ==
    ASSUME \A j \in Jobs :
               /\ rows'[j].status = rows[j].status
               /\ rows'[j].attempt = rows[j].attempt
               /\ Published(j)' = Published(j)
    PROVE  UNCHANGED Lifecycle!vars
  BY DEF Lifecycle!vars

\* The jobs table before any delivery is the abstract initial state.
LEMMA RefinementInit == Init => Lifecycle!Init
  <1> SUFFICES ASSUME Init PROVE Lifecycle!Init
    OBVIOUS
  <1>1. \A j \in Jobs : rows[j].status = "queued" /\ rows[j].attempt = 0
    BY DEF Init, NewRow
  <1>2. \A j \in Jobs : Published(j) = 0
    BY DEF Init, Published
  <1> QED BY <1>1, <1>2 DEF Lifecycle!Init

\* Every step of the executions, the heartbeats and the controller is an abstract
\* step: a claim is Start, the publishing transaction Publish, the owner's last
\* release Complete, and a release or recovery Requeue or GiveUp by its attempts.
LEMMA RefinementStep ==
    InductiveInvariant /\ [Next]_vars => [Lifecycle!Next]_(Lifecycle!vars)
  <1> SUFFICES ASSUME InductiveInvariant, [Next]_vars
               PROVE  Lifecycle!Next \/ UNCHANGED Lifecycle!vars
    OBVIOUS
  <1> USE DEF InductiveInvariant
  <1>1. StoreStep /\ OutputStep
    BY StoreSteps, OutputSteps
  <1>2. TypeOK /\ rows' \in [Jobs -> Rows]
    BY TypeStep DEF TypeOK
  <1>3. \A j \in Jobs : rows[j].attempt \in Nat /\ rows[j].version \in Nat
    BY <1>2 DEF TypeOK, Rows
  <1>4. ASSUME NEW j \in Jobs, rows'[j] # rows[j]
        PROVE  \A k \in Jobs : Published(k)' = Published(k)
    <2>1. domain' = domain
      BY <1>1, <1>4 DEF OutputStep
    <2> QED BY <2>1, PublishedStep
  <1>5. CASE rows' = rows /\ domain' = domain
    BY <1>5, AbstractStutter, PublishedStep
  <1>6. CASE rows' = rows /\ domain' # domain
    <2>1. PICK w \in Workers :
               /\ Row(w).status = "running" /\ Row(w).worker = w
               /\ domain' = [domain EXCEPT ![JobOf[w]] = w]
               /\ attempt' = attempt
      BY <1>1, <1>6 DEF OutputStep
    <2> DEFINE j == JobOf[w]
    <2>2. j \in Jobs /\ rows[j].status = "running" /\ rows[j].worker = w
      BY <2>1, ValueTypes DEF Row
    <2>3. domain'[j] = w /\ \A k \in Jobs \ {j} : domain'[k] = domain[k]
      BY <1>2, <2>1, <2>2 DEF TypeOK
    <2>4. attempt[w] = rows[j].attempt
      BY <2>2 DEF OwnerHoldsCurrentAttempt
    <2>5. Published(j)' = rows[j].attempt
      BY <2>1, <2>3, <2>4, NoWorkerAssumption DEF Published
    <2>6. \A k \in Jobs \ {j} : rows'[k] = rows[k] /\ Published(k)' = Published(k)
      BY <1>6, <2>3, PublishedStep
    <2>7. rows'[j] = rows[j]
      BY <1>6
    <2> HIDE DEF j
    <2>8. Lifecycle!Publish(j)
      BY <1>2, <2>2, <2>5, <2>6, <2>7, AbstractSteps
    <2> QED BY <2>2, <2>8 DEF Lifecycle!Next
  <1>7. ASSUME NEW j \in Jobs, NEW w \in Workers, Claims(j, w)
        PROVE  Lifecycle!Next
    <2>1. /\ rows'[j].status = "running" /\ rows'[j].attempt = rows[j].attempt + 1
          /\ \A k \in Jobs \ {j} : rows'[k] = rows[k]
      BY <1>2, <1>7, ClaimedStored DEF Claims, TypeOK
    <2>2. rows[j].status = "queued" /\ rows[j].attempt < MaxAttempts
      BY <1>7 DEF Claims, Claimable
    <2>3. \A k \in Jobs : Published(k)' = Published(k)
      BY <1>4, <2>1, <2>2
    <2>4. Lifecycle!Start(j)
      BY <1>2, <2>1, <2>2, <2>3, AbstractSteps
    <2> QED BY <2>4 DEF Lifecycle!Next
  <1>8. ASSUME NEW j \in Jobs, NEW row \in Rows, Renews(j, row)
        PROVE  UNCHANGED Lifecycle!vars
    <2>1. /\ rows'[j] = row /\ row.status = rows[j].status /\ row.attempt = rows[j].attempt
          /\ row.version = rows[j].version + 1
          /\ \A k \in Jobs \ {j} : rows'[k] = rows[k]
      BY <1>2, <1>8 DEF Renews, TypeOK
    <2>2. \A k \in Jobs : Published(k)' = Published(k)
      BY <1>3, <1>4, <2>1
    <2> QED BY <2>1, <2>2, AbstractStutter
  <1>9. ASSUME NEW j \in Jobs, NEW row \in Rows, Ends(j, row)
        PROVE  Lifecycle!Next
    <2>1. /\ rows'[j] = row /\ rows[j].status = "running"
          /\ row.attempt = rows[j].attempt /\ row.status \in ReleaseStatuses
          /\ \A k \in Jobs \ {j} : rows'[k] = rows[k]
      BY <1>2, <1>9 DEF Ends, TypeOK
    <2>2. \A k \in Jobs : Published(k)' = Published(k)
      BY <1>4, <2>1 DEF ReleaseStatuses
    <2>3. CASE row.status = "queued"
      <3>1. rows[j].attempt < MaxAttempts
        BY <1>9, <2>3 DEF Ends
      <3>2. Lifecycle!Requeue(j)
        BY <1>2, <2>1, <2>2, <2>3, <3>1, AbstractSteps
      <3> QED BY <3>2 DEF Lifecycle!Next
    <2>4. CASE row.status = "completed"
      <3>1. PICK w \in Workers : JobOf[w] = j /\ pc[w] = "closing" /\ rows[j].worker = w
        BY <1>9, <2>4 DEF Ends
      <3>2. domain[j] = w /\ attempt[w] = rows[j].attempt
        BY <2>1, <3>1 DEF PublisherOwnsDomain, OwnerHoldsCurrentAttempt, Row
      <3>3. Published(j) = rows[j].attempt
        BY <3>1, <3>2, NoWorkerAssumption DEF Published
      <3>4. Lifecycle!Complete(j)
        BY <1>2, <2>1, <2>2, <2>4, <3>3, AbstractSteps
      <3> QED BY <3>4 DEF Lifecycle!Next
    <2>5. CASE row.status \in {"failed", "interrupted"}
      <3>1. rows[j].attempt >= MaxAttempts /\ rows[j].attempt <= MaxAttempts
        BY <1>9, <2>5 DEF Ends, ExclusiveAttempts
      <3>2. rows[j].attempt = MaxAttempts
        BY <1>3, <3>1, MaxAttemptsAssumption
      <3>3. Lifecycle!GiveUp(j)
        BY <1>2, <2>1, <2>2, <2>5, <3>2, AbstractSteps
      <3> QED BY <3>3 DEF Lifecycle!Next
    <2> QED BY <2>1, <2>3, <2>4, <2>5 DEF ReleaseStatuses
  <1> QED BY <1>1, <1>5, <1>6, <1>7, <1>8, <1>9 DEF StoreStep

\* The durable job store, with its leases, stale reads and crashes, implements the
\* abstract job: at most MaxAttempts attempts one after the other, publication only
\* by the running one, completion only with its results.
THEOREM LifecycleIsImplemented == Spec => ImplementsLifecycle
  BY RefinementInit, RefinementStep, Invariance, PTL
     DEF Spec, ImplementsLifecycle, Lifecycle!Spec
=============================================================================
