--------------------------- MODULE PaperRunsProofs ---------------------------
(***************************************************************************)
(* Proofs about PaperRuns for any jobs, attempts, dates and strategies.    *)
(***************************************************************************)
EXTENDS PaperRuns, TLAPS

-----------------------------------------------------------------------------
(* The records an execution and a run are made of.                           *)

LEMMA Sizes ==
    /\ NumDates \in Nat /\ NumStrategies \in Nat /\ MaxAttempts \in Nat
    /\ 1 \in Dates /\ NumDates \in Dates /\ Dates \subseteq Nat
    /\ 1 \in Strategies /\ NumStrategies \in Strategies /\ Strategies \subseteq Nat
  BY SizesAssumption DEF Dates, Strategies

\* The values that the actions put together from the state have their types.
LEMMA ValueTypes ==
    ASSUME TypeOK, NEW e \in Executions
    PROVE  /\ work[e] \in Work
           /\ e[1] \in Jobs
           /\ Run(e) \in PaperRuns
           /\ Run(e)[1] = e[1] /\ Run(e)[2] = work[e].date
           /\ runs[Run(e)] \in Rows
           /\ NothingTraded \in [Strategies -> SUBSET PaperRuns]
           /\ \A s \in Strategies : Applied(s) \in SUBSET PaperRuns
  <1>1. work[e] \in Work /\ e[1] \in Jobs
    BY DEF TypeOK, Executions
  <1>2. work[e].date \in Dates
    BY <1>1 DEF Work
  <1>3. Run(e) \in PaperRuns /\ Run(e)[1] = e[1] /\ Run(e)[2] = work[e].date
    BY <1>1, <1>2 DEF Run, PaperRuns
  <1>4. NothingTraded \in [Strategies -> SUBSET PaperRuns]
    BY DEF NothingTraded
  <1>5. \A s \in Strategies : Applied(s) \in SUBSET PaperRuns
    BY DEF Applied, TypeOK
  <1> QED BY <1>1, <1>3, <1>4, <1>5 DEF TypeOK

\* GoTo sets the stage, and the guard of that stage has not passed.
LEMMA GoToMoves ==
    ASSUME TypeOK, NEW e \in Executions, NEW stage \in Stages, GoTo(e, stage)
    PROVE  /\ work' \in [Executions -> Work]
           /\ \A f \in Executions : f # e => work'[f] = work[f]
           /\ work'[e].stage = stage
           /\ work'[e].date = work[e].date
           /\ work'[e].strategy = work[e].strategy
           /\ work'[e].aggregate = work[e].aggregate
  <1> DEFINE w == [work[e] EXCEPT !.stage = stage, !.cleared = FALSE]
  <1>1. work[e] \in Work
    BY ValueTypes
  <1>2. w \in Work
    BY <1>1, Zenon DEF Work
  <1>3. work' = [work EXCEPT ![e] = w]
    BY DEF GoTo
  <1>4. /\ w.stage = stage /\ w.date = work[e].date /\ w.strategy = work[e].strategy
        /\ w.aggregate = work[e].aggregate
    BY <1>1 DEF Work
  <1> HIDE DEF w
  <1> QED BY <1>2, <1>3, <1>4 DEF TypeOK

\* Leave forgets the run.
LEMMA LeaveMoves ==
    ASSUME TypeOK, NEW e \in Executions, NEW stage \in Stages, NEW date \in Dates,
           Leave(e, stage, date)
    PROVE  /\ work' \in [Executions -> Work]
           /\ \A f \in Executions : f # e => work'[f] = work[f]
           /\ work'[e].stage = stage
           /\ work'[e].date = date
           /\ work'[e].strategy = 1
           /\ work'[e].aggregate = NothingTraded
  <1> DEFINE w == [work[e] EXCEPT !.stage = stage, !.cleared = FALSE, !.date = date,
                                  !.strategy = 1, !.version = 0, !.loaded = {},
                                  !.aggregate = NothingTraded]
  <1>1. work[e] \in Work /\ NothingTraded \in [Strategies -> SUBSET PaperRuns]
    BY ValueTypes
  <1>2. w \in Work
    <2>1. 1 \in Strategies /\ 0 \in Nat /\ {} \in SUBSET PaperRuns
      BY Sizes
    <2> QED BY <1>1, <2>1, Zenon DEF Work
  <1>3. work' = [work EXCEPT ![e] = w]
    BY DEF Leave
  <1>4. /\ w.stage = stage /\ w.date = date /\ w.strategy = 1
        /\ w.aggregate = NothingTraded
    BY <1>1 DEF Work
  <1> HIDE DEF w
  <1> QED BY <1>2, <1>3, <1>4 DEF TypeOK

\* NextStrategy goes on with the next ledger, and collects after the last.
LEMMA NextStrategyMoves ==
    ASSUME TypeOK, NEW e \in Executions, NextStrategy(e)
    PROVE  /\ work' \in [Executions -> Work]
           /\ \A f \in Executions : f # e => work'[f] = work[f]
           /\ work'[e].date = work[e].date
           /\ work'[e].aggregate = work[e].aggregate
           /\ \/ /\ work[e].strategy < NumStrategies
                 /\ work'[e].stage = "load"
                 /\ work'[e].strategy = work[e].strategy + 1
              \/ /\ work[e].strategy = NumStrategies
                 /\ work'[e].stage = "collect"
                 /\ work'[e].strategy = 1
  <1> DEFINE s == work[e].strategy + 1
             w == [work[e] EXCEPT !.stage = "load", !.strategy = s, !.loaded = {}]
             v == [work[e] EXCEPT !.stage = "collect", !.strategy = 1, !.loaded = {}]
  <1>1. work[e] \in Work /\ work[e].strategy \in Strategies /\ {} \in SUBSET PaperRuns
        /\ "load" \in Stages /\ "collect" \in Stages /\ 1 \in Strategies
    BY ValueTypes, Sizes DEF Work, Stages
  <1>2. CASE work[e].strategy < NumStrategies
    <2>1. s \in Strategies
      BY <1>1, <1>2, Sizes DEF Strategies
    <2>2. w \in Work
      <3> HIDE DEF s
      <3> QED BY <1>1, <2>1, Zenon DEF Work
    <2>3. work' = [work EXCEPT ![e] = w]
      BY <1>2 DEF NextStrategy
    <2>4. /\ w.stage = "load" /\ w.date = work[e].date /\ w.strategy = s
          /\ w.aggregate = work[e].aggregate
      BY <1>1 DEF Work
    <2>5. s = work[e].strategy + 1
      OBVIOUS
    <2> HIDE DEF w, s
    <2> QED BY <1>2, <2>2, <2>3, <2>4, <2>5 DEF TypeOK
  <1>3. CASE ~(work[e].strategy < NumStrategies)
    <2>1. work[e].strategy = NumStrategies
      BY <1>1, <1>3, Sizes DEF Strategies
    <2>2. v \in Work
      BY <1>1, Zenon DEF Work
    <2>3. work' = [work EXCEPT ![e] = v]
      BY <1>3 DEF NextStrategy
    <2>4. /\ v.stage = "collect" /\ v.date = work[e].date /\ v.strategy = 1
          /\ v.aggregate = work[e].aggregate
      BY <1>1 DEF Work
    <2> HIDE DEF v
    <2> QED BY <2>1, <2>2, <2>3, <2>4 DEF TypeOK
  <1> QED BY <1>2, <1>3

\* NextDate enters the next date, and synchronises the agents after the last.
LEMMA NextDateMoves ==
    ASSUME TypeOK, NEW e \in Executions, NextDate(e)
    PROVE  /\ work' \in [Executions -> Work]
           /\ \A f \in Executions : f # e => work'[f] = work[f]
           /\ work'[e].strategy = 1
           /\ work'[e].aggregate = NothingTraded
           /\ \/ /\ work'[e].stage = "enter"
                 /\ work'[e].date = work[e].date + 1
              \/ /\ work'[e].stage = "sync"
                 /\ work'[e].date = NumDates
                 /\ work[e].date = NumDates
  <1>1. work[e].date \in Dates /\ "enter" \in Stages /\ "sync" \in Stages
    BY ValueTypes DEF Work, Stages
  <1>2. CASE work[e].date < NumDates
    <2>1. work[e].date + 1 \in Dates
      BY <1>1, <1>2, Sizes DEF Dates
    <2> QED BY <1>1, <1>2, <2>1, LeaveMoves DEF NextDate
  <1>3. CASE ~(work[e].date < NumDates)
    <2>1. work[e].date = NumDates /\ NumDates \in Dates
      BY <1>1, <1>3, Sizes DEF Dates
    <2>2. Leave(e, "sync", NumDates)
      BY <1>3 DEF NextDate
    <2> QED BY <1>1, <2>1, <2>2, LeaveMoves
  <1> QED BY <1>2, <1>3

-----------------------------------------------------------------------------
(* Types.                                                                    *)

\* The conditional writes of a run write a run.
LEMMA RowTypes ==
    ASSUME NEW row \in Rows, NEW st \in {"queued", "running", "completed", "failed"}
    PROVE  Changed(row, st) \in Rows /\ Changed(row, st).status = st
  <1> DEFINE v == row.version + 1
  <1>1. v \in Nat
    BY DEF Rows
  <1>2. [row EXCEPT !.status = st, !.version = v] \in Rows
    <2> HIDE DEF v
    <2> QED BY <1>1, Zenon DEF Rows
  <1>3. Changed(row, st) = [row EXCEPT !.status = st, !.version = v]
    BY DEF Changed
  <1> QED BY <1>2, <1>3 DEF Rows

LEMMA CreatedType ==
    Created \in Rows /\ Created.status = "queued"
  BY DEF Created, Rows, NothingTraded

\* What Enter does: the row exists afterwards, unchanged if it did before.
LEMMA EnterEffect ==
    ASSUME TypeOK, NEW e \in Executions, Enter(e)
    PROVE  /\ runs' \in [PaperRuns -> Rows]
           /\ \A r \in PaperRuns : runs'[r] = runs[r] \/ (runs[r].status = "absent"
                                                         /\ runs'[r].status = "queued")
           /\ work' \in [Executions -> Work]
           /\ \A f \in Executions : f # e => work'[f] = work[f]
           /\ \/ runs[Run(e)].status = "completed" /\ NextDate(e)
              \/ /\ work'[e].stage = "resume"
                 /\ work'[e].date = work[e].date
                 /\ work'[e].strategy = work[e].strategy
                 /\ work'[e].aggregate = work[e].aggregate
  <1> DEFINE row == IF runs[Run(e)].status = "absent" THEN Created ELSE runs[Run(e)]
             w == [work[e] EXCEPT !.stage = "resume", !.version = row.version]
  <1>1. row \in Rows /\ Run(e) \in PaperRuns /\ work[e] \in Work
    BY ValueTypes, CreatedType
  <1>2. runs' = [runs EXCEPT ![Run(e)] = row]
    BY DEF Enter
  <1>3. row = runs[Run(e)] \/ (runs[Run(e)].status = "absent" /\ row.status = "queued")
    BY CreatedType
  <1>4. CASE row.status = "completed"
    <2>1. NextDate(e)
      BY <1>4 DEF Enter
    <2>2. runs[Run(e)].status = "completed"
      BY <1>3, <1>4
    <2> HIDE DEF row
    <2> QED BY <1>1, <1>2, <1>3, <2>1, <2>2, NextDateMoves DEF TypeOK
  <1>5. CASE row.status # "completed"
    <2>1. work' = [work EXCEPT ![e] = w]
      BY <1>5 DEF Enter
    <2>2. row.version \in Nat /\ "resume" \in Stages
      BY <1>1 DEF Rows, Stages
    <2>3. w \in Work
      <3> HIDE DEF row
      <3> QED BY <1>1, <2>2, Zenon DEF Work
    <2>4. /\ w.stage = "resume" /\ w.date = work[e].date /\ w.strategy = work[e].strategy
          /\ w.aggregate = work[e].aggregate
      BY <1>1 DEF Work
    <2> HIDE DEF row, w
    <2> QED BY <1>1, <1>2, <1>3, <2>1, <2>3, <2>4 DEF TypeOK
  <1> QED BY <1>4, <1>5

\* What Resume does: a run that is not completed is running.
LEMMA ResumeEffect ==
    ASSUME TypeOK, NEW e \in Executions, Resume(e)
    PROVE  /\ runs' \in [PaperRuns -> Rows]
           /\ \A r \in PaperRuns : runs'[r] = runs[r] \/ (runs[r].status \in Resumable
                                                         /\ runs'[r].status = "running")
           /\ work' \in [Executions -> Work]
           /\ \A f \in Executions : f # e => work'[f] = work[f]
           /\ \/ Leave(e, "release", work[e].date)
              \/ /\ work'[e].stage = "trade"
                 /\ work'[e].date = work[e].date
                 /\ work'[e].strategy = work[e].strategy
                 /\ work'[e].aggregate = work[e].aggregate
  <1> DEFINE row == Changed(runs[Run(e)], "running")
             v == work[e].version + 1
             w == [work[e] EXCEPT !.stage = "trade", !.version = v]
  <1>1. /\ runs[Run(e)] \in Rows /\ Run(e) \in PaperRuns /\ work[e] \in Work
        /\ work[e].date \in Dates /\ "release" \in Stages
    BY ValueTypes DEF Work, Stages
  <1>2. CASE HoldsVersion(e) /\ runs[Run(e)].status \in Resumable
    <2>1. row \in Rows /\ row.status = "running"
      BY <1>1, RowTypes
    <2>2. runs' = [runs EXCEPT ![Run(e)] = row] /\ work' = [work EXCEPT ![e] = w]
      BY <1>2 DEF Resume
    <2>3. v \in Nat /\ "trade" \in Stages
      BY <1>1 DEF Work, Stages
    <2>4. w \in Work
      <3> HIDE DEF v
      <3> QED BY <1>1, <2>3, Zenon DEF Work
    <2>5. /\ w.stage = "trade" /\ w.date = work[e].date /\ w.strategy = work[e].strategy
          /\ w.aggregate = work[e].aggregate
      BY <1>1 DEF Work
    <2> HIDE DEF row, w
    <2> QED BY <1>1, <1>2, <2>1, <2>2, <2>4, <2>5 DEF TypeOK
  <1>3. CASE ~(HoldsVersion(e) /\ runs[Run(e)].status \in Resumable)
    <2>1. Leave(e, "release", work[e].date) /\ runs' = runs
      BY <1>3 DEF Resume
    <2> QED BY <1>1, <2>1, LeaveMoves DEF TypeOK
  <1> QED BY <1>2, <1>3

\* What Complete does: a running run is completed with the aggregate that was collected.
LEMMA CompleteEffect ==
    ASSUME TypeOK, NEW e \in Executions, Complete(e)
    PROVE  /\ runs' \in [PaperRuns -> Rows]
           /\ \A r \in PaperRuns : r # Run(e) => runs'[r] = runs[r]
           /\ work' \in [Executions -> Work]
           /\ \A f \in Executions : f # e => work'[f] = work[f]
           /\ \/ /\ NextDate(e)
                 /\ runs[Run(e)].status = "running"
                 /\ runs'[Run(e)].status = "completed"
                 /\ runs'[Run(e)].aggregate = work[e].aggregate
              \/ runs' = runs /\ GoTo(e, "fail")
  <1> DEFINE v == runs[Run(e)].version + 1
             row == [status |-> "completed", version |-> v, aggregate |-> work[e].aggregate]
  <1>1. runs[Run(e)] \in Rows /\ Run(e) \in PaperRuns /\ work[e] \in Work /\ "fail" \in Stages
    BY ValueTypes DEF Stages
  <1>2. CASE HoldsVersion(e) /\ runs[Run(e)].status = "running"
    <2>1. v \in Nat /\ work[e].aggregate \in [Strategies -> SUBSET PaperRuns]
      BY <1>1 DEF Rows, Work
    <2>2. row \in Rows
      <3> HIDE DEF v
      <3> QED BY <2>1 DEF Rows
    <2>3. row.status = "completed" /\ row.aggregate = work[e].aggregate
      OBVIOUS
    <2>4. runs' = [runs EXCEPT ![Run(e)] = row] /\ NextDate(e)
      BY <1>2 DEF Complete
    <2> HIDE DEF row
    <2> QED BY <1>1, <1>2, <2>2, <2>3, <2>4, NextDateMoves DEF TypeOK
  <1>3. CASE ~(HoldsVersion(e) /\ runs[Run(e)].status = "running")
    <2>1. runs' = runs /\ GoTo(e, "fail")
      BY <1>3 DEF Complete
    <2> QED BY <1>1, <2>1, GoToMoves DEF TypeOK
  <1> QED BY <1>2, <1>3

\* What Fail does: a running run has failed, and the execution gives up its job.
LEMMA FailEffect ==
    ASSUME TypeOK, NEW e \in Executions, Fail(e)
    PROVE  /\ runs' \in [PaperRuns -> Rows]
           /\ \A r \in PaperRuns : runs'[r] = runs[r] \/ (runs[r].status = "running"
                                                         /\ runs'[r].status = "failed")
           /\ Leave(e, "release", work[e].date)
  <1> DEFINE row == Changed(runs[Run(e)], "failed")
  <1>1. runs[Run(e)] \in Rows /\ Run(e) \in PaperRuns
    BY ValueTypes
  <1>2. row \in Rows /\ row.status = "failed"
    BY <1>1, RowTypes
  <1>3. \/ runs' = runs
        \/ runs[Run(e)].status = "running" /\ runs' = [runs EXCEPT ![Run(e)] = row]
    BY DEF Fail
  <1>4. Leave(e, "release", work[e].date)
    BY DEF Fail
  <1> HIDE DEF row
  <1> QED BY <1>1, <1>2, <1>3, <1>4 DEF TypeOK

\* What Apply does: the run is in the ledger, once.
LEMMA ApplyEffect ==
    ASSUME TypeOK, NEW e \in Executions, Apply(e)
    PROVE  /\ ledgers' \in [Strategies -> Seq(PaperRuns)]
           /\ prices' \in [Strategies -> SUBSET PaperRuns]
           /\ \A s \in Strategies :
                  ledgers'[s] = ledgers[s] \/ (/\ Run(e) \notin Applied(s)
                                              /\ ledgers'[s] = Append(ledgers[s], Run(e)))
           /\ \A s \in Strategies :
                  Applied(s)' = Applied(s) \/ Applied(s)' = Applied(s) \cup {Run(e)}
           /\ \A s \in Strategies : s = work[e].strategy => Run(e) \in Applied(s)'
  <1> PICK s \in Strategies : s = work[e].strategy
    BY ValueTypes DEF Work
  <1> DEFINE keys == Append(ledgers[s], Run(e))
             seen == work[e].loaded \cup {Run(e)}
  <1>1. /\ Run(e) \in PaperRuns /\ ledgers[s] \in Seq(PaperRuns)
        /\ work[e].loaded \in SUBSET PaperRuns
    BY ValueTypes DEF Work, TypeOK
  <1>2. CASE Run(e) \in Applied(s)
    <2>1. ledgers' = ledgers /\ prices' = prices
      BY <1>2 DEF Apply
    <2>2. \A u \in Strategies : Applied(u)' = Applied(u)
      BY <2>1 DEF Applied
    <2> QED BY <1>2, <2>1, <2>2 DEF TypeOK
  <1>3. CASE Run(e) \notin Applied(s)
    <2>1. ledgers' = [ledgers EXCEPT ![s] = keys] /\ prices' = [prices EXCEPT ![s] = seen]
      BY <1>3 DEF Apply
    <2>2. /\ keys \in Seq(PaperRuns) /\ seen \in SUBSET PaperRuns
          /\ Len(keys) = Len(ledgers[s]) + 1 /\ Len(ledgers[s]) \in Nat
          /\ \A i \in 1 .. Len(ledgers[s]) : keys[i] = ledgers[s][i]
          /\ keys[Len(ledgers[s]) + 1] = Run(e)
      BY <1>1
    <2>3. ledgers'[s] = keys /\ \A u \in Strategies : u # s => ledgers'[u] = ledgers[u]
      BY <1>1, <2>1 DEF TypeOK
    <2>4. Applied(s)' = Applied(s) \cup {Run(e)}
      <3>1. Applied(s)' = {ledgers'[s][i] : i \in 1 .. Len(ledgers'[s])}
        BY DEF Applied
      <3>2. ledgers'[s] = keys
        BY <2>3
      <3>3. 1 .. Len(keys) = (1 .. Len(ledgers[s])) \cup {Len(ledgers[s]) + 1}
        BY <2>2
      <3> HIDE DEF keys
      <3>4. \A x : x \in Applied(s)' <=> x \in Applied(s) \cup {Run(e)}
        <4>1. \A i \in 1 .. Len(ledgers[s]) : ledgers'[s][i] = ledgers[s][i]
          BY <2>2, <3>2
        <4>2. ledgers'[s][Len(ledgers[s]) + 1] = Run(e)
          BY <2>2, <3>2
        <4>3. 1 .. Len(ledgers'[s]) = (1 .. Len(ledgers[s])) \cup {Len(ledgers[s]) + 1}
          BY <3>2, <3>3
        <4> QED BY <3>1, <4>1, <4>2, <4>3, Zenon DEF Applied
      <3> QED BY <3>4
    <2>5. \A u \in Strategies : u # s => Applied(u)' = Applied(u)
      BY <2>3 DEF Applied
    <2> HIDE DEF keys, seen
    <2>6. ledgers' \in [Strategies -> Seq(PaperRuns)] /\ prices' \in [Strategies -> SUBSET PaperRuns]
      BY <2>1, <2>2 DEF TypeOK
    <2>7. keys = Append(ledgers[s], Run(e))
      BY DEF keys
    <2> QED BY <1>3, <2>3, <2>4, <2>5, <2>6, <2>7
  <1> QED BY <1>2, <1>3

\* What Collect does: the keys of one ledger are in the aggregate.
LEMMA CollectMoves ==
    ASSUME TypeOK, NEW e \in Executions, Collect(e)
    PROVE  /\ work' \in [Executions -> Work]
           /\ \A f \in Executions : f # e => work'[f] = work[f]
           /\ work'[e].date = work[e].date
           /\ \A s \in Strategies : work'[e].aggregate[s] =
                  IF s = work[e].strategy THEN Applied(s) ELSE work[e].aggregate[s]
           /\ \/ /\ work[e].strategy < NumStrategies
                 /\ work'[e].stage = "collect"
                 /\ work'[e].strategy = work[e].strategy + 1
              \/ /\ work[e].strategy = NumStrategies
                 /\ work'[e].stage = "upload"
                 /\ work'[e].strategy = 1
  <1> DEFINE s == work[e].strategy
             table == [work[e].aggregate EXCEPT ![s] = Applied(s)]
             next == IF s < NumStrategies THEN s + 1 ELSE 1
             stage == IF s < NumStrategies THEN "collect" ELSE "upload"
             cleared == s < NumStrategies
             w == [work[e] EXCEPT !.aggregate = table, !.strategy = next, !.stage = stage,
                                  !.cleared = cleared]
  <1>1. /\ work[e] \in Work /\ s \in Strategies /\ Applied(s) \in SUBSET PaperRuns
        /\ work[e].aggregate \in [Strategies -> SUBSET PaperRuns]
        /\ work[e].stage = "collect"
    BY ValueTypes DEF Work, Collect, At
  <1>2. /\ table \in [Strategies -> SUBSET PaperRuns]
        /\ \A u \in Strategies :
               table[u] = IF u = s THEN Applied(u) ELSE work[e].aggregate[u]
    BY <1>1
  <1>3. next \in Strategies /\ stage \in Stages /\ cleared \in BOOLEAN
    BY <1>1, Sizes DEF Strategies, Stages
  <1>4. w \in Work
    <2> HIDE DEF table, next, stage, cleared
    <2> QED BY <1>1, <1>2, <1>3, Zenon DEF Work
  <1>5. work' = [work EXCEPT ![e] = w]
    BY DEF Collect
  <1>6. w.stage = stage /\ w.date = work[e].date /\ w.strategy = next /\ w.aggregate = table
    <2> HIDE DEF table, next, stage, cleared
    <2> QED BY <1>1 DEF Work
  <1>7. \/ s < NumStrategies /\ stage = "collect" /\ next = s + 1
        \/ s = NumStrategies /\ stage = "upload" /\ next = 1
    BY <1>1, Sizes DEF Strategies
  <1>8. /\ work' \in [Executions -> Work]
        /\ \A f \in Executions : f # e => work'[f] = work[f]
        /\ work'[e] = w
    <2> HIDE DEF w
    <2> QED BY <1>4, <1>5 DEF TypeOK
  <1> HIDE DEF w, table, next, stage, cleared
  <1> QED BY <1>2, <1>6, <1>7, <1>8

\* What Guard does: nothing but end an execution that lost its claim.
LEMMA GuardMoves ==
    ASSUME TypeOK, NEW e \in Executions, Guard(e)
    PROVE  /\ work' \in [Executions -> Work]
           /\ \A f \in Executions : f # e => work'[f] = work[f]
           /\ work'[e].stage \in {work[e].stage, "ended"}
           /\ work'[e].date = work[e].date
           /\ work'[e].strategy = work[e].strategy
           /\ work'[e].aggregate = work[e].aggregate
  <1> DEFINE w == [work[e] EXCEPT !.cleared = TRUE]
  <1>1. work[e] \in Work /\ "ended" \in Stages
    BY ValueTypes DEF Stages
  <1>2. CASE owner[e[1]] = e
    <2>1. w \in Work
      BY <1>1, Zenon DEF Work
    <2>2. work' = [work EXCEPT ![e] = w]
      BY <1>2 DEF Guard
    <2>3. /\ w.stage = work[e].stage /\ w.date = work[e].date
          /\ w.strategy = work[e].strategy /\ w.aggregate = work[e].aggregate
      BY <1>1 DEF Work
    <2> HIDE DEF w
    <2> QED BY <2>1, <2>2, <2>3 DEF TypeOK
  <1>3. CASE owner[e[1]] # e
    BY <1>1, <1>3, GoToMoves DEF Guard
  <1> QED BY <1>2, <1>3

\* What Load does: the ledger object has the prices of that moment.
LEMMA LoadMoves ==
    ASSUME TypeOK, NEW e \in Executions, Load(e)
    PROVE  /\ work' \in [Executions -> Work]
           /\ \A f \in Executions : f # e => work'[f] = work[f]
           /\ work'[e].stage = "apply"
           /\ work'[e].date = work[e].date
           /\ work'[e].strategy = work[e].strategy
           /\ work'[e].aggregate = work[e].aggregate
  <1> DEFINE seen == prices[work[e].strategy]
             w == [work[e] EXCEPT !.stage = "apply", !.loaded = seen]
  <1>1. work[e] \in Work /\ "apply" \in Stages /\ seen \in SUBSET PaperRuns
    BY ValueTypes DEF Work, Stages, TypeOK
  <1>2. w \in Work
    <2> HIDE DEF seen
    <2> QED BY <1>1, Zenon DEF Work
  <1>3. work' = [work EXCEPT ![e] = w]
    BY DEF Load
  <1>4. /\ w.stage = "apply" /\ w.date = work[e].date
        /\ w.strategy = work[e].strategy /\ w.aggregate = work[e].aggregate
    BY <1>1 DEF Work
  <1> HIDE DEF w
  <1> QED BY <1>2, <1>3, <1>4 DEF TypeOK

\* What Raise does: the date has failed.
LEMMA RaiseMoves ==
    ASSUME TypeOK, NEW e \in Executions, Raise(e)
    PROVE  /\ work' \in [Executions -> Work]
           /\ \A f \in Executions : f # e => work'[f] = work[f]
           /\ work'[e].stage = "fail"
           /\ work'[e].date = work[e].date
           /\ work'[e].strategy = work[e].strategy
           /\ work'[e].aggregate = NothingTraded
  <1> DEFINE w == [work[e] EXCEPT !.stage = "fail", !.cleared = FALSE, !.loaded = {},
                                  !.aggregate = NothingTraded]
  <1>1. /\ work[e] \in Work /\ "fail" \in Stages /\ {} \in SUBSET PaperRuns
        /\ NothingTraded \in [Strategies -> SUBSET PaperRuns]
    BY ValueTypes DEF Stages
  <1>2. w \in Work
    BY <1>1, Zenon DEF Work
  <1>3. work' = [work EXCEPT ![e] = w]
    BY DEF Raise
  <1>4. /\ w.stage = "fail" /\ w.date = work[e].date
        /\ w.strategy = work[e].strategy /\ w.aggregate = NothingTraded
    BY <1>1 DEF Work
  <1> HIDE DEF w
  <1> QED BY <1>2, <1>3, <1>4 DEF TypeOK

\* What Sync does: one agent shows the run, and the last one ends the batch.
LEMMA SyncEffect ==
    ASSUME TypeOK, NEW e \in Executions, Sync(e)
    PROVE  /\ agents' \in [Strategies -> PaperRuns \cup {NoRun}]
           /\ agents'[work[e].strategy] = Run(e)
           /\ \A s \in Strategies : s # work[e].strategy => agents'[s] = agents[s]
           /\ work' \in [Executions -> Work]
           /\ \A f \in Executions : f # e => work'[f] = work[f]
           /\ \/ /\ work[e].strategy < NumStrategies
                 /\ work'[e].stage = "sync"
                 /\ work'[e].date = work[e].date
                 /\ work'[e].strategy = work[e].strategy + 1
                 /\ work'[e].aggregate = work[e].aggregate
              \/ /\ work[e].strategy = NumStrategies
                 /\ Leave(e, "finish", NumDates)
  <1> DEFINE s == work[e].strategy
             next == s + 1
             w == [work[e] EXCEPT !.strategy = next]
  <1>1. /\ work[e] \in Work /\ s \in Strategies /\ Run(e) \in PaperRuns
        /\ "finish" \in Stages /\ work[e].stage = "sync"
    BY ValueTypes DEF Work, Stages, Sync, At
  <1>2. agents' = [agents EXCEPT ![s] = Run(e)]
    BY DEF Sync
  <1>3. CASE s < NumStrategies
    <2>1. next \in Strategies
      BY <1>1, <1>3, Sizes DEF Strategies
    <2>2. w \in Work
      <3> HIDE DEF next
      <3> QED BY <1>1, <2>1, Zenon DEF Work
    <2>3. work' = [work EXCEPT ![e] = w]
      BY <1>3 DEF Sync
    <2>4. /\ w.stage = "sync" /\ w.date = work[e].date /\ w.strategy = s + 1
          /\ w.aggregate = work[e].aggregate
      BY <1>1 DEF Work
    <2> HIDE DEF w
    <2> QED BY <1>1, <1>2, <1>3, <2>2, <2>3, <2>4 DEF TypeOK
  <1>4. CASE ~(s < NumStrategies)
    <2>1. s = NumStrategies
      BY <1>1, <1>4, Sizes DEF Strategies
    <2>2. Leave(e, "finish", NumDates)
      BY <1>4 DEF Sync
    <2> QED BY <1>1, <1>2, <2>1, <2>2, Sizes, LeaveMoves DEF TypeOK
  <1> QED BY <1>3, <1>4

\* Every step of the system keeps the types.
LEMMA TypeStep == TypeOK /\ [Next]_vars => TypeOK'
  <1> SUFFICES ASSUME TypeOK, [Next]_vars PROVE TypeOK'
    OBVIOUS
  <1> USE DEF tradingVars
  <1>1. /\ {"begin", "enter", "load", "ended", "release", "record", "save", "complete",
            "collect", "upload"} \subseteq Stages
        /\ NumDates \in Dates
    BY Sizes DEF Stages
  <1>2. \A e \in Executions : work[e].date \in Dates
    BY ValueTypes DEF Work
  <1>3. ASSUME NEW j \in Jobs, ClaimIsLost(j) PROVE TypeOK'
    BY <1>3 DEF ClaimIsLost, TypeOK
  <1>4. ASSUME NEW e \in Executions, Claim(e) PROVE TypeOK'
    BY <1>1, <1>4, GoToMoves DEF Claim, TypeOK
  <1>5. ASSUME NEW e \in Executions, Guard(e) PROVE TypeOK'
    BY <1>5, GuardMoves DEF Guard, TypeOK
  <1>6. ASSUME NEW e \in Executions, Begin(e) PROVE TypeOK'
    BY <1>1, <1>6, GoToMoves DEF Begin, TypeOK
  <1>7. ASSUME NEW e \in Executions, Enter(e) PROVE TypeOK'
    BY <1>7, EnterEffect DEF Enter, TypeOK
  <1>8. ASSUME NEW e \in Executions, Resume(e) PROVE TypeOK'
    BY <1>8, ResumeEffect DEF Resume, TypeOK
  <1>9. ASSUME NEW e \in Executions, BeginTrading(e) PROVE TypeOK'
    BY <1>1, <1>9, GoToMoves DEF BeginTrading, TypeOK
  <1>10. ASSUME NEW e \in Executions, Load(e) PROVE TypeOK'
    BY <1>10, LoadMoves DEF Load, TypeOK
  <1>11. ASSUME NEW e \in Executions, Apply(e) PROVE TypeOK'
    <2>1. work' \in [Executions -> Work]
      BY <1>11, NextStrategyMoves DEF Apply
    <2> QED BY <1>11, <2>1, ApplyEffect DEF Apply, TypeOK
  <1>12. ASSUME NEW e \in Executions, Collect(e) PROVE TypeOK'
    BY <1>12, CollectMoves DEF Collect, TypeOK
  <1>13. ASSUME NEW e \in Executions, NEW stage \in {"upload", "record", "save"},
                NEW next \in {"record", "save", "complete"}, Publish(e, stage, next)
         PROVE  TypeOK'
    <2>1. published' \in [PaperRuns -> SUBSET {"upload", "record", "save"}]
      BY <1>13, ValueTypes DEF Publish, TypeOK
    <2>2. work' \in [Executions -> Work]
      BY <1>1, <1>13, GoToMoves DEF Publish
    <2> QED BY <1>13, <2>1, <2>2 DEF Publish, TypeOK
  <1>14. ASSUME NEW e \in Executions, Complete(e) PROVE TypeOK'
    BY <1>14, CompleteEffect DEF Complete, TypeOK
  <1>15. ASSUME NEW e \in Executions, Raise(e) PROVE TypeOK'
    BY <1>15, RaiseMoves DEF Raise, TypeOK
  <1>16. ASSUME NEW e \in Executions, Abort(e) PROVE TypeOK'
    BY <1>1, <1>2, <1>16, LeaveMoves DEF Abort, TypeOK
  <1>17. ASSUME NEW e \in Executions, Fail(e) PROVE TypeOK'
    <2>1. work' \in [Executions -> Work]
      BY <1>1, <1>2, <1>17, LeaveMoves, FailEffect
    <2> QED BY <1>17, <2>1, FailEffect DEF Fail, TypeOK
  <1>18. ASSUME NEW e \in Executions, Sync(e) PROVE TypeOK'
    BY <1>18, SyncEffect DEF Sync, TypeOK
  <1>19. ASSUME NEW e \in Executions, Finish(e) PROVE TypeOK'
    <2>1. work' \in [Executions -> Work]
      BY <1>1, <1>19, GoToMoves DEF Finish
    <2>2. owner' \in [Jobs -> Executions \cup {NoExecution}] /\ done' \subseteq Jobs
      BY <1>19, ValueTypes DEF Finish, TypeOK
    <2> QED BY <1>19, <2>1, <2>2 DEF Finish, TypeOK
  <1>20. ASSUME NEW e \in Executions, Release(e) PROVE TypeOK'
    <2>1. work' \in [Executions -> Work]
      BY <1>1, <1>20, GoToMoves DEF Release
    <2>2. owner' \in [Jobs -> Executions \cup {NoExecution}]
      BY <1>20 DEF Release, TypeOK
    <2> QED BY <1>20, <2>1, <2>2 DEF Release, TypeOK
  <1>21. ASSUME NEW e \in Executions, Crash(e) PROVE TypeOK'
    BY <1>1, <1>2, <1>21, LeaveMoves DEF Crash, TypeOK
  <1>22. ASSUME UNCHANGED vars PROVE TypeOK'
    BY <1>22 DEF vars, TypeOK
  <1> QED
    BY <1>3, <1>4, <1>5, <1>6, <1>7, <1>8, <1>9, <1>10, <1>11, <1>12, <1>13, <1>14, <1>15,
       <1>16, <1>17, <1>18, <1>19, <1>20, <1>21, <1>22 DEF Next

-----------------------------------------------------------------------------
(* The tables only grow.  A step changes one of them at most, and an         *)
(* execution that does not move keeps what it knows.                         *)

RunsGrow == \A r \in PaperRuns : r \in Completed => runs'[r] = runs[r]

LedgersGrow == \A s \in Strategies : Applied(s) \subseteq Applied(s)'

PublishedGrow == \A r \in PaperRuns : published[r] \subseteq published'[r]

AgentsGrow == \A s \in Strategies : agents[s] # NoRun => agents'[s] # NoRun

Grows == RunsGrow /\ LedgersGrow /\ PublishedGrow /\ AgentsGrow

LEMMA RunsAreSomething == \A r \in PaperRuns : r # NoRun
  BY DEF PaperRuns, NoRun

LEMMA CompletedGrows ==
    ASSUME RunsGrow
    PROVE  /\ Completed \subseteq Completed'
           /\ \A keys : InOrder(keys) => InOrder(keys)'
  <1>1. Completed \subseteq Completed'
    BY DEF RunsGrow, Completed
  <1> QED BY <1>1 DEF InOrder

\* No step reopens or changes a completed run: the store's conditional updates match
\* queued, running and failed rows only.
LEMMA RunsGrowStep ==
    ASSUME TypeOK, [Next]_vars
    PROVE  RunsGrow
  <1>1. ASSUME NEW e \in Executions, Enter(e) PROVE RunsGrow
    BY <1>1, EnterEffect DEF RunsGrow, Completed
  <1>2. ASSUME NEW e \in Executions, Resume(e) PROVE RunsGrow
    BY <1>2, ResumeEffect DEF RunsGrow, Completed, Resumable
  <1>3. ASSUME NEW e \in Executions, Complete(e) PROVE RunsGrow
    BY <1>3, CompleteEffect DEF RunsGrow, Completed
  <1>4. ASSUME NEW e \in Executions, Fail(e) PROVE RunsGrow
    BY <1>4, FailEffect DEF RunsGrow, Completed
  <1>5. ASSUME runs' = runs PROVE RunsGrow
    BY <1>5 DEF RunsGrow
  <1> QED
    BY <1>1, <1>2, <1>3, <1>4, <1>5, ZenonT(60)
       DEF Next, vars, tradingVars, ClaimIsLost, Claim, Guard, Begin, BeginTrading, Load,
           Apply, Collect, Publish, Raise, Abort, Sync, Finish, Release, Crash

LEMMA LedgersGrowStep ==
    ASSUME TypeOK, [Next]_vars
    PROVE  LedgersGrow
  <1>1. ASSUME NEW e \in Executions, Apply(e) PROVE LedgersGrow
    BY <1>1, ApplyEffect DEF LedgersGrow
  <1>2. ASSUME ledgers' = ledgers PROVE LedgersGrow
    BY <1>2 DEF LedgersGrow, Applied
  <1> QED
    BY <1>1, <1>2, ZenonT(60)
       DEF Next, vars, tradingVars, ClaimIsLost, Claim, Guard, Begin, Enter, Resume,
           BeginTrading, Load, Collect, Publish, Complete, Raise, Abort, Fail, Sync,
           Finish, Release, Crash

LEMMA PublishedGrowStep ==
    ASSUME TypeOK, [Next]_vars
    PROVE  PublishedGrow
  <1>1. ASSUME NEW e \in Executions, NEW stage, NEW next, Publish(e, stage, next)
        PROVE  PublishedGrow
    BY <1>1 DEF PublishedGrow, Publish, TypeOK
  <1>2. ASSUME published' = published PROVE PublishedGrow
    BY <1>2 DEF PublishedGrow
  <1> QED
    BY <1>1, <1>2, ZenonT(60)
       DEF Next, vars, tradingVars, ClaimIsLost, Claim, Guard, Begin, Enter, Resume,
           BeginTrading, Load, Apply, Collect, Complete, Raise, Abort, Fail, Sync,
           Finish, Release, Crash

LEMMA AgentsGrowStep ==
    ASSUME TypeOK, [Next]_vars
    PROVE  AgentsGrow
  <1>1. ASSUME NEW e \in Executions, Sync(e) PROVE AgentsGrow
    BY <1>1, SyncEffect, ValueTypes, RunsAreSomething DEF AgentsGrow
  <1>2. ASSUME agents' = agents PROVE AgentsGrow
    BY <1>2 DEF AgentsGrow
  <1> QED
    BY <1>1, <1>2, ZenonT(60)
       DEF Next, vars, tradingVars, ClaimIsLost, Claim, Guard, Begin, Enter, Resume,
           BeginTrading, Load, Apply, Collect, Publish, Complete, Raise, Abort, Fail,
           Finish, Release, Crash

LEMMA GrowStep == ASSUME TypeOK, [Next]_vars PROVE Grows
  BY RunsGrowStep, LedgersGrowStep, PublishedGrowStep, AgentsGrowStep DEF Grows

\* What an execution knows stays true while it does not move.
LEMMA KnowledgeStays ==
    ASSUME Grows, NEW e \in Executions, Knows(e),
           work'[e].stage = work[e].stage, work'[e].date = work[e].date,
           work'[e].strategy = work[e].strategy, work'[e].aggregate = work[e].aggregate,
           Run(e) \in PaperRuns
    PROVE  Knows(e)'
  <1>1. /\ Completed \subseteq Completed'
        /\ \A keys : InOrder(keys) => InOrder(keys)'
    BY CompletedGrows DEF Grows
  <1>2. Run(e)' = Run(e)
    BY DEF Run
  <1>3. \A s \in Strategies : Run(e) \in Applied(s) => Run(e)' \in Applied(s)'
    BY <1>2 DEF Grows, LedgersGrow
  <1>4. \A s \in Strategies :
            Shows(work[e].aggregate[s], Run(e)) => Shows(work'[e].aggregate[s], Run(e))
    BY DEF Shows
  <1>5. HasPublished(work[e], Run(e)) => HasPublished(work[e], Run(e))'
    BY <1>2 DEF HasPublished, Grows, PublishedGrow
  <1> QED BY <1>1, <1>2, <1>3, <1>4, <1>5 DEF Knows, Grows, AgentsGrow

-----------------------------------------------------------------------------
(* The execution that moves.                                                 *)

\* InOrder after the step.
InOrderThen(keys) == \A q \in keys : q[2] > 1 => <<q[1], q[2] - 1>> \in Completed'

\* A stage before trading, or after giving up, needs to know the earlier dates only.
LEMMA KnowsDates ==
    ASSUME NEW e \in Executions,
           work'[e].stage \notin AfterTrading \cup {"load", "apply", "sync", "finish"},
           work'[e].stage \in BeforeTrading => work'[e].strategy = 1,
           \A d \in Dates : d < work'[e].date => <<e[1], d>> \in Completed',
           \A s \in Strategies : InOrderThen(work'[e].aggregate[s])
    PROVE  Knows(e)'
  BY DEF InOrderThen, InOrder, Knows, AfterTrading, AfterCollecting, BeforeTrading, HasPublished

\* What the moving execution knew before.
LEMMA KnewBefore ==
    ASSUME InductiveInvariant, Grows, NEW e \in Executions
    PROVE  /\ TypeOK /\ Knows(e) /\ Run(e) \in PaperRuns /\ work[e] \in Work
           /\ \A d \in Dates : d < work[e].date => <<e[1], d>> \in Completed'
           /\ \A s \in Strategies : InOrderThen(work[e].aggregate[s])
           /\ \A s \in Strategies : InOrderThen(NothingTraded[s])
  <1>1. TypeOK /\ Knows(e) /\ Run(e) \in PaperRuns /\ work[e] \in Work
    BY ValueTypes DEF InductiveInvariant
  <1>2. \A d \in Dates : d < work[e].date => <<e[1], d>> \in Completed'
    BY <1>1, CompletedGrows DEF Knows, Grows
  <1>3. \A s \in Strategies : InOrder(work[e].aggregate[s])
    BY <1>1 DEF Knows
  <1>4. \A s \in Strategies : InOrderThen(work[e].aggregate[s])
    <2> TAKE s \in Strategies
    <2>1. InOrder(work[e].aggregate[s])
      BY <1>3
    <2>2. Completed \subseteq Completed'
      BY CompletedGrows DEF Grows
    <2> QED BY <2>1, <2>2 DEF InOrder, InOrderThen
  <1>5. \A s \in Strategies : InOrderThen(NothingTraded[s])
    BY DEF NothingTraded, InOrderThen
  <1> QED BY <1>1, <1>2, <1>4, <1>5

\* What an execution knows when it leaves its run for the next date, or for its end.
LEMMA KnowsNextDate ==
    ASSUME InductiveInvariant, Grows, NEW e \in Executions, NextDate(e),
           Run(e) \in Completed'
    PROVE  Knows(e)'
  <1>1. work[e] \in Work /\ work[e].date \in Dates /\ e[1] \in Jobs
    BY KnewBefore, ValueTypes DEF Work
  <1>2. \A d \in Dates : d <= work[e].date => <<e[1], d>> \in Completed'
    <2> TAKE d \in Dates
    <2>1. d <= work[e].date => d < work[e].date \/ d = work[e].date
      BY <1>1 DEF Dates
    <2> QED BY <2>1, KnewBefore DEF Run
  <1>3. work'[e].strategy = 1 /\ work'[e].aggregate = NothingTraded
    BY KnewBefore, NextDateMoves
  <1>4. CASE work'[e].stage = "enter" /\ work'[e].date = work[e].date + 1
    <2>1. \A d \in Dates : d < work'[e].date => <<e[1], d>> \in Completed'
      BY <1>1, <1>2, <1>4, Sizes
    <2> QED BY <1>3, <1>4, <2>1, KnewBefore, KnowsDates DEF AfterTrading
  <1>5. CASE work'[e].stage = "sync" /\ work'[e].date = NumDates /\ work[e].date = NumDates
    <2>1. Run(e)' = Run(e)
      BY <1>5 DEF Run
    <2>2. \A d \in Dates : d < work'[e].date => <<e[1], d>> \in Completed'
      BY <1>2, <1>5, Sizes
    <2>3. \A s \in Strategies : ~(s < 1)
      BY DEF Strategies
    <2>4. \A s \in Strategies : InOrderThen(work'[e].aggregate[s])
      BY <1>3, KnewBefore
    <2> QED
      BY <1>3, <1>5, <2>1, <2>2, <2>3, <2>4
         DEF Knows, AfterTrading, AfterCollecting, BeforeTrading, HasPublished, InOrder, InOrderThen
  <1> QED BY <1>4, <1>5, KnewBefore, NextDateMoves

LEMMA KnowsLeave ==
    ASSUME InductiveInvariant, Grows, NEW e \in Executions, Leave(e, "release", work[e].date)
    PROVE  Knows(e)'
  <1>1. work[e].date \in Dates /\ "release" \in Stages
    BY KnewBefore DEF Work, Stages
  <1>2. /\ work'[e].stage = "release" /\ work'[e].date = work[e].date
        /\ work'[e].aggregate = NothingTraded
    BY <1>1, KnewBefore, LeaveMoves
  <1> QED BY <1>2, KnewBefore, KnowsDates DEF AfterTrading, BeforeTrading

\* The trading and the collecting of a run.
LEMMA KnowsTrading ==
    ASSUME InductiveInvariant, Grows, NEW e \in Executions,
           BeginTrading(e) \/ Load(e) \/ Apply(e)
    PROVE  Knows(e)'
  <1> DEFINE w == work[e]
  <1>1. TypeOK /\ Knows(e) /\ Run(e) \in PaperRuns /\ w \in Work /\ w.strategy \in Strategies
    BY KnewBefore DEF Work
  <1>2. ASSUME NEW s \in Strategies, Run(e) \in Applied(s)
        PROVE  Run(e) \in Applied(s)'
    BY <1>2 DEF Grows, LedgersGrow
  <1>3. ASSUME work'[e].stage \in {"load", "apply", "collect"}, work'[e].date = w.date,
               work'[e].aggregate = w.aggregate,
               work'[e].stage = "collect" => work'[e].strategy = 1,
               \A s \in Strategies :
                   work'[e].stage = "collect" \/ s < work'[e].strategy => Run(e) \in Applied(s)'
        PROVE  Knows(e)'
    <2>1. Run(e)' = Run(e)
      BY <1>3 DEF Run
    <2>2. \A d \in Dates : d < work'[e].date => <<e[1], d>> \in Completed'
      BY <1>3, KnewBefore
    <2>3. \A s \in Strategies : InOrderThen(work'[e].aggregate[s])
      BY <1>3, KnewBefore
    <2>4. \A s \in Strategies : ~(s < 1)
      BY DEF Strategies
    <2> QED
      BY <1>3, <2>1, <2>2, <2>3, <2>4
         DEF Knows, AfterTrading, AfterCollecting, BeforeTrading, HasPublished, InOrder, InOrderThen
  <1>4. CASE BeginTrading(e)
    <2>1. "load" \in Stages /\ w.stage = "trade" /\ GoTo(e, "load")
      BY <1>4 DEF BeginTrading, At, Stages
    <2>2. w.strategy = 1
      BY <1>1, <2>1 DEF Knows, BeforeTrading
    <2>3. /\ work'[e].stage = "load" /\ work'[e].date = w.date /\ work'[e].strategy = 1
          /\ work'[e].aggregate = w.aggregate
      BY <1>1, <2>1, <2>2, GoToMoves
    <2>4. \A s \in Strategies : ~(s < 1)
      BY DEF Strategies
    <2> HIDE DEF w
    <2> QED BY <1>3, <2>3, <2>4
  <1>5. CASE Load(e)
    <2>1. w.stage = "load"
      BY <1>5 DEF Load, At
    <2>2. \A s \in Strategies : s < w.strategy => Run(e) \in Applied(s)
      BY <1>1, <2>1 DEF Knows
    <2>3. /\ work'[e].stage = "apply" /\ work'[e].date = w.date
          /\ work'[e].strategy = w.strategy /\ work'[e].aggregate = w.aggregate
      BY <1>1, <1>5, LoadMoves
    <2> HIDE DEF w
    <2> QED BY <1>2, <1>3, <2>2, <2>3
  <1>6. CASE Apply(e)
    <2>1. w.stage = "apply" /\ NextStrategy(e)
      BY <1>6 DEF Apply, At
    <2>2. \A s \in Strategies : s < w.strategy => Run(e) \in Applied(s)
      BY <1>1, <2>1 DEF Knows
    <2>3. \A s \in Strategies : s = w.strategy => Run(e) \in Applied(s)'
      BY <1>1, <1>6, ApplyEffect
    <2>4. \A s \in Strategies : s <= w.strategy => Run(e) \in Applied(s)'
      <3> TAKE s \in Strategies
      <3>1. s <= w.strategy => s < w.strategy \/ s = w.strategy
        <4> HIDE DEF w
        <4> QED BY <1>1 DEF Strategies
      <3> QED BY <1>2, <2>2, <2>3, <3>1
    <2>5. CASE /\ w.strategy < NumStrategies /\ work'[e].stage = "load"
               /\ work'[e].strategy = w.strategy + 1
      <3>1. \A s \in Strategies : s < work'[e].strategy => s <= w.strategy
        <4> HIDE DEF w
        <4> QED BY <1>1, <2>5 DEF Strategies
      <3>2. work'[e].date = w.date /\ work'[e].aggregate = w.aggregate
        BY <1>1, <2>1, NextStrategyMoves
      <3> HIDE DEF w
      <3> QED BY <1>3, <2>4, <2>5, <3>1, <3>2
    <2>6. CASE /\ w.strategy = NumStrategies /\ work'[e].stage = "collect"
               /\ work'[e].strategy = 1
      <3>1. \A s \in Strategies : s <= w.strategy
        BY <2>6, SizesAssumption DEF Strategies
      <3>2. work'[e].date = w.date /\ work'[e].aggregate = w.aggregate
        BY <1>1, <2>1, NextStrategyMoves
      <3> HIDE DEF w
      <3> QED BY <1>3, <2>4, <2>6, <3>1, <3>2
    <2> QED BY <1>1, <2>1, <2>5, <2>6, NextStrategyMoves
  <1> QED BY <1>4, <1>5, <1>6

LEMMA KnowsCollecting ==
    ASSUME InductiveInvariant, Grows, NEW e \in Executions, Collect(e)
    PROVE  Knows(e)'
  <1> DEFINE w == work[e]
  <1>1. /\ TypeOK /\ Knows(e) /\ Run(e) \in PaperRuns /\ w \in Work
        /\ w.strategy \in Strategies /\ w.stage = "collect" /\ w.date \in Dates
    BY KnewBefore DEF Work, Collect, At
  <1>2. Run(e)' = Run(e) /\ work'[e].date = w.date
    BY <1>1, CollectMoves DEF Run
  <1>3. \A d \in Dates : d < work'[e].date => <<e[1], d>> \in Completed'
    BY <1>2, KnewBefore
  <1>4. \A s \in Strategies : Run(e) \in Applied(s) /\ Run(e) \in Applied(s)'
    BY <1>1 DEF Knows, AfterTrading, Grows, LedgersGrow
  <1>5. \A s \in Strategies : Shows(Applied(s), Run(e))
    <2> SUFFICES ASSUME NEW s \in Strategies, NEW d \in 1 .. Run(e)[2]
                 PROVE  <<Run(e)[1], d>> \in Applied(s)
      BY DEF Shows
    <2>1. Run(e)[1] = e[1] /\ Run(e)[2] = w.date
      BY <1>1, ValueTypes
    <2>2. d \in Dates /\ (d < w.date \/ d = w.date)
      BY <1>1, <2>1, Sizes DEF Dates
    <2>3. CASE d < w.date
      <3>1. <<e[1], d>> \in Completed
        BY <1>1, <2>2, <2>3 DEF Knows
      <3> QED BY <2>1, <3>1 DEF InductiveInvariant, RunsCompleteInOrder
    <2>4. CASE d = w.date
      BY <1>4, <2>1, <2>4 DEF Run
    <2> QED BY <2>2, <2>3, <2>4
  <1>6. \A s \in Strategies : work'[e].aggregate[s] =
            IF s = w.strategy THEN Applied(s) ELSE w.aggregate[s]
    BY <1>1, CollectMoves
  <1>7. \A s \in Strategies : InOrderThen(work'[e].aggregate[s])
    <2> TAKE s \in Strategies
    <2>1. InOrder(Applied(s))
      BY DEF InductiveInvariant, DatesTradeInOrder
    <2>2. InOrderThen(Applied(s))
      BY <2>1, CompletedGrows DEF InOrder, InOrderThen, Grows
    <2> QED BY <1>6, <2>2, KnewBefore
  <1>8. \A s \in Strategies : s <= w.strategy => Shows(work'[e].aggregate[s], Run(e))
    <2> TAKE s \in Strategies
    <2>1. s < w.strategy => Shows(w.aggregate[s], Run(e))
      BY <1>1 DEF Knows
    <2>2. s <= w.strategy => s < w.strategy \/ s = w.strategy
      BY <1>1, Sizes
    <2> QED BY <1>5, <1>6, <2>1, <2>2
  <1>9. \A s \in Strategies : s <= w.strategy => Shows(work[e].aggregate[s], Run(e))'
    BY <1>2, <1>8 DEF Shows
  <1>10. CASE /\ w.strategy < NumStrategies /\ work'[e].stage = "collect"
              /\ work'[e].strategy = w.strategy + 1
    <2>1. \A s \in Strategies : s < work'[e].strategy => s <= w.strategy
      <3> HIDE DEF w
      <3> QED BY <1>1, <1>10 DEF Strategies
    <2> QED
      BY <1>2, <1>3, <1>4, <1>7, <1>9, <1>10, <2>1
         DEF Knows, AfterTrading, AfterCollecting, BeforeTrading, HasPublished, InOrder, InOrderThen
  <1>11. CASE w.strategy = NumStrategies /\ work'[e].stage = "upload" /\ work'[e].strategy = 1
    <2>1. \A s \in Strategies : s <= w.strategy
      BY <1>11, SizesAssumption DEF Strategies
    <2> QED
      BY <1>2, <1>3, <1>4, <1>7, <1>9, <1>11, <2>1
         DEF Knows, AfterTrading, AfterCollecting, BeforeTrading, HasPublished, InOrder, InOrderThen
  <1> QED BY <1>1, <1>10, <1>11, CollectMoves

\* The publication of a run, which leaves the aggregate alone.
LEMMA KnowsPublishing ==
    ASSUME InductiveInvariant, Grows, NEW e \in Executions,
           \/ Publish(e, "upload", "record")
           \/ Publish(e, "record", "save")
           \/ Publish(e, "save", "complete")
    PROVE  Knows(e)'
  <1> DEFINE w == work[e]
  <1>1. TypeOK /\ Knows(e) /\ Run(e) \in PaperRuns
    BY KnewBefore
  <1>2. ASSUME NEW stage \in {"upload", "record", "save"},
               NEW next \in {"record", "save", "complete"}, Publish(e, stage, next)
        PROVE  /\ w.stage = stage
               /\ work'[e].stage = next /\ work'[e].date = w.date
               /\ work'[e].aggregate = w.aggregate
               /\ Run(e)' = Run(e)
               /\ stage \in published'[Run(e)]
    <2>1. next \in Stages
      BY DEF Stages
    <2>2. w.stage = stage /\ GoTo(e, next)
      BY <1>2 DEF Publish, At
    <2>3. /\ work'[e].stage = next /\ work'[e].date = w.date
          /\ work'[e].aggregate = w.aggregate
      BY <1>1, <2>1, <2>2, GoToMoves
    <2>4. stage \in published'[Run(e)]
      BY <1>1, <1>2 DEF Publish, TypeOK
    <2> QED BY <2>2, <2>3, <2>4 DEF Run
  <1>3. /\ w.stage \in {"upload", "record", "save"}
        /\ work'[e].stage \in {"record", "save", "complete"}
        /\ work'[e].date = w.date /\ work'[e].aggregate = w.aggregate
        /\ Run(e)' = Run(e)
    BY <1>2
  <1>4. HasPublished(work[e], Run(e))'
    <2>1. HasPublished(w, Run(e)) /\ published[Run(e)] \subseteq published'[Run(e)]
      BY <1>1 DEF Knows, Grows, PublishedGrow
    <2>2. CASE Publish(e, "upload", "record")
      BY <1>2, <2>2 DEF HasPublished
    <2>3. CASE Publish(e, "record", "save")
      BY <1>2, <2>1, <2>3 DEF HasPublished
    <2>4. CASE Publish(e, "save", "complete")
      BY <1>2, <2>1, <2>4 DEF HasPublished
    <2> QED BY <2>2, <2>3, <2>4
  <1>5. \A d \in Dates : d < work'[e].date => <<e[1], d>> \in Completed'
    BY <1>3, KnewBefore
  <1>6. \A s \in Strategies : InOrderThen(work'[e].aggregate[s])
    BY <1>3, KnewBefore
  <1>7. \A s \in Strategies : Run(e) \in Applied(s)'
    BY <1>1, <1>3 DEF Knows, AfterTrading, Grows, LedgersGrow
  <1>8. \A s \in Strategies : Shows(work[e].aggregate[s], Run(e))'
    BY <1>1, <1>3 DEF Knows, AfterCollecting, Shows
  <1> QED
    BY <1>3, <1>4, <1>5, <1>6, <1>7, <1>8
       DEF Knows, AfterTrading, AfterCollecting, BeforeTrading, InOrder, InOrderThen

\* The synchronisation of the agents.
LEMMA KnowsSyncing ==
    ASSUME InductiveInvariant, Grows, NEW e \in Executions, Sync(e)
    PROVE  Knows(e)'
  <1> DEFINE w == work[e]
  <1>1. /\ TypeOK /\ Knows(e) /\ Run(e) \in PaperRuns /\ w \in Work
        /\ w.strategy \in Strategies /\ w.stage = "sync"
    BY KnewBefore DEF Work, Sync, At
  <1>2. w.date = NumDates /\ Run(e) \in Completed'
    BY <1>1, CompletedGrows DEF Knows, Grows
  <1>3. \A s \in Strategies : s <= w.strategy => agents'[s] # NoRun
    <2> TAKE s \in Strategies
    <2>1. CASE s = w.strategy
      BY <1>1, <2>1, SyncEffect, RunsAreSomething
    <2>2. CASE s < w.strategy
      BY <1>1, <2>2 DEF Knows, Grows, AgentsGrow
    <2>3. s <= w.strategy => s = w.strategy \/ s < w.strategy
      <3> HIDE DEF w
      <3> QED BY <1>1 DEF Strategies
    <2> QED BY <2>1, <2>2, <2>3
  <1>4. CASE /\ w.strategy < NumStrategies /\ work'[e].stage = "sync"
             /\ work'[e].date = w.date /\ work'[e].strategy = w.strategy + 1
             /\ work'[e].aggregate = w.aggregate
    <2>1. Run(e)' = Run(e)
      BY <1>4 DEF Run
    <2>2. \A d \in Dates : d < work'[e].date => <<e[1], d>> \in Completed'
      BY <1>4, KnewBefore
    <2>3. \A s \in Strategies : s < work'[e].strategy => agents'[s] # NoRun
      <3>1. \A s \in Strategies : s < work'[e].strategy => s <= w.strategy
        <4> HIDE DEF w
        <4> QED BY <1>1, <1>4 DEF Strategies
      <3> QED BY <1>3, <3>1
    <2>4. \A s \in Strategies : InOrderThen(work'[e].aggregate[s])
      BY <1>4, KnewBefore
    <2> QED
      BY <1>2, <1>4, <2>1, <2>2, <2>3, <2>4
         DEF Knows, AfterTrading, AfterCollecting, BeforeTrading, HasPublished, InOrder, InOrderThen
  <1>5. CASE w.strategy = NumStrategies /\ Leave(e, "finish", NumDates)
    <2>1. /\ work'[e].stage = "finish" /\ work'[e].date = NumDates
          /\ work'[e].aggregate = NothingTraded
      BY <1>1, <1>5, Sizes, LeaveMoves DEF Stages
    <2>2. Run(e)' = Run(e)
      BY <1>2, <2>1 DEF Run
    <2>3. \A d \in Dates : d < work'[e].date => <<e[1], d>> \in Completed'
      BY <1>2, <2>1, KnewBefore
    <2>4. \A s \in Strategies : agents'[s] # NoRun
      BY <1>3, <1>5, SizesAssumption DEF Strategies
    <2>5. \A s \in Strategies : InOrderThen(work'[e].aggregate[s])
      BY <2>1, KnewBefore
    <2> QED
      BY <1>2, <2>1, <2>2, <2>3, <2>4, <2>5
         DEF Knows, AfterTrading, AfterCollecting, BeforeTrading, HasPublished, InOrder, InOrderThen
  <1> QED BY <1>1, <1>4, <1>5, SyncEffect

\* An execution that moves only goes to another stage before trading, or after it gave up.
LEMMA KnowsGoTo ==
    ASSUME InductiveInvariant, Grows, NEW e \in Executions,
           NEW stage \in {"begin", "enter", "fail", "ended"}, GoTo(e, stage),
           stage \in BeforeTrading => work[e].stage \in BeforeTrading
    PROVE  Knows(e)'
  <1>1. TypeOK /\ Knows(e) /\ stage \in Stages
    BY KnewBefore DEF Stages
  <1>2. /\ work'[e].stage = stage /\ work'[e].date = work[e].date
        /\ work'[e].strategy = work[e].strategy /\ work'[e].aggregate = work[e].aggregate
    BY <1>1, GoToMoves
  <1>3. stage \in BeforeTrading => work'[e].strategy = 1
    BY <1>1, <1>2 DEF Knows
  <1>4. work'[e].stage \notin AfterTrading \cup {"load", "apply", "sync", "finish"}
    BY <1>2 DEF AfterTrading
  <1> QED BY <1>2, <1>3, <1>4, KnewBefore, KnowsDates

\* The run's own transitions.
LEMMA KnowsRun ==
    ASSUME InductiveInvariant, Grows, NEW e \in Executions,
           Enter(e) \/ Resume(e) \/ Complete(e) \/ Fail(e)
    PROVE  Knows(e)'
  <1>1. TypeOK /\ Knows(e) /\ Run(e) \in PaperRuns
    BY KnewBefore
  <1>2. ASSUME work'[e].stage \in {"resume", "trade"}, work[e].stage \in BeforeTrading,
               work'[e].date = work[e].date, work'[e].strategy = work[e].strategy,
               work'[e].aggregate = work[e].aggregate
        PROVE  Knows(e)'
    <2>1. work'[e].strategy = 1
      BY <1>1, <1>2 DEF Knows
    <2> QED BY <1>2, <2>1, KnewBefore, KnowsDates DEF AfterTrading
  <1>3. CASE Enter(e)
    <2>1. work[e].stage \in BeforeTrading
      BY <1>3 DEF Enter, At, BeforeTrading
    <2>2. CASE runs[Run(e)].status = "completed" /\ NextDate(e)
      <3>1. Run(e) \in Completed /\ Completed \subseteq Completed'
        BY <1>1, <2>2, CompletedGrows DEF Completed, Grows
      <3> QED BY <2>2, <3>1, KnowsNextDate
    <2> QED BY <1>1, <1>2, <1>3, <2>1, <2>2, EnterEffect
  <1>4. CASE Resume(e)
    <2>1. work[e].stage \in BeforeTrading
      BY <1>4 DEF Resume, At, BeforeTrading
    <2> QED BY <1>1, <1>2, <1>4, <2>1, ResumeEffect, KnowsLeave
  <1>5. CASE Complete(e)
    <2>1. CASE NextDate(e) /\ runs'[Run(e)].status = "completed"
      <3>1. Run(e) \in Completed'
        BY <1>1, <2>1 DEF Completed
      <3> QED BY <2>1, <3>1, KnowsNextDate
    <2>2. CASE GoTo(e, "fail")
      BY <2>2, KnowsGoTo DEF BeforeTrading
    <2> QED BY <1>1, <1>5, <2>1, <2>2, CompleteEffect
  <1>6. CASE Fail(e)
    BY <1>1, <1>6, FailEffect, KnowsLeave
  <1> QED BY <1>3, <1>4, <1>5, <1>6

LEMMA KnowsEnd ==
    ASSUME InductiveInvariant, Grows, NEW e \in Executions,
           \/ Guard(e) \/ Raise(e) \/ Abort(e) \/ Crash(e)
    PROVE  Knows(e)'
  <1>1. TypeOK /\ Knows(e) /\ Run(e) \in PaperRuns /\ work[e].date \in Dates
    BY KnewBefore DEF Work
  <1>2. CASE Guard(e)
    <2>1. /\ work'[e].stage \in {work[e].stage, "ended"} /\ work'[e].date = work[e].date
          /\ work'[e].strategy = work[e].strategy /\ work'[e].aggregate = work[e].aggregate
      BY <1>1, <1>2, GuardMoves
    <2>2. CASE work'[e].stage = "ended"
      BY <2>1, <2>2, KnewBefore, KnowsDates DEF AfterTrading, BeforeTrading
    <2> QED BY <1>1, <2>1, <2>2, KnowledgeStays
  <1>3. CASE Raise(e)
    <2>1. /\ work'[e].stage = "fail" /\ work'[e].date = work[e].date
          /\ work'[e].aggregate = NothingTraded
      BY <1>1, <1>3, RaiseMoves
    <2> QED BY <2>1, KnewBefore, KnowsDates DEF AfterTrading, BeforeTrading
  <1>4. CASE Abort(e)
    BY <1>4, KnowsLeave DEF Abort
  <1>5. CASE Crash(e)
    <2>1. "ended" \in Stages
      BY DEF Stages
    <2>2. /\ work'[e].stage = "ended" /\ work'[e].date = work[e].date
          /\ work'[e].aggregate = NothingTraded
      BY <1>1, <1>5, <2>1, LeaveMoves DEF Crash
    <2> QED BY <2>2, KnewBefore, KnowsDates DEF AfterTrading, BeforeTrading
  <1> QED BY <1>2, <1>3, <1>4, <1>5

LEMMA KnowsHandover ==
    ASSUME InductiveInvariant, Grows, NEW e \in Executions,
           Claim(e) \/ Begin(e) \/ Finish(e) \/ Release(e)
    PROVE  Knows(e)'
  <1>1. CASE Claim(e)
    <2>1. GoTo(e, "begin") /\ work[e].stage \in BeforeTrading
      BY <1>1 DEF Claim, At, BeforeTrading
    <2> QED BY <2>1, KnowsGoTo
  <1>2. CASE Begin(e)
    <2>1. GoTo(e, "enter") /\ work[e].stage \in BeforeTrading
      BY <1>2 DEF Begin, At, BeforeTrading
    <2> QED BY <2>1, KnowsGoTo
  <1>3. CASE Finish(e)
    <2>1. GoTo(e, "ended") /\ "ended" \notin BeforeTrading
      BY <1>3 DEF Finish, BeforeTrading
    <2> QED BY <2>1, KnowsGoTo
  <1>4. CASE Release(e)
    <2>1. GoTo(e, "ended") /\ "ended" \notin BeforeTrading
      BY <1>4 DEF Release, BeforeTrading
    <2> QED BY <2>1, KnowsGoTo
  <1> QED BY <1>1, <1>2, <1>3, <1>4

\* Only one execution moves, and it knows what its next stage needs.
LEMMA KnowsStep ==
    ASSUME InductiveInvariant, Grows, [Next]_vars
    PROVE  \A e \in Executions : Knows(e)'
  <1>1. TypeOK /\ \A e \in Executions : Knows(e) /\ Run(e) \in PaperRuns
    BY KnewBefore DEF InductiveInvariant
  <1>2. ASSUME NEW e \in Executions, Knows(e)', \A f \in Executions : f # e => work'[f] = work[f]
        PROVE  \A f \in Executions : Knows(f)'
    <2> SUFFICES ASSUME NEW f \in Executions, f # e PROVE Knows(f)'
      BY <1>2
    <2>1. work'[f] = work[f]
      BY <1>2
    <2> QED BY <1>1, <2>1, KnowledgeStays
  <1>3. ASSUME work' = work
        PROVE  \A f \in Executions : Knows(f)'
    BY <1>1, <1>3, KnowledgeStays
  <1>4. ASSUME NEW e \in Executions, BeginTrading(e) \/ Load(e) \/ Apply(e)
        PROVE  \A f \in Executions : Knows(f)'
    <2>1. Knows(e)'
      BY <1>4, KnowsTrading
    <2>2. "load" \in Stages
      BY DEF Stages
    <2>3. \A f \in Executions : f # e => work'[f] = work[f]
      BY <1>1, <1>4, <2>2, GoToMoves, LoadMoves, NextStrategyMoves DEF BeginTrading, Apply
    <2> QED BY <1>2, <2>1, <2>3
  <1>5. ASSUME NEW e \in Executions, Collect(e)
        PROVE  \A f \in Executions : Knows(f)'
    BY <1>1, <1>2, <1>5, KnowsCollecting, CollectMoves
  <1>6. ASSUME NEW e \in Executions,
               \/ Publish(e, "upload", "record")
               \/ Publish(e, "record", "save")
               \/ Publish(e, "save", "complete")
        PROVE  \A f \in Executions : Knows(f)'
    <2>1. Knows(e)'
      BY <1>6, KnowsPublishing
    <2>2. {"record", "save", "complete"} \subseteq Stages
      BY DEF Stages
    <2>3. \A f \in Executions : f # e => work'[f] = work[f]
      BY <1>1, <1>6, <2>2, GoToMoves DEF Publish
    <2> QED BY <1>2, <2>1, <2>3
  <1>7. ASSUME NEW e \in Executions, Sync(e)
        PROVE  \A f \in Executions : Knows(f)'
    BY <1>1, <1>2, <1>7, KnowsSyncing, SyncEffect
  <1>8. ASSUME NEW e \in Executions, Enter(e) \/ Resume(e) \/ Complete(e) \/ Fail(e)
        PROVE  \A f \in Executions : Knows(f)'
    <2>1. Knows(e)'
      BY <1>8, KnowsRun
    <2>2. "release" \in Stages /\ work[e].date \in Dates
      BY KnewBefore DEF Stages, Work
    <2>3. \A f \in Executions : f # e => work'[f] = work[f]
      BY <1>1, <1>8, <2>2, EnterEffect, ResumeEffect, CompleteEffect, FailEffect, LeaveMoves
    <2> QED BY <1>2, <2>1, <2>3
  <1>9. ASSUME NEW e \in Executions, Guard(e) \/ Raise(e) \/ Abort(e) \/ Crash(e)
        PROVE  \A f \in Executions : Knows(f)'
    <2>1. Knows(e)'
      BY <1>9, KnowsEnd
    <2>2. "release" \in Stages /\ "ended" \in Stages /\ work[e].date \in Dates
      BY KnewBefore DEF Stages, Work
    <2>3. \A f \in Executions : f # e => work'[f] = work[f]
      BY <1>1, <1>9, <2>2, GuardMoves, RaiseMoves, LeaveMoves DEF Abort, Crash
    <2> QED BY <1>2, <2>1, <2>3
  <1>10. ASSUME NEW e \in Executions, Claim(e) \/ Begin(e) \/ Finish(e) \/ Release(e)
         PROVE  \A f \in Executions : Knows(f)'
    <2>1. Knows(e)'
      BY <1>10, KnowsHandover
    <2>2. {"begin", "enter", "ended"} \subseteq Stages
      BY DEF Stages
    <2>3. \A f \in Executions : f # e => work'[f] = work[f]
      BY <1>1, <1>10, <2>2, GoToMoves DEF Claim, Begin, Finish, Release
    <2> QED BY <1>2, <2>1, <2>3
  <1>11. ASSUME NEW j \in Jobs, ClaimIsLost(j)
         PROVE  \A f \in Executions : Knows(f)'
    BY <1>3, <1>11 DEF ClaimIsLost
  <1>12. ASSUME UNCHANGED vars
         PROVE  \A f \in Executions : Knows(f)'
    BY <1>3, <1>12 DEF vars
  <1> QED
    BY <1>4, <1>5, <1>6, <1>7, <1>8, <1>9, <1>10, <1>11, <1>12 DEF Next

-----------------------------------------------------------------------------
(* The tables.                                                               *)

\* A ledger looks the key of a run up under its lock before it trades it.
LEMMA OnceStep ==
    ASSUME TypeOK, RunsTradeOnce, [Next]_vars
    PROVE  RunsTradeOnce'
  <1>1. ASSUME NEW e \in Executions, Apply(e) PROVE RunsTradeOnce'
    <2> SUFFICES ASSUME NEW s \in Strategies,
                        NEW i \in 1 .. Len(ledgers'[s]), NEW k \in 1 .. Len(ledgers'[s]),
                        ledgers'[s][i] = ledgers'[s][k]
                 PROVE  i = k
      BY DEF RunsTradeOnce
    <2>1. ledgers[s] \in Seq(PaperRuns) /\ Run(e) \in PaperRuns
      BY ValueTypes DEF TypeOK
    <2>2. CASE ledgers'[s] = ledgers[s]
      BY <2>2 DEF RunsTradeOnce
    <2>3. CASE Run(e) \notin Applied(s) /\ ledgers'[s] = Append(ledgers[s], Run(e))
      <3>1. /\ Len(ledgers'[s]) = Len(ledgers[s]) + 1 /\ Len(ledgers[s]) \in Nat
            /\ \A n \in 1 .. Len(ledgers[s]) : ledgers'[s][n] = ledgers[s][n]
            /\ ledgers'[s][Len(ledgers[s]) + 1] = Run(e)
        BY <2>1, <2>3
      <3>2. \A n \in 1 .. Len(ledgers[s]) : ledgers[s][n] # Run(e)
        BY <2>3 DEF Applied
      <3>3. \A n \in 1 .. Len(ledgers'[s]) : n = Len(ledgers[s]) + 1 \/ n \in 1 .. Len(ledgers[s])
        BY <3>1
      <3>4. CASE i \in 1 .. Len(ledgers[s]) /\ k \in 1 .. Len(ledgers[s])
        BY <3>1, <3>4 DEF RunsTradeOnce
      <3>5. CASE i = Len(ledgers[s]) + 1 \/ k = Len(ledgers[s]) + 1
        BY <3>1, <3>2, <3>3, <3>5
      <3> QED BY <3>3, <3>4, <3>5
    <2> QED BY <1>1, <2>2, <2>3, ApplyEffect
  <1>2. ASSUME ledgers' = ledgers PROVE RunsTradeOnce'
    BY <1>2 DEF RunsTradeOnce
  <1> QED
    BY <1>1, <1>2, ZenonT(60)
       DEF Next, vars, tradingVars, ClaimIsLost, Claim, Guard, Begin, Enter, Resume,
           BeginTrading, Load, Collect, Publish, Complete, Raise, Abort, Fail, Sync,
           Finish, Release, Crash

\* An execution reaches a date when it found the dates before it completed.
LEMMA OrderStep ==
    ASSUME InductiveInvariant, Grows, [Next]_vars
    PROVE  DatesTradeInOrder'
  <1>1. \A keys : InOrder(keys) => InOrderThen(keys)
    BY CompletedGrows DEF Grows, InOrder, InOrderThen
  <1>2. ASSUME NEW e \in Executions, Apply(e) PROVE DatesTradeInOrder'
    <2> SUFFICES ASSUME NEW s \in Strategies, NEW q \in Applied(s)', q[2] > 1
                 PROVE  <<q[1], q[2] - 1>> \in Completed'
      BY DEF DatesTradeInOrder, InOrder
    <2>1. CASE q \in Applied(s)
      BY <1>1, <2>1 DEF InductiveInvariant, DatesTradeInOrder, InOrderThen
    <2>2. CASE q = Run(e)
      <3>1. q[1] = e[1] /\ q[2] = work[e].date /\ work[e].date \in Dates
        BY <2>2, ValueTypes DEF InductiveInvariant, Work
      <3>2. q[2] - 1 \in Dates /\ q[2] - 1 < work[e].date
        BY <3>1, SizesAssumption DEF Dates
      <3> QED BY <3>1, <3>2, KnewBefore
    <2>3. TypeOK
      BY DEF InductiveInvariant
    <2>4. Applied(s)' = Applied(s) \/ Applied(s)' = Applied(s) \cup {Run(e)}
      BY <1>2, <2>3, ApplyEffect
    <2> QED BY <2>1, <2>2, <2>4
  <1>3. ASSUME ledgers' = ledgers PROVE DatesTradeInOrder'
    BY <1>1, <1>3 DEF InductiveInvariant, DatesTradeInOrder, Applied, InOrder, InOrderThen
  <1> QED
    BY <1>2, <1>3, ZenonT(60)
       DEF Next, vars, tradingVars, ClaimIsLost, Claim, Guard, Begin, Enter, Resume,
           BeginTrading, Load, Collect, Publish, Complete, Raise, Abort, Fail, Sync,
           Finish, Release, Crash

\* A run is completed by an execution that traded it in every ledger, and found the
\* dates before it completed.
LEMMA CompletionStep ==
    ASSUME InductiveInvariant, Grows, [Next]_vars,
           NEW r \in PaperRuns, r \in Completed', r \notin Completed
    PROVE  \E e \in Executions :
               /\ Complete(e) /\ Knows(e) /\ work[e].stage = "complete" /\ r = Run(e)
               /\ runs'[r].aggregate = work[e].aggregate
  <1> USE DEF InductiveInvariant
  <1>1. runs'[r].status = "completed" /\ runs[r].status # "completed"
    BY DEF Completed
  <1>2. ASSUME NEW e \in Executions, Complete(e)
        PROVE  /\ Knows(e) /\ work[e].stage = "complete" /\ r = Run(e)
               /\ runs'[r].aggregate = work[e].aggregate
    BY <1>1, <1>2, CompleteEffect DEF Complete, At
  <1>3. ASSUME NEW e \in Executions, Enter(e) \/ Resume(e) \/ Fail(e)
        PROVE  FALSE
    BY <1>1, <1>3, EnterEffect, ResumeEffect, FailEffect
  <1>4. runs' # runs
    BY <1>1
  <1> HIDE DEF InductiveInvariant
  <1> QED
    BY <1>2, <1>3, <1>4, ZenonT(60)
       DEF Next, vars, tradingVars, ClaimIsLost, Claim, Guard, Begin, BeginTrading, Load,
           Apply, Collect, Publish, Raise, Abort, Sync, Finish, Release, Crash

LEMMA CompletionOrderStep ==
    ASSUME InductiveInvariant, Grows, [Next]_vars
    PROVE  RunsCompleteInOrder'
  <1> SUFFICES ASSUME NEW r \in Completed'
               PROVE  /\ \A d \in Dates : d < r[2] => <<r[1], d>> \in Completed'
                      /\ \A s \in Strategies : r \in Applied(s)'
    BY DEF RunsCompleteInOrder
  <1>1. r \in PaperRuns /\ Completed \subseteq Completed'
    BY CompletedGrows DEF Completed, Grows
  <1>2. CASE r \in Completed
    BY <1>1, <1>2 DEF InductiveInvariant, RunsCompleteInOrder, Grows, LedgersGrow
  <1>3. CASE r \notin Completed
    <2>1. PICK e \in Executions : /\ Knows(e) /\ work[e].stage = "complete" /\ r = Run(e)
      BY <1>1, <1>3, CompletionStep
    <2>2. r[1] = e[1] /\ r[2] = work[e].date
      BY <2>1, ValueTypes DEF InductiveInvariant
    <2>3. \A s \in Strategies : r \in Applied(s)
      BY <2>1 DEF Knows, AfterTrading
    <2> QED BY <2>2, <2>3, KnewBefore DEF Grows, LedgersGrow
  <1> QED BY <1>2, <1>3

LEMMA AggregatesStep ==
    ASSUME InductiveInvariant, Grows, [Next]_vars
    PROVE  AggregatesMatchRuns'
  <1> SUFFICES ASSUME NEW r \in Completed'
               PROVE  /\ published'[r] = {"upload", "record", "save"}
                      /\ \A s \in Strategies :
                             /\ Shows(runs'[r].aggregate[s], r)
                             /\ \A q \in runs'[r].aggregate[s] : q[1] = r[1] => q[2] <= r[2]
    BY DEF AggregatesMatchRuns, Shows
  <1>1. r \in PaperRuns /\ TypeOK /\ TypeOK'
    BY TypeStep DEF Completed, InductiveInvariant
  <1>2. published[r] \subseteq published'[r] /\ published'[r] \subseteq {"upload", "record", "save"}
    BY <1>1 DEF Grows, PublishedGrow, TypeOK
  <1>3. CASE r \in Completed
    <2>1. runs'[r] = runs[r]
      BY <1>1, <1>3 DEF Grows, RunsGrow
    <2> QED BY <1>2, <1>3, <2>1 DEF InductiveInvariant, AggregatesMatchRuns
  <1>4. CASE r \notin Completed
    <2>1. PICK e \in Executions :
               /\ Knows(e) /\ work[e].stage = "complete" /\ r = Run(e)
               /\ runs'[r].aggregate = work[e].aggregate
      BY <1>1, <1>4, CompletionStep
    <2>2. published'[r] = {"upload", "record", "save"}
      BY <1>2, <2>1 DEF Knows, HasPublished
    <2>3. \A s \in Strategies : Shows(work[e].aggregate[s], r) /\ InOrder(work[e].aggregate[s])
      BY <2>1 DEF Knows, AfterCollecting
    <2>4. ASSUME NEW s \in Strategies, NEW q \in work[e].aggregate[s], q[1] = r[1]
          PROVE  q[2] <= r[2]
      <3>1. q \in PaperRuns /\ r \in PaperRuns
        BY <1>1, <2>4 DEF TypeOK, Work
      <3>2. q[2] \in Dates /\ r[2] \in Dates /\ r = <<r[1], r[2]>>
        BY <3>1 DEF PaperRuns
      <3>3. SUFFICES ASSUME ~(q[2] <= r[2]) PROVE FALSE
        OBVIOUS
      <3>4. q[2] > 1 /\ q[2] - 1 \in Dates /\ r[2] <= q[2] - 1
        BY <3>2, <3>3, SizesAssumption DEF Dates
      <3>5. <<r[1], q[2] - 1>> \in Completed
        BY <2>3, <2>4, <3>4 DEF InOrder
      <3>6. CASE r[2] = q[2] - 1
        BY <1>4, <3>2, <3>5, <3>6
      <3>7. CASE r[2] < q[2] - 1
        <4>1. \A p \in Completed : \A d \in Dates : d < p[2] => <<p[1], d>> \in Completed
          BY DEF InductiveInvariant, RunsCompleteInOrder
        <4>2. <<r[1], r[2]>> \in Completed
          BY <3>2, <3>5, <3>7, <4>1
        <4> QED BY <1>4, <3>2, <4>2
      <3>8. r[2] = q[2] - 1 \/ r[2] < q[2] - 1
        BY <3>2, <3>4 DEF Dates
      <3> QED BY <3>6, <3>7, <3>8
    <2> QED BY <2>1, <2>2, <2>3, <2>4
  <1> QED BY <1>3, <1>4

LEMMA AgentsStep ==
    ASSUME InductiveInvariant, Grows, [Next]_vars
    PROVE  AgentsShowCompletedRuns'
  <1> SUFFICES ASSUME NEW s \in Strategies, agents'[s] # NoRun
               PROVE  ShowsLastDate(s)'
    BY DEF AgentsShowCompletedRuns
  <1>1. Completed \subseteq Completed'
    BY CompletedGrows DEF Grows
  <1>2. CASE agents'[s] = agents[s]
    BY <1>1, <1>2 DEF InductiveInvariant, AgentsShowCompletedRuns, ShowsLastDate
  <1>3. ASSUME NEW e \in Executions, Sync(e)
        PROVE  ShowsLastDate(s)'
    <2>1. Knows(e) /\ TypeOK /\ work[e].stage = "sync"
      BY <1>3 DEF InductiveInvariant, Sync, At
    <2>2. Run(e) \in Completed /\ Run(e)[2] = NumDates
      BY <2>1 DEF Knows, Run
    <2>3. agents'[s] = Run(e) \/ agents'[s] = agents[s]
      BY <1>3, <2>1, SyncEffect
    <2> QED BY <1>1, <1>2, <2>2, <2>3 DEF ShowsLastDate
  <1> QED
    BY <1>2, <1>3, ZenonT(60)
       DEF Next, vars, tradingVars, ClaimIsLost, Claim, Guard, Begin, Enter, Resume,
           BeginTrading, Load, Apply, Collect, Publish, Complete, Raise, Abort, Fail,
           Finish, Release, Crash

\* An execution finishes its job when it found all its dates completed.
LEMMA JobsStep ==
    ASSUME InductiveInvariant, Grows, [Next]_vars
    PROVE  CompletedJobsAreWhole'
  <1> SUFFICES ASSUME NEW j \in done'
               PROVE  /\ \A d \in Dates : <<j, d>> \in Completed'
                      /\ \A s \in Strategies : agents'[s] # NoRun /\ ShowsLastDate(s)'
    BY DEF CompletedJobsAreWhole
  <1>1. Completed \subseteq Completed'
    BY CompletedGrows DEF Grows
  <1>2. \A s \in Strategies : agents[s] # NoRun => agents'[s] # NoRun /\ ShowsLastDate(s)'
    BY AgentsStep DEF Grows, AgentsGrow, AgentsShowCompletedRuns
  <1>3. CASE j \in done
    BY <1>1, <1>2, <1>3 DEF InductiveInvariant, CompletedJobsAreWhole
  <1>4. ASSUME NEW e \in Executions, Finish(e), j \notin done
        PROVE  /\ \A d \in Dates : <<j, d>> \in Completed
               /\ \A s \in Strategies : agents[s] # NoRun
    <2>1. Knows(e) /\ work[e].stage = "finish"
      BY <1>4 DEF InductiveInvariant, Finish, At
    <2>2. j = e[1]
      BY <1>4 DEF Finish
    <2>3. /\ \A d \in Dates : d < work[e].date => <<e[1], d>> \in Completed
          /\ work[e].date = NumDates /\ <<e[1], work[e].date>> \in Completed
          /\ \A s \in Strategies : agents[s] # NoRun
      BY <2>1 DEF Knows, Run
    <2>4. \A d \in Dates : d < NumDates \/ d = NumDates
      BY SizesAssumption DEF Dates
    <2> QED BY <2>2, <2>3, <2>4
  <1>5. CASE done' = done
    BY <1>3, <1>5
  <1> QED
    BY <1>1, <1>2, <1>3, <1>4, <1>5, ZenonT(60)
       DEF Next, vars, ClaimIsLost, Claim, Guard, Begin, Enter, Resume,
           BeginTrading, Load, Apply, Collect, Publish, Complete, Raise, Abort, Fail,
           Sync, Release, Crash

-----------------------------------------------------------------------------
(* The theorems.                                                             *)

LEMMA InitInvariant == Init => InductiveInvariant
  <1> SUFFICES ASSUME Init PROVE InductiveInvariant
    OBVIOUS
  <1>1. TypeOK
    <2>1. NothingTraded \in [Strategies -> SUBSET PaperRuns]
      BY DEF NothingTraded
    <2>2. /\ 1 \in Dates /\ 1 \in Strategies /\ 0 \in Nat /\ "idle" \in Stages
          /\ {} \in SUBSET PaperRuns
      BY Sizes DEF Stages
    <2>3. [status |-> "absent", version |-> 0, aggregate |-> NothingTraded] \in Rows
      BY <2>1, <2>2 DEF Rows
    <2>4. [stage |-> "idle", cleared |-> FALSE, date |-> 1, strategy |-> 1, version |-> 0,
           loaded |-> {}, aggregate |-> NothingTraded] \in Work
      BY <2>1, <2>2 DEF Work
    <2> QED BY <2>3, <2>4 DEF Init, TypeOK
  <1>2. Completed = {} /\ \A s \in Strategies : Applied(s) = {} /\ Len(ledgers[s]) = 0
    BY DEF Init, Completed, Applied
  <1>3. \A e \in Executions : Knows(e)
    <2> TAKE e \in Executions
    <2>1. /\ work[e].stage = "idle" /\ work[e].date = 1 /\ work[e].strategy = 1
          /\ work[e].aggregate = NothingTraded
      BY DEF Init
    <2>2. \A d \in Dates : ~(d < 1)
      BY DEF Dates
    <2>3. \A s \in Strategies : InOrder(work[e].aggregate[s])
      BY <2>1 DEF InOrder, NothingTraded
    <2> QED
      BY <2>1, <2>2, <2>3 DEF Knows, HasPublished, AfterTrading, AfterCollecting
  <1>4. RunsTradeOnce /\ DatesTradeInOrder
    BY <1>2 DEF RunsTradeOnce, DatesTradeInOrder, InOrder
  <1>5. /\ AggregatesMatchRuns /\ CompletedJobsAreWhole /\ RunsCompleteInOrder
        /\ AgentsShowCompletedRuns
    BY <1>2 DEF Init, AggregatesMatchRuns, CompletedJobsAreWhole, RunsCompleteInOrder,
                AgentsShowCompletedRuns
  <1> QED BY <1>1, <1>3, <1>4, <1>5 DEF InductiveInvariant

LEMMA InvariantStep == InductiveInvariant /\ [Next]_vars => InductiveInvariant'
  <1> SUFFICES ASSUME InductiveInvariant, [Next]_vars PROVE InductiveInvariant'
    OBVIOUS
  <1>1. TypeOK /\ RunsTradeOnce /\ Grows
    BY GrowStep DEF InductiveInvariant
  <1>2. TypeOK' /\ RunsTradeOnce'
    BY <1>1, TypeStep, OnceStep
  <1>3. DatesTradeInOrder' /\ AggregatesMatchRuns' /\ CompletedJobsAreWhole'
    BY <1>1, OrderStep, AggregatesStep, JobsStep
  <1>4. RunsCompleteInOrder' /\ AgentsShowCompletedRuns' /\ \A e \in Executions : Knows(e)'
    BY <1>1, CompletionOrderStep, AgentsStep, KnowsStep
  <1> QED BY <1>2, <1>3, <1>4 DEF InductiveInvariant

\* Every variable keeps its type.
THEOREM TypeCorrect == Spec => []TypeOK
  <1>1. Init => TypeOK
    BY InitInvariant DEF InductiveInvariant
  <1> QED BY <1>1, TypeStep, PTL DEF Spec

\* The invariant holds in every reachable state.
THEOREM Invariance == Spec => []InductiveInvariant
  BY InitInvariant, InvariantStep, PTL DEF Spec

\* However many executions trade a run, and however late, no ledger trades it twice.
THEOREM TradingIsIdempotent == Spec => []RunsTradeOnce
  <1>1. InductiveInvariant => RunsTradeOnce
    BY DEF InductiveInvariant
  <1> QED BY <1>1, Invariance, PTL

\* No ledger trades a date before the run of the date before it is completed.
THEOREM TradingIsOrdered == Spec => []DatesTradeInOrder
  <1>1. InductiveInvariant => DatesTradeInOrder
    BY DEF InductiveInvariant
  <1> QED BY <1>1, Invariance, PTL

\* The aggregate that a completed run stores is that of its date, although it was read
\* from the ledgers without a lock.
THEOREM AggregatesAreOfTheirDate == Spec => []AggregatesMatchRuns
  <1>1. InductiveInvariant => AggregatesMatchRuns
    BY DEF InductiveInvariant
  <1> QED BY <1>1, Invariance, PTL

\* A job that ended as completed completed each of its runs, and the agents show the last
\* date of one that did.
THEOREM JobsCompleteWhole == Spec => []CompletedJobsAreWhole
  <1>1. InductiveInvariant => CompletedJobsAreWhole
    BY DEF InductiveInvariant
  <1> QED BY <1>1, Invariance, PTL

\* No execution, however stale, changes a run that is completed.
THEOREM CompletionIsFinal == Spec => CompletedRunsStay
  <1>1. TypeOK /\ [Next]_vars =>
            [\A r \in PaperRuns : r \in Completed => runs'[r] = runs[r]]_vars
    BY RunsGrowStep DEF RunsGrow
  <1> QED BY <1>1, TypeCorrect, PTL DEF Spec, CompletedRunsStay
=============================================================================
