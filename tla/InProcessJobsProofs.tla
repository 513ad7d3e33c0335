------------------------- MODULE InProcessJobsProofs -------------------------
(***************************************************************************)
(* What InProcessJobs promises for any number of jobs, threads, agents,    *)
(* errors and crashes.                                                     *)
(***************************************************************************)
EXTENDS InProcessJobs, TLAPS

-----------------------------------------------------------------------------
(* Types.                                                                    *)

LEMMA HandlerType == \A s : Handler(s) \in Stages
  BY DEF Handler, Stages, InThread

LEMMA FaultType ==
    ASSUME TypeOK, Fault \/ UNCHANGED bounds
    PROVE  faults' \in 0 .. MaxFaults /\ crashes' \in 0 .. MaxCrashes
  BY FaultsAssumption DEF TypeOK, Fault, bounds

LEMMA GoesToType ==
    ASSUME TypeOK, NEW j \in Jobs, NEW s \in Stages, GoesTo(j, s)
    PROVE  /\ stage' \in [Jobs -> Stages]
           /\ stage'[j] = s
           /\ \A k \in Jobs \ {j} : stage'[k] = stage[k]
  BY DEF TypeOK, GoesTo

LEMMA SetStatusType ==
    ASSUME TypeOK, NEW j \in Jobs, NEW status \in Statuses, SetStatus(j, status)
    PROVE  /\ memory' \in [Jobs -> Statuses] /\ files' \subseteq Jobs
           /\ rows' \in [Jobs -> Statuses]
           /\ rows'[j] = status
           /\ \A k \in Jobs \ {j} : rows'[k] = rows[k]
  BY DEF TypeOK, SetStatus

LEMMA SetStatusRaisesType ==
    ASSUME TypeOK, NEW j \in Jobs, NEW status \in Statuses, SetStatusRaises(j, status)
    PROVE  /\ memory' \in [Jobs -> Statuses] /\ files' \subseteq Jobs
           /\ rows' = rows
           /\ faults' \in 0 .. MaxFaults /\ crashes' \in 0 .. MaxCrashes
  <1>1. Fault
    BY DEF SetStatusRaises, SaveFails
  <1>2. faults' \in 0 .. MaxFaults /\ crashes' \in 0 .. MaxCrashes
    BY <1>1, FaultType
  <1>. QED BY <1>2 DEF TypeOK, SetStatusRaises, SaveFails

\* Only the status of one row and the stage of its thread change.
LEMMA SetsStatusType ==
    ASSUME TypeOK, NEW j \in Jobs, NEW status \in Statuses, NEW next \in Stages,
           SetsStatus(j, status, next)
    PROVE  /\ memory' \in [Jobs -> Statuses] /\ files' \subseteq Jobs
           /\ rows' \in [Jobs -> Statuses] /\ stage' \in [Jobs -> Stages]
           /\ faults' \in 0 .. MaxFaults /\ crashes' \in 0 .. MaxCrashes
           /\ \/ rows'[j] = status /\ stage'[j] = next
              \/ rows'[j] = rows[j] /\ stage'[j] = Handler(stage[j])
           /\ \A k \in Jobs \ {j} : rows'[k] = rows[k] /\ stage'[k] = stage[k]
  <1>1. CASE SetStatus(j, status) /\ GoesTo(j, next) /\ UNCHANGED bounds
    <2>1. faults' \in 0 .. MaxFaults /\ crashes' \in 0 .. MaxCrashes
      BY <1>1, FaultType
    <2>. QED BY <1>1, <2>1, SetStatusType, GoesToType
  <1>2. CASE SetStatusRaises(j, status) /\ GoesTo(j, Handler(stage[j]))
    <2>1. Handler(stage[j]) \in Stages
      BY HandlerType
    <2>2. rows' = rows /\ rows \in [Jobs -> Statuses]
      BY <1>2, SetStatusRaisesType DEF TypeOK
    <2>. QED BY <1>2, <2>1, <2>2, SetStatusRaisesType, GoesToType
  <1>. QED BY <1>1, <1>2 DEF SetsStatus

\* Only the status of one report and the stage of its thread change.
LEMMA SetsReportType ==
    ASSUME TypeOK, NEW j \in Jobs, NEW status \in Statuses, NEW next \in Stages,
           SetsReport(j, status, next)
    PROVE  /\ reports' \in [Jobs -> Statuses] /\ stage' \in [Jobs -> Stages]
           /\ faults' \in 0 .. MaxFaults /\ crashes' \in 0 .. MaxCrashes
           /\ \/ reports'[j] = status /\ stage'[j] = next
              \/ reports'[j] = reports[j] /\ stage'[j] = Handler(stage[j])
           /\ \A k \in Jobs \ {j} : reports'[k] = reports[k] /\ stage'[k] = stage[k]
           /\ UNCHANGED <<up, rows, files, memory, queue, agent, emitting, late, outcome,
                          unreported>>
  <1>1. UNCHANGED <<up, rows, files, memory, queue, agent, emitting, late, outcome, unreported>>
    BY DEF SetsReport, history
  <1>2. CASE SetReport(j, status) /\ GoesTo(j, next) /\ UNCHANGED bounds
    <2>1. faults' \in 0 .. MaxFaults /\ crashes' \in 0 .. MaxCrashes
      BY <1>2, FaultType
    <2>2. /\ reports' \in [Jobs -> Statuses] /\ reports'[j] = status
          /\ \A k \in Jobs \ {j} : reports'[k] = reports[k]
      BY <1>2 DEF SetReport, TypeOK
    <2>. QED BY <1>1, <1>2, <2>1, <2>2, GoesToType
  <1>3. CASE Fault /\ GoesTo(j, Handler(stage[j])) /\ UNCHANGED reports
    <2>1. Handler(stage[j]) \in Stages
      BY HandlerType
    <2>2. faults' \in 0 .. MaxFaults /\ crashes' \in 0 .. MaxCrashes
      BY <1>3, FaultType
    <2>3. reports' = reports /\ reports \in [Jobs -> Statuses]
      BY <1>3 DEF TypeOK
    <2>. QED BY <1>1, <1>3, <2>1, <2>2, <2>3, GoesToType
  <1>. QED BY <1>2, <1>3 DEF SetsReport

LEMMA NextAgentType ==
    ASSUME TypeOK, NEW j \in Jobs, NextAgent(j)
    PROVE  /\ memory' \in [Jobs -> Statuses] /\ files' \subseteq Jobs
           /\ rows' \in [Jobs -> Statuses] /\ stage' \in [Jobs -> Stages]
           /\ faults' \in 0 .. MaxFaults /\ crashes' \in 0 .. MaxCrashes
           /\ \/ rows'[j] = "running" /\ stage'[j] \in {"saving", "agents"}
              \/ rows'[j] = rows[j] /\ stage'[j] = Handler(stage[j])
           /\ \A k \in Jobs \ {j} : rows'[k] = rows[k] /\ stage'[k] = stage[k]
           /\ agent' \in [Jobs -> 0 .. NumAgents] /\ emitting' \in [Jobs -> BOOLEAN]
           /\ UNCHANGED <<up, reports, queue, outcome, unreported>>
  <1> DEFINE next == IF agent[j] = NumAgents THEN "saving" ELSE "agents"
  <1>1. next \in Stages /\ next \in {"saving", "agents"} /\ "running" \in Statuses
    BY DEF Stages, InThread, InTry, Statuses, Open, Terminal
  <1>2. SetsStatus(j, "running", next)
    BY DEF NextAgent
  <1>3. agent' \in [Jobs -> 0 .. NumAgents]
    BY ThreadsAssumption DEF NextAgent, TypeOK
  <1>4. emitting' \in [Jobs -> BOOLEAN] /\ UNCHANGED <<up, reports, queue, outcome, unreported>>
    BY DEF NextAgent, TypeOK, history
  <1>. HIDE DEF next
  <1>. QED BY <1>1, <1>2, <1>3, <1>4, SetsStatusType

LEMMA RecordsType ==
    ASSUME TypeOK, NEW j \in Jobs, NEW status \in {"completed", "failed"}, Records(j, status)
    PROVE  /\ memory' \in [Jobs -> Statuses] /\ files' \subseteq Jobs
           /\ rows' \in [Jobs -> Statuses] /\ stage' \in [Jobs -> Stages]
           /\ faults' \in 0 .. MaxFaults /\ crashes' \in 0 .. MaxCrashes
           /\ \/ rows'[j] = status /\ stage'[j] = "done"
              \/ rows'[j] = rows[j] /\ stage'[j] = Handler(stage[j])
           /\ \A k \in Jobs \ {j} : rows'[k] = rows[k] /\ stage'[k] = stage[k]
           /\ outcome' \in [Jobs -> {"none", "completed", "failed", "overtaken"}]
           /\ outcome'[j] = IF stage'[j] = "done" THEN status ELSE outcome[j]
           /\ \A k \in Jobs \ {j} : outcome'[k] = outcome[k]
  <1>1. status \in Statuses /\ "done" \in Stages
    BY DEF Stages, InThread, InTry, Statuses, Open, Terminal
  <1>2. SetsStatus(j, status, "done")
    BY DEF Records
  <1>3. /\ outcome' \in [Jobs -> {"none", "completed", "failed", "overtaken"}]
        /\ outcome'[j] = IF stage'[j] = "done" THEN status ELSE outcome[j]
        /\ \A k \in Jobs \ {j} : outcome'[k] = outcome[k]
    BY DEF Records, TypeOK
  <1>. QED BY <1>1, <1>2, <1>3, SetsStatusType

\* Every step keeps the types.
LEMMA TypeCorrectStep ==
    ASSUME TypeOK, [Next]_vars
    PROVE  TypeOK'
  <1>1. ASSUME NEW j \in Jobs, Create(j)
        PROVE  TypeOK'
    <2>1. "created" \in Stages
      BY DEF Stages, InThread, InTry, Statuses, Open, Terminal
    <2>2. stage' \in [Jobs -> Stages]
      BY <1>1, <2>1, GoesToType DEF Create
    <2>. QED BY <1>1, <2>2 DEF Create, TypeOK, history, stored, bounds
  <1>2. ASSUME NEW j \in Jobs, Save(j)
        PROVE  TypeOK'
    <2>1. "saved" \in Stages /\ "queued" \in Statuses /\ "none" \in Statuses
      BY DEF Stages, InThread, InTry, Statuses, Open, Terminal
    <2>2. stage' \in [Jobs -> Stages]
      BY <1>2, <2>1, GoesToType DEF Save
    <2>. QED BY <1>2, <2>1, <2>2 DEF Save, TypeOK, history, stored, bounds
  <1>3. ASSUME NEW j \in Jobs, SaveRaises(j)
        PROVE  TypeOK'
    <2>1. "refused" \in Stages /\ "queued" \in Statuses
      BY DEF Stages, InThread, InTry, Statuses, Open, Terminal
    <2>2. stage' \in [Jobs -> Stages]
      BY <1>3, <2>1, GoesToType DEF SaveRaises
    <2>. QED BY <1>3, <2>1, <2>2, SetStatusRaisesType DEF SetStatusRaises, SaveRaises, TypeOK, history, stored, bounds
  <1>4. ASSUME NEW j \in Jobs, Report(j)
        PROVE  TypeOK'
    <2>1. "refused" \in Stages /\ "reported" \in Stages /\ "queued" \in Statuses
      BY DEF Stages, InThread, InTry, Statuses, Open, Terminal
    <2>2. stage' \in [Jobs -> Stages]
      BY <1>4, <2>1, GoesToType DEF Report
    <2>3. faults' \in 0 .. MaxFaults /\ crashes' \in 0 .. MaxCrashes
      BY <1>4, FaultType DEF Report
    <2>. QED BY <1>4, <2>1, <2>2, <2>3 DEF Report, SetReport, TypeOK, history, stored, bounds
  <1>5. ASSUME NEW j \in Jobs, Enqueue(j)
        PROVE  TypeOK'
    <2>1. "queued" \in Stages
      BY DEF Stages, InThread, InTry, Statuses, Open, Terminal
    <2>2. stage' \in [Jobs -> Stages]
      BY <1>5, <2>1, GoesToType DEF Enqueue
    <2>3. queue' \in Seq(Jobs)
      BY <1>5 DEF Enqueue, TypeOK
    <2>. QED BY <1>5, <2>2, <2>3 DEF Enqueue, TypeOK, history, stored, bounds
  <1>6. ASSUME NEW j \in Jobs, Start(j)
        PROVE  TypeOK'
    <2>1. "running" \in Statuses /\ "started" \in Stages
      BY DEF Stages, InThread, InTry, Statuses, Open, Terminal
    <2>2. SetsStatus(j, "running", "started")
      BY <1>6 DEF Start
    <2>3. queue' \in Seq(Jobs)
      BY <1>6 DEF Start, TypeOK
    <2>. QED BY <1>6, <2>1, <2>2, <2>3, SetsStatusType DEF TypeOK, Start, history, stored, bounds
  <1>7. ASSUME NEW j \in Jobs, Find(j)
        PROVE  TypeOK'
    <2>1. "found" \in Stages /\ Handler("started") \in Stages
      BY HandlerType DEF Stages, InThread, InTry, Statuses, Open, Terminal
    <2>2. stage' \in [Jobs -> Stages]
      BY <1>7, <2>1, GoesToType DEF Find
    <2>. QED BY <1>7, <2>2 DEF Find, TypeOK, history, stored, bounds
  <1>8. ASSUME NEW j \in Jobs, ReportRunning(j)
        PROVE  TypeOK'
    <2>1. "running" \in Statuses /\ "collecting" \in Stages
      BY DEF Stages, InThread, InTry, Statuses, Open, Terminal
    <2>2. SetsReport(j, "running", "collecting")
      BY <1>8 DEF ReportRunning
    <2>. QED BY <2>1, <2>2, SetsReportType DEF TypeOK
  <1>9. ASSUME NEW j \in Jobs, Collect(j)
        PROVE  TypeOK'
    <2>1. "running" \in Statuses /\ "agents" \in Stages
      BY DEF Stages, InThread, InTry, Statuses, Open, Terminal
    <2>2. SetsStatus(j, "running", "agents")
      BY <1>9 DEF Collect
    <2>3. agent' \in [Jobs -> 0 .. NumAgents]
      BY <1>9, ThreadsAssumption DEF Collect, TypeOK
    <2>. QED BY <1>9, <2>1, <2>2, <2>3, SetsStatusType DEF TypeOK, Collect, history, stored, bounds
  <1>10. ASSUME NEW j \in Jobs, AgentEnds(j)
        PROVE  TypeOK'
    <2>1. NextAgent(j) /\ UNCHANGED late
      BY <1>10 DEF AgentEnds
    <2>. QED BY <2>1, NextAgentType DEF TypeOK
  <1>11. ASSUME NEW j \in Jobs, AgentTimesOut(j)
        PROVE  TypeOK'
    <2>1. NextAgent(j) /\ late' \in [Jobs -> Nat]
      BY <1>11 DEF AgentTimesOut, TypeOK
    <2>. QED BY <2>1, NextAgentType DEF TypeOK
  <1>12. ASSUME NEW j \in Jobs, SaveReport(j)
        PROVE  TypeOK'
    <2>1. "running" \in Statuses /\ "publishing" \in Stages
      BY DEF Stages, InThread, InTry, Statuses, Open, Terminal
    <2>2. SetsStatus(j, "running", "publishing")
      BY <1>12 DEF SaveReport
    <2>. QED BY <1>12, <2>1, <2>2, SetsStatusType DEF TypeOK, SaveReport, history, stored, bounds
  <1>13. ASSUME NEW j \in Jobs, ReportCompleted(j)
        PROVE  TypeOK'
    <2>1. "completed" \in Statuses /\ "completing" \in Stages
      BY DEF Stages, InThread, InTry, Statuses, Open, Terminal
    <2>2. SetsReport(j, "completed", "completing")
      BY <1>13 DEF ReportCompleted
    <2>. QED BY <2>1, <2>2, SetsReportType DEF TypeOK
  <1>14. ASSUME NEW j \in Jobs, Complete(j)
        PROVE  TypeOK'
    <2>1. Records(j, "completed")
      BY <1>14 DEF Complete
    <2>. QED BY <1>14, <2>1, RecordsType DEF TypeOK, Complete
  <1>15. ASSUME NEW j \in Jobs, ReportFailed(j)
        PROVE  TypeOK'
    <2>1. "failed" \in Statuses /\ "failed" \in Stages
      BY DEF Stages, InThread, InTry, Statuses, Open, Terminal
    <2>2. SetsReport(j, "failed", "failed")
      BY <1>15 DEF ReportFailed
    <2>. QED BY <2>1, <2>2, SetsReportType DEF TypeOK
  <1>16. ASSUME NEW j \in Jobs, Fail(j)
        PROVE  TypeOK'
    <2>1. Records(j, "failed")
      BY <1>16 DEF Fail
    <2>. QED BY <1>16, <2>1, RecordsType DEF TypeOK, Fail
  <1>17. ASSUME NEW j \in Jobs, Lookup(j)
        PROVE  TypeOK'
    <2>1. "finalizing" \in Stages /\ "ending" \in Stages
      BY DEF Stages, InThread, InTry, Statuses, Open, Terminal
    <2>2. stage' \in [Jobs -> Stages]
      BY <1>17, <2>1, GoesToType DEF Lookup
    <2>. QED BY <1>17, <2>2 DEF Lookup, TypeOK, history, stored, bounds
  <1>18. ASSUME NEW j \in Jobs, ReportFinalized(j)
        PROVE  TypeOK'
    <2>1. "failed" \in Statuses /\ "ending" \in Stages
      BY DEF Stages, InThread, InTry, Statuses, Open, Terminal
    <2>2. SetsReport(j, "failed", "ending")
      BY <1>18 DEF ReportFinalized
    <2>. QED BY <2>1, <2>2, SetsReportType DEF TypeOK
  <1>19. ASSUME NEW j \in Jobs, Finalize(j)
        PROVE  TypeOK'
    <2>1. Records(j, "failed")
      BY <1>19 DEF Finalize
    <2>. QED BY <1>19, <2>1, RecordsType DEF TypeOK, Finalize
  <1>20. ASSUME NEW j \in Jobs, Raise(j)
        PROVE  TypeOK'
    <2>1. stage' \in [Jobs -> Stages]
      BY <1>20, HandlerType, GoesToType DEF Raise
    <2>. QED BY <1>20, <2>1 DEF Raise, TypeOK, history, stored, bounds
  <1>21. ASSUME NEW j \in Jobs, Emit(j)
        PROVE  TypeOK'
    BY <1>21 DEF Emit, TypeOK, history, stored, bounds
  <1>22. ASSUME NEW j \in Jobs, Progress(j)
        PROVE  TypeOK'
    <2>1. "running" \in Statuses
      BY DEF Stages, InThread, InTry, Statuses, Open, Terminal
    <2>2. faults' \in 0 .. MaxFaults /\ crashes' \in 0 .. MaxCrashes
      BY <1>22, FaultType DEF Progress, SetStatusRaises, SaveFails
    <2>3. /\ memory' \in [Jobs -> Statuses] /\ files' \subseteq Jobs
          /\ rows' \in [Jobs -> Statuses]
      BY <1>22, <2>1, SetStatusType, SetStatusRaisesType DEF Progress, TypeOK
    <2>. QED BY <1>22, <2>2, <2>3 DEF Progress, TypeOK, history, stored, bounds
  <1>23. ASSUME NEW j \in Jobs, LateProgress(j)
        PROVE  TypeOK'
    <2>1. "running" \in Statuses
      BY DEF Stages, InThread, InTry, Statuses, Open, Terminal
    <2>2. late' \in [Jobs -> Nat]
      BY <1>23 DEF LateProgress, TypeOK
    <2>. QED BY <1>23, <2>1, <2>2, SetStatusType DEF LateProgress, TypeOK, history, stored, bounds
  <1>24. CASE Crash
    <2>1. "gone" \in Stages /\ "none" \in Statuses /\ 0 \in 0 .. NumAgents
      BY ThreadsAssumption DEF Stages, InThread, InTry, Statuses, Open, Terminal
    <2>2. crashes' \in 0 .. MaxCrashes
      BY <1>24, FaultsAssumption DEF Crash, TypeOK
    <2>3. queue' \in Seq(Jobs)
      BY <1>24 DEF Crash
    <2>4. stage' \in [Jobs -> Stages]
      BY <1>24, <2>1 DEF Crash, TypeOK
    <2>5. memory' \in [Jobs -> Statuses] /\ agent' \in [Jobs -> 0 .. NumAgents]
      BY <1>24, <2>1 DEF Crash, TypeOK
    <2>6. emitting' \in [Jobs -> BOOLEAN] /\ late' \in [Jobs -> Nat] /\ up' \in BOOLEAN
      BY <1>24 DEF Crash, TypeOK
    <2>. QED BY <1>24, <2>2, <2>3, <2>4, <2>5, <2>6 DEF Crash, TypeOK, history, stored, bounds
  <1>25. CASE Load
    <2>1. "forgotten" \in Stages /\ "none" \in Statuses /\ "interrupted" \in Statuses
      BY DEF Stages, InThread, InTry, Statuses, Open, Terminal
    <2>2. rows' \in [Jobs -> Statuses] /\ stage' \in [Jobs -> Stages]
      BY <1>25, <2>1 DEF Load, TypeOK
    <2>3. memory' \in [Jobs -> Statuses]
      BY <1>25, <2>1, <2>2 DEF Load
    <2>4. files' \subseteq Jobs
      BY <1>25 DEF Load, TypeOK, Newest
    <2>. QED BY <1>25, <2>2, <2>3, <2>4 DEF Load, TypeOK, history, stored, bounds
  <1>26. CASE UNCHANGED vars
    BY <1>26 DEF vars, threads, TypeOK, history, stored, bounds
  <1>. QED BY <1>1, <1>2, <1>3, <1>4, <1>5, <1>6, <1>7, <1>8, <1>9, <1>10, <1>11, <1>12, <1>13, <1>14, <1>15, <1>16, <1>17, <1>18, <1>19, <1>20, <1>21, <1>22, <1>23, <1>24, <1>25, <1>26
       DEF Next, Request, Thread, AgentThread

-----------------------------------------------------------------------------
(* The invariant is one of each job: a step of a job keeps those of others.  *)

JobInvariant(j) ==
    /\ rows[j] \in {"completed", "failed"} => stage[j] \in {"done", "gone"}
    /\ stage[j] = "completing" => reports[j] = "completed"
    /\ stage[j] = "failed" => reports[j] = "failed"
    /\ stage[j] = "ending" => reports[j] = "failed" \/ j \in unreported
    /\ outcome[j] \in {"completed", "failed"} => rows[j] = outcome[j]
    /\ rows[j] = "completed" => reports[j] = "completed"
    /\ rows[j] = "failed" => reports[j] = "failed" \/ j \in unreported

LEMMA InvariantOfJobs ==
    InductiveInvariant <=> TypeOK /\ \A j \in Jobs : JobInvariant(j)
  BY DEF InductiveInvariant, EndedJobsHaveNoThread, ReportsComeFirst, RecordedOutcomesStay,
         ReportsAgree, JobInvariant

OnlyMoves(j) ==
    \A k \in Jobs \ {j} :
        /\ rows'[k] = rows[k] /\ reports'[k] = reports[k]
        /\ stage'[k] = stage[k] /\ outcome'[k] = outcome[k]
        /\ k \in unreported <=> k \in unreported'

\* Each step of job j keeps its part, and touches no other.
LEMMA JobStep ==
    ASSUME TypeOK, NEW j \in Jobs, JobInvariant(j),
           Request(j) \/ Thread(j) \/ Raise(j) \/ AgentThread(j)
    PROVE  OnlyMoves(j) /\ JobInvariant(j)'
  <1>1. CASE Create(j)
    <2>1. "created" \in Stages
      BY DEF Stages, InThread, InTry, Statuses, Open, Terminal
    <2>. QED BY <1>1, <2>1, GoesToType DEF Create, OnlyMoves, JobInvariant, history, stored, InTry
  <1>2. CASE Save(j)
    <2>1. "saved" \in Stages
      BY DEF Stages, InThread, InTry, Statuses, Open, Terminal
    <2>2. stage'[j] = "saved" /\ \A k \in Jobs \ {j} : stage'[k] = stage[k]
      BY <1>2, <2>1, GoesToType DEF Save
    <2>3. rows'[j] = "queued" /\ \A k \in Jobs \ {j} : rows'[k] = rows[k]
      BY <1>2 DEF Save, TypeOK
    <2>. QED BY <1>2, <2>2, <2>3 DEF Save, OnlyMoves, JobInvariant, history
  <1>3. CASE SaveRaises(j)
    <2>1. "refused" \in Stages /\ "queued" \in Statuses
      BY DEF Stages, InThread, InTry, Statuses, Open, Terminal
    <2>2. stage'[j] = "refused" /\ \A k \in Jobs \ {j} : stage'[k] = stage[k]
      BY <1>3, <2>1, GoesToType DEF SaveRaises
    <2>3. rows' = rows
      BY <1>3, <2>1, SetStatusRaisesType DEF SetStatusRaises, SaveRaises
    <2>. QED BY <1>3, <2>2, <2>3 DEF SaveRaises, OnlyMoves, JobInvariant, history
  <1>4. CASE Report(j)
    <2>1. "refused" \in Stages /\ "reported" \in Stages
      BY DEF Stages, InThread, InTry, Statuses, Open, Terminal
    <2>2. /\ stage'[j] \in {"refused", "reported"}
          /\ \A k \in Jobs \ {j} : stage'[k] = stage[k]
      BY <1>4, <2>1, GoesToType DEF Report
    <2>3. \A k \in Jobs \ {j} : reports'[k] = reports[k]
      BY <1>4 DEF Report, SetReport, TypeOK
    <2>. QED BY <1>4, <2>2, <2>3 DEF Report, OnlyMoves, JobInvariant, history
  <1>5. CASE Enqueue(j)
    <2>1. "queued" \in Stages
      BY DEF Stages, InThread, InTry, Statuses, Open, Terminal
    <2>. QED BY <1>5, <2>1, GoesToType DEF Enqueue, OnlyMoves, JobInvariant, history, stored, InTry
  <1>6. CASE Start(j)
    <2>1. "running" \in Statuses /\ "started" \in Stages /\ Handler(stage[j]) = "lookup"
      BY <1>6 DEF Start, Handler, Stages, InThread, InTry, Statuses, Open, Terminal
    <2>2. SetsStatus(j, "running", "started")
      BY <1>6 DEF Start
    <2>3. /\ \/ rows'[j] = "running" /\ stage'[j] = "started"
             \/ rows'[j] = rows[j] /\ stage'[j] = "lookup"
          /\ \A k \in Jobs \ {j} : rows'[k] = rows[k] /\ stage'[k] = stage[k]
      BY <2>1, <2>2, SetsStatusType
    <2>. QED BY <1>6, <2>3 DEF Start, OnlyMoves, JobInvariant, history
  <1>7. CASE Find(j)
    <2>1. "found" \in Stages /\ "lookup" \in Stages /\ Handler("started") = "lookup"
      BY DEF Handler, Stages, InThread, InTry, Statuses, Open, Terminal
    <2>2. /\ stage'[j] \in {"found", "lookup"}
          /\ \A k \in Jobs \ {j} : stage'[k] = stage[k]
      BY <1>7, <2>1, GoesToType DEF Find
    <2>. QED BY <1>7, <2>2 DEF Find, OnlyMoves, JobInvariant, history, stored
  <1>8. CASE ReportRunning(j)
    <2>1. "running" \in Statuses /\ "collecting" \in Stages /\ Handler(stage[j]) = "lookup"
      BY <1>8 DEF ReportRunning, Handler, Stages, InThread, InTry, Statuses, Open, Terminal
    <2>2. SetsReport(j, "running", "collecting")
      BY <1>8 DEF ReportRunning
    <2>3. /\ \/ reports'[j] = "running" /\ stage'[j] = "collecting"
             \/ reports'[j] = reports[j] /\ stage'[j] = "lookup"
          /\ \A k \in Jobs \ {j} : reports'[k] = reports[k] /\ stage'[k] = stage[k]
          /\ UNCHANGED <<rows, outcome, unreported>>
      BY <2>1, <2>2, SetsReportType
    <2>. QED BY <1>8, <2>3 DEF ReportRunning, OnlyMoves, JobInvariant
  <1>9. CASE Collect(j)
    <2>1. "running" \in Statuses /\ "agents" \in Stages /\ Handler(stage[j]) = "failing"
      BY <1>9 DEF Collect, Handler, Stages, InThread, InTry, Statuses, Open, Terminal
    <2>2. SetsStatus(j, "running", "agents")
      BY <1>9 DEF Collect
    <2>3. /\ \/ rows'[j] = "running" /\ stage'[j] = "agents"
             \/ rows'[j] = rows[j] /\ stage'[j] = "failing"
          /\ \A k \in Jobs \ {j} : rows'[k] = rows[k] /\ stage'[k] = stage[k]
      BY <2>1, <2>2, SetsStatusType
    <2>. QED BY <1>9, <2>3 DEF Collect, OnlyMoves, JobInvariant, history
  <1>10. CASE AgentEnds(j)
    <2>1. Handler(stage[j]) = "failing"
      BY <1>10 DEF AgentEnds, Handler, Stages, InThread, InTry, Statuses, Open, Terminal
    <2>2. NextAgent(j)
      BY <1>10 DEF AgentEnds
    <2>3. /\ \/ rows'[j] = "running" /\ stage'[j] \in {"saving", "agents"}
             \/ rows'[j] = rows[j] /\ stage'[j] = "failing"
          /\ \A k \in Jobs \ {j} : rows'[k] = rows[k] /\ stage'[k] = stage[k]
          /\ UNCHANGED <<reports, outcome, unreported>>
      BY <2>1, <2>2, NextAgentType
    <2>. QED BY <1>10, <2>3 DEF AgentEnds, OnlyMoves, JobInvariant
  <1>11. CASE AgentTimesOut(j)
    <2>1. Handler(stage[j]) = "failing"
      BY <1>11 DEF AgentTimesOut, Handler, Stages, InThread, InTry, Statuses, Open, Terminal
    <2>2. NextAgent(j)
      BY <1>11 DEF AgentTimesOut
    <2>3. /\ \/ rows'[j] = "running" /\ stage'[j] \in {"saving", "agents"}
             \/ rows'[j] = rows[j] /\ stage'[j] = "failing"
          /\ \A k \in Jobs \ {j} : rows'[k] = rows[k] /\ stage'[k] = stage[k]
          /\ UNCHANGED <<reports, outcome, unreported>>
      BY <2>1, <2>2, NextAgentType
    <2>. QED BY <1>11, <2>3 DEF AgentTimesOut, OnlyMoves, JobInvariant
  <1>12. CASE SaveReport(j)
    <2>1. "running" \in Statuses /\ "publishing" \in Stages /\ Handler(stage[j]) = "failing"
      BY <1>12 DEF SaveReport, Handler, Stages, InThread, InTry, Statuses, Open, Terminal
    <2>2. SetsStatus(j, "running", "publishing")
      BY <1>12 DEF SaveReport
    <2>3. /\ \/ rows'[j] = "running" /\ stage'[j] = "publishing"
             \/ rows'[j] = rows[j] /\ stage'[j] = "failing"
          /\ \A k \in Jobs \ {j} : rows'[k] = rows[k] /\ stage'[k] = stage[k]
      BY <2>1, <2>2, SetsStatusType
    <2>. QED BY <1>12, <2>3 DEF SaveReport, OnlyMoves, JobInvariant, history
  <1>13. CASE ReportCompleted(j)
    <2>1. "completed" \in Statuses /\ "completing" \in Stages /\ Handler(stage[j]) = "failing"
      BY <1>13 DEF ReportCompleted, Handler, Stages, InThread, InTry, Statuses, Open, Terminal
    <2>2. SetsReport(j, "completed", "completing")
      BY <1>13 DEF ReportCompleted
    <2>3. /\ \/ reports'[j] = "completed" /\ stage'[j] = "completing"
             \/ reports'[j] = reports[j] /\ stage'[j] = "failing"
          /\ \A k \in Jobs \ {j} : reports'[k] = reports[k] /\ stage'[k] = stage[k]
          /\ UNCHANGED <<rows, outcome, unreported>>
      BY <2>1, <2>2, SetsReportType
    <2>. QED BY <1>13, <2>3 DEF ReportCompleted, OnlyMoves, JobInvariant
  <1>14. CASE Complete(j)
    <2>1. Handler(stage[j]) = "failing"
      BY <1>14 DEF Complete, Handler, Stages, InThread, InTry, Statuses, Open, Terminal
    <2>2. Records(j, "completed") /\ UNCHANGED <<reports, unreported>>
      BY <1>14 DEF Complete
    <2>3. /\ \/ rows'[j] = "completed" /\ stage'[j] = "done"
             \/ rows'[j] = rows[j] /\ stage'[j] = "failing"
          /\ \A k \in Jobs \ {j} : rows'[k] = rows[k] /\ stage'[k] = stage[k]
          /\ outcome'[j] = IF stage'[j] = "done" THEN "completed" ELSE outcome[j]
          /\ \A k \in Jobs \ {j} : outcome'[k] = outcome[k]
      BY <2>1, <2>2, RecordsType
    <2>. QED BY <1>14, <2>2, <2>3 DEF Complete, OnlyMoves, JobInvariant
  <1>15. CASE ReportFailed(j)
    <2>1. "failed" \in Statuses /\ "failed" \in Stages /\ Handler(stage[j]) = "lookup"
      BY <1>15 DEF ReportFailed, Handler, Stages, InThread, InTry, Statuses, Open, Terminal
    <2>2. SetsReport(j, "failed", "failed")
      BY <1>15 DEF ReportFailed
    <2>3. /\ \/ reports'[j] = "failed" /\ stage'[j] = "failed"
             \/ reports'[j] = reports[j] /\ stage'[j] = "lookup"
          /\ \A k \in Jobs \ {j} : reports'[k] = reports[k] /\ stage'[k] = stage[k]
          /\ UNCHANGED <<rows, outcome, unreported>>
      BY <2>1, <2>2, SetsReportType
    <2>. QED BY <1>15, <2>3 DEF ReportFailed, OnlyMoves, JobInvariant
  <1>16. CASE Fail(j)
    <2>1. Handler(stage[j]) = "lookup"
      BY <1>16 DEF Fail, Handler, Stages, InThread, InTry, Statuses, Open, Terminal
    <2>2. Records(j, "failed") /\ UNCHANGED <<reports, unreported>>
      BY <1>16 DEF Fail
    <2>3. /\ \/ rows'[j] = "failed" /\ stage'[j] = "done"
             \/ rows'[j] = rows[j] /\ stage'[j] = "lookup"
          /\ \A k \in Jobs \ {j} : rows'[k] = rows[k] /\ stage'[k] = stage[k]
          /\ outcome'[j] = IF stage'[j] = "done" THEN "failed" ELSE outcome[j]
          /\ \A k \in Jobs \ {j} : outcome'[k] = outcome[k]
      BY <2>1, <2>2, RecordsType
    <2>. QED BY <1>16, <2>2, <2>3 DEF Fail, OnlyMoves, JobInvariant
  <1>17. CASE Lookup(j)
    <2>1. "finalizing" \in Stages /\ "ending" \in Stages
      BY DEF Stages, InThread, InTry, Statuses, Open, Terminal
    <2>2. CASE GoesTo(j, "finalizing") /\ UNCHANGED unreported
      <3>1. stage'[j] = "finalizing" /\ \A k \in Jobs \ {j} : stage'[k] = stage[k]
        BY <2>1, <2>2, GoesToType
      <3>. QED BY <1>17, <2>2, <3>1 DEF Lookup, OnlyMoves, JobInvariant, stored
    <2>3. CASE GoesTo(j, "ending") /\ unreported' = unreported \cup {j}
      <3>1. stage'[j] = "ending" /\ \A k \in Jobs \ {j} : stage'[k] = stage[k]
        BY <2>1, <2>3, GoesToType
      <3>. QED BY <1>17, <2>3, <3>1 DEF Lookup, OnlyMoves, JobInvariant, stored
    <2>. QED BY <1>17, <2>2, <2>3 DEF Lookup
  <1>18. CASE ReportFinalized(j)
    <2>1. "failed" \in Statuses /\ "ending" \in Stages /\ Handler(stage[j]) = "dead"
      BY <1>18 DEF ReportFinalized, Handler, Stages, InThread, InTry, Statuses, Open, Terminal
    <2>2. SetsReport(j, "failed", "ending")
      BY <1>18 DEF ReportFinalized
    <2>3. /\ \/ reports'[j] = "failed" /\ stage'[j] = "ending"
             \/ reports'[j] = reports[j] /\ stage'[j] = "dead"
          /\ \A k \in Jobs \ {j} : reports'[k] = reports[k] /\ stage'[k] = stage[k]
          /\ UNCHANGED <<rows, outcome, unreported>>
      BY <2>1, <2>2, SetsReportType
    <2>. QED BY <1>18, <2>3 DEF ReportFinalized, OnlyMoves, JobInvariant
  <1>19. CASE Finalize(j)
    <2>1. Handler(stage[j]) = "dead"
      BY <1>19 DEF Finalize, Handler, Stages, InThread, InTry, Statuses, Open, Terminal
    <2>2. Records(j, "failed") /\ UNCHANGED <<reports, unreported>>
      BY <1>19 DEF Finalize
    <2>3. /\ \/ rows'[j] = "failed" /\ stage'[j] = "done"
             \/ rows'[j] = rows[j] /\ stage'[j] = "dead"
          /\ \A k \in Jobs \ {j} : rows'[k] = rows[k] /\ stage'[k] = stage[k]
          /\ outcome'[j] = IF stage'[j] = "done" THEN "failed" ELSE outcome[j]
          /\ \A k \in Jobs \ {j} : outcome'[k] = outcome[k]
      BY <2>1, <2>2, RecordsType
    <2>. QED BY <1>19, <2>2, <2>3 DEF Finalize, OnlyMoves, JobInvariant
  <1>20. CASE Raise(j)
    <2>1. "failing" \in Stages /\ Handler(stage[j]) = "failing"
      BY <1>20 DEF Raise, Handler, Stages, InThread, InTry, Statuses, Open, Terminal
    <2>2. stage'[j] = "failing" /\ \A k \in Jobs \ {j} : stage'[k] = stage[k]
      BY <1>20, <2>1, GoesToType DEF Raise
    <2>. QED BY <1>20, <2>2 DEF Raise, OnlyMoves, JobInvariant, history, stored, InTry
  <1>21. CASE Emit(j)
    BY <1>21 DEF Emit, OnlyMoves, JobInvariant, history, stored
  <1>22. CASE Progress(j)
    <2>1. "running" \in Statuses
      BY DEF Stages, InThread, InTry, Statuses, Open, Terminal
    <2>2. /\ rows'[j] = "running" \/ rows'[j] = rows[j]
          /\ \A k \in Jobs \ {j} : rows'[k] = rows[k]
      BY <1>22, <2>1, SetStatusType, SetStatusRaisesType DEF Progress
    <2>. QED BY <1>22, <2>2 DEF Progress, OnlyMoves, JobInvariant, history
  <1>23. CASE LateProgress(j)
    <2>1. "running" \in Statuses
      BY DEF Stages, InThread, InTry, Statuses, Open, Terminal
    <2>2. rows'[j] = "running" /\ \A k \in Jobs \ {j} : rows'[k] = rows[k]
      BY <1>23, <2>1, SetStatusType DEF LateProgress
    <2>3. /\ outcome'[j] \notin {"completed", "failed"}
          /\ \A k \in Jobs \ {j} : outcome'[k] = outcome[k]
      BY <1>23 DEF LateProgress, TypeOK
    <2>. QED BY <1>23, <2>2, <2>3 DEF LateProgress, OnlyMoves, JobInvariant
  <1>. QED BY <1>1, <1>2, <1>3, <1>4, <1>5, <1>6, <1>7, <1>8, <1>9, <1>10, <1>11, <1>12, <1>13, <1>14, <1>15, <1>16, <1>17, <1>18, <1>19, <1>20, <1>21, <1>22, <1>23
       DEF Request, Thread, AgentThread

\* Every step keeps the invariant.
LEMMA InductiveStep ==
    ASSUME TypeOK, \A j \in Jobs : JobInvariant(j), [Next]_vars
    PROVE  \A j \in Jobs : JobInvariant(j)'
  <1>1. ASSUME NEW j \in Jobs, Request(j) \/ Thread(j) \/ Raise(j) \/ AgentThread(j)
        PROVE  \A k \in Jobs : JobInvariant(k)'
    <2>1. OnlyMoves(j) /\ JobInvariant(j)'
      BY <1>1, JobStep
    <2>2. \A k \in Jobs \ {j} : JobInvariant(k)'
      BY <2>1 DEF OnlyMoves, JobInvariant
    <2>. QED BY <2>1, <2>2
  <1>2. CASE Crash
    <2>1. UNCHANGED <<rows, reports, outcome, unreported>>
      BY <1>2 DEF Crash, stored, history
    <2>2. ASSUME NEW j \in Jobs
          PROVE  stage'[j] = "gone" \/ stage'[j] = stage[j]
      BY <1>2 DEF Crash
    <2>. QED BY <2>1, <2>2 DEF JobInvariant
  <1>3. CASE Load
    <2>1. UNCHANGED <<reports, outcome, unreported>>
      BY <1>3 DEF Load, history
    <2>2. ASSUME NEW j \in Jobs
          PROVE  \/ rows'[j] = rows[j]
                 \/ rows'[j] = "interrupted" /\ rows[j] \notin {"completed", "failed"}
      BY <1>3 DEF Load, OpenRow, Open
    <2>3. ASSUME NEW j \in Jobs
          PROVE  \/ stage'[j] = stage[j]
                 \/ stage'[j] = "forgotten" /\ rows[j] \in Open
      <3>1. \E page : stage' = [k \in Jobs |-> IF rows[k] \in Open /\ k \notin page
                                              THEN "forgotten" ELSE stage[k]]
        BY <1>3, Zenon DEF Load
      <3>2. PICK page : stage' = [k \in Jobs |-> IF rows[k] \in Open /\ k \notin page
                                                THEN "forgotten" ELSE stage[k]]
        BY <3>1
      <3>. QED BY <3>2
    <2>. QED BY <2>1, <2>2, <2>3 DEF JobInvariant, Open
  <1>4. CASE UNCHANGED vars
    BY <1>4 DEF vars, stored, threads, history, JobInvariant
  <1>. QED BY <1>1, <1>2, <1>3, <1>4 DEF Next

-----------------------------------------------------------------------------
\* The parts of the inductive invariant hold in every reachable state.
THEOREM Invariance == Spec => []InductiveInvariant
  <1>1. Init => TypeOK
    BY HistoryAssumption, ThreadsAssumption, FaultsAssumption DEF Init, TypeOK, Stages, InThread, InTry, Statuses, Open, Terminal
  <1>2. Init => \A j \in Jobs : JobInvariant(j)
    BY DEF Init, JobInvariant
  <1>3. TypeOK /\ (\A j \in Jobs : JobInvariant(j)) /\ [Next]_vars
        => TypeOK' /\ \A j \in Jobs : JobInvariant(j)'
    BY TypeCorrectStep, InductiveStep
  <1>4. Init => InductiveInvariant
    BY <1>1, <1>2, InvariantOfJobs
  <1>5. InductiveInvariant /\ [Next]_vars => InductiveInvariant'
    <2>1. InductiveInvariant' <=> TypeOK' /\ \A j \in Jobs : JobInvariant(j)'
      BY DEF InductiveInvariant, EndedJobsHaveNoThread, ReportsComeFirst,
             RecordedOutcomesStay, ReportsAgree, JobInvariant
    <2>. QED BY <1>3, <2>1, InvariantOfJobs
  <1>. QED BY <1>4, <1>5, PTL DEF Spec

\* What the thread of a job recorded stays in the store: neither trimming nor a restart
\* loses it.
THEOREM OutcomesStay == Spec => []RecordedOutcomesStay
  <1>1. InductiveInvariant => RecordedOutcomesStay
    BY DEF InductiveInvariant
  <1>. QED BY Invariance, <1>1, PTL

\* An ended job and its report record agree, but for jobs trimmed before they failed.
THEOREM ReportsFollow == Spec => []ReportsAgree
  <1>1. InductiveInvariant => ReportsAgree
    BY DEF InductiveInvariant
  <1>. QED BY Invariance, <1>1, PTL
=============================================================================
