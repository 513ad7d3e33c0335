------------------------- MODULE DailyRefreshProofs -------------------------
(***************************************************************************)
(* Proofs about the daily refresh, for any numbers of users, schedulers    *)
(* and requests and any times: nobody takes over a refresh whose lock is   *)
(* not over, a success stays, and the status of a user tells how the last  *)
(* refresh ended.                                                          *)
(***************************************************************************)
EXTENDS DailyRefresh, TLAPS, WellFoundedInduction

\* An executor looked at its user before now.
Past == \A e \in Executors : now[e] <= clock

\* Only a run that has not ended is locked.
Unlocked ==
    \A k \in Keys : runs[k].status \notin {"queued", "running"} => runs[k].lock = NoLock

\* What is executed has a row.
Held == \A e \in Executors : stage[e] \in Executing => runs[Key(e)].status # "none"

\* Two executors are at one refresh only when it is disturbed and its lock is over.
Alone ==
    \A e, f \in Executors :
        e # f /\ stage[e] \in Executing /\ stage[f] \in Executing /\ Key(e) = Key(f)
        => Key(e) \in disturbed /\ runs[Key(e)].lock <= clock

\* What an executor knows of its refresh when nobody disturbs it.
KnownTo(e) ==
    /\ runs[Key(e)].status = "succeeded" <=> stage[e] \in {"succeeded", "reporting"}
    /\ stage[e] = "failed" => runs[Key(e)].status = "failed"
    /\ stage[e] = "reporting" /\ statuses[User(e)].day = Day(now[e])
       => statuses[User(e)].status = "succeeded"

Known ==
    \A e \in Executors : stage[e] \in Executing /\ Key(e) \notin disturbed => KnownTo(e)

\* The inductive invariant.
Safe == Past /\ Unlocked /\ Held /\ Alone /\ Known /\ EndsAreShown

-----------------------------------------------------------------------------
(* The user an executor is at.                                               *)

\* A set of numbers that is not empty has a least element.
LEMMA LeastExists ==
    ASSUME NEW S \in SUBSET Nat, S # {}
    PROVE  \E u \in S : \A v \in S : u <= v
<1> DEFINE R == {ss \in Nat \X Nat : ss[1] < ss[2]}
<1>1. IsWellFoundedOn(R, Nat)
  BY NatLessThanWellFounded DEF OpToRel
<1>2. PICK x \in S : \A y \in S : ~ (<<y, x>> \in R)
  <2>1. S \subseteq Nat
    OBVIOUS
  <2> HIDE DEF R
  <2> QED
    BY <1>1, <2>1, WFMin
<1>3. ASSUME NEW v \in S PROVE x <= v
  <2>1. x \in Nat /\ v \in Nat
    OBVIOUS
  <2>2. ~ (<<v, x>> \in R)
    BY <1>2
  <2>3. ~ (v < x)
    BY <2>1, <2>2
  <2> QED
    BY <2>1, <2>3
<1> QED
  BY <1>3

\* The user an executor is at is one of those it has to do.
LEMMA UserIsToDo ==
    ASSUME NEW e \in Executors, todo[e] \in SUBSET Users, todo[e] # {}
    PROVE  User(e) \in Users /\ User(e) \in todo[e]
<1>1. todo[e] \in SUBSET Nat
  BY UsersAssumption DEF Users
<1>2. \E u \in todo[e] : \A v \in todo[e] : u <= v
  BY <1>1, LeastExists
<1>3. User(e) \in todo[e]
  BY <1>2 DEF User, Least
<1> QED
  BY <1>3

\* An executor that is not idle has a user, a day and a key.
LEMMA KeyTyped ==
    ASSUME TypeOK, NEW e \in Executors, stage[e] # "idle"
    PROVE  User(e) \in Users /\ Day(now[e]) \in Days /\ Key(e) \in Keys
<1>1. todo[e] \in SUBSET Users /\ todo[e] # {} /\ now[e] \in 0 .. MaxClock
  BY DEF TypeOK
<1>2. User(e) \in Users
  BY <1>1, UserIsToDo
<1>3. Day(now[e]) \in Days
  BY <1>1 DEF Days
<1> QED
  BY <1>2, <1>3 DEF Key, Keys

-----------------------------------------------------------------------------
(* Types.                                                                    *)

LEMMA DayZero == 0 \in Days
<1>1. 0 \in 0 .. MaxClock /\ Day(0) = 0
  BY TimesAssumption DEF Day
<1> QED
  BY <1>1 DEF Days

LEMMA InitTyped == ASSUME Init PROVE TypeOK
<1>1. clock \in 0 .. MaxClock /\ aborts \in 0 .. MaxAborts
  BY TimesAssumption DEF Init
<1>2. runs \in [Keys -> [status : RunStatuses, lock : Nat]]
  BY DEF Init, NoRun, NoLock, RunStatuses
<1>3. statuses \in [Users -> [status : {"none", "running", "succeeded", "failed"},
                               day : Days, due : Nat]]
  BY DayZero DEF Init, NoStatus
<1>4. /\ stage \in [Executors -> Stages]
      /\ todo \in [Executors -> SUBSET Users]
      /\ \A e \in Executors : stage[e] # "idle" => todo[e] # {}
      /\ forced \in [Executors -> BOOLEAN]
  BY DEF Init, Stages
<1>5. now \in [Executors -> 0 .. MaxClock] /\ attempt \in [Executors -> 1 .. MaxAttempts]
  BY TimesAssumption, AttemptsAssumption DEF Init
<1> QED
  BY <1>1, <1>2, <1>3, <1>4, <1>5 DEF TypeOK, Init

\* The variables of the executors, without the tables.
Locals ==
    /\ stage \in [Executors -> Stages]
    /\ todo \in [Executors -> SUBSET Users]
    /\ \A e \in Executors : stage[e] # "idle" => todo[e] # {}
    /\ forced \in [Executors -> BOOLEAN]
    /\ now \in [Executors -> 0 .. MaxClock]
    /\ attempt \in [Executors -> 1 .. MaxAttempts]

\* Going on with some users, or with none.
LEMMA GoesOnTyped ==
    ASSUME TypeOK, NEW e \in Executors, NEW users \in SUBSET Users, GoesOnWith(e, users)
    PROVE  Locals'
<1> USE DEF GoesOnWith, GoesTo, TypeOK
<1>1. stage' \in [Executors -> Stages]
  BY DEF Stages
<1>2. todo' \in [Executors -> SUBSET Users]
  OBVIOUS
<1>3. \A f \in Executors : stage'[f] # "idle" => todo'[f] # {}
  OBVIOUS
<1>4. forced' \in [Executors -> BOOLEAN]
  <2>1. (users # {} /\ forced[e]) \in BOOLEAN
    OBVIOUS
  <2>2. forced' = [forced EXCEPT ![e] = users # {} /\ forced[e]]
    BY Zenon
  <2>3. forced \in [Executors -> BOOLEAN]
    OBVIOUS
  <2> QED
    BY <2>1, <2>2, <2>3, Zenon
<1>5. now' \in [Executors -> 0 .. MaxClock]
  BY TimesAssumption
<1>6. attempt' \in [Executors -> 1 .. MaxAttempts]
  BY AttemptsAssumption
<1> QED
  BY <1>1, <1>2, <1>3, <1>4, <1>5, <1>6 DEF Locals

\* Going to another stage with the same user.
LEMMA GoesToTyped ==
    ASSUME TypeOK, NEW e \in Executors, stage[e] # "idle",
           NEW s \in Stages, GoesTo(e, s),
           UNCHANGED <<todo, forced>>,
           now' \in [Executors -> 0 .. MaxClock], attempt' \in [Executors -> 1 .. MaxAttempts]
    PROVE  Locals'
<1>1. stage' \in [Executors -> Stages]
  BY DEF GoesTo, TypeOK
<1>2. \A f \in Executors : stage'[f] # "idle" => todo'[f] # {}
  BY DEF GoesTo, TypeOK
<1> QED
  BY <1>1, <1>2 DEF TypeOK, Locals

\* Writing the row of a refresh.
LEMMA SetRunTyped ==
    ASSUME TypeOK, NEW e \in Executors, NEW s \in RunStatuses, SetRun(e, s)
    PROVE  runs' \in [Keys -> [status : RunStatuses, lock : Nat]]
<1>1. runs \in [Keys -> [status : RunStatuses, lock : Nat]]
  BY DEF TypeOK
<1>2. CASE Key(e) \in Keys
  <2>1. runs[Key(e)].lock \in Nat
    BY <1>1, <1>2
  <2>2. (IF s = "running" THEN runs[Key(e)].lock ELSE NoLock) \in Nat
    BY <2>1 DEF NoLock
  <2> QED
    BY <1>1, <1>2, <2>2 DEF SetRun
<1>3. CASE Key(e) \notin Keys
  BY <1>1, <1>3 DEF SetRun
<1> QED
  BY <1>2, <1>3

\* Writing the status of a user.
LEMMA SetStatusTyped ==
    ASSUME TypeOK, NEW e \in Executors, stage[e] # "idle",
           NEW s \in {"none", "running", "succeeded", "failed"}, NEW d \in Nat,
           SetStatus(e, s, d)
    PROVE  statuses' \in [Users -> [status : {"none", "running", "succeeded", "failed"},
                                    day : Days, due : Nat]]
<1>1. Day(now[e]) \in Days
  BY KeyTyped
<1>2. clock + d \in Nat
  BY TimesAssumption DEF TypeOK
<1> QED
  BY <1>1, <1>2 DEF SetStatus, TypeOK

\* One lemma for each action, by what it writes.
LEMMA BeginsTyped ==
    ASSUME TypeOK, NEW e \in Executors, NEW users \in SUBSET Users, NEW force \in BOOLEAN,
           Begins(e, users, force)
    PROVE  TypeOK'
<1> USE DEF Begins, GoesTo, TypeOK
<1>1. stage' \in [Executors -> Stages]
  BY DEF Stages
<1>2. todo' \in [Executors -> SUBSET Users]
  OBVIOUS
<1>3. \A f \in Executors : stage'[f] # "idle" => todo'[f] # {}
  OBVIOUS
<1>4. forced' \in [Executors -> BOOLEAN]
  OBVIOUS
<1> QED
  BY <1>1, <1>2, <1>3, <1>4 DEF tables, history

LEMMA CheckTyped == ASSUME TypeOK, NEW e \in Executors, Check(e) PROVE TypeOK'
<1>1. Locals'
  <2>1. CASE /\ now' = [now EXCEPT ![e] = clock]
             /\ GoesTo(e, "creating")
             /\ UNCHANGED <<todo, forced, attempt>>
    <3>1. stage[e] # "idle" /\ "creating" \in Stages
      BY DEF Check, Stages
    <3>2. now' \in [Executors -> 0 .. MaxClock] /\ attempt' \in [Executors -> 1 .. MaxAttempts]
      BY <2>1 DEF TypeOK
    <3> QED
      BY <2>1, <3>1, <3>2, GoesToTyped
  <2>2. CASE Leaves(e)
    <3>1. todo[e] \ {User(e)} \in SUBSET Users
      BY DEF TypeOK
    <3> QED
      BY <2>2, <3>1, GoesOnTyped DEF Leaves
  <2> QED
    BY <2>1, <2>2 DEF Check
<1> QED
  BY <1>1 DEF Check, tables, history, Locals, TypeOK

LEMMA CreateTyped == ASSUME TypeOK, NEW e \in Executors, Create(e) PROVE TypeOK'
<1>1. Locals'
  <2>1. stage[e] # "idle" /\ "starting" \in Stages
    BY DEF Create, Stages, Executing
  <2>2. /\ now' \in [Executors -> 0 .. MaxClock] /\ attempt' \in [Executors -> 1 .. MaxAttempts]
        /\ UNCHANGED <<todo, forced>>
    BY DEF Create, locals, TypeOK
  <2> QED
    BY <2>1, <2>2, GoesToTyped DEF Create
<1>2. runs' \in [Keys -> [status : RunStatuses, lock : Nat]]
  <2>1. now[e] + LockTime \in Nat
    BY TimesAssumption DEF TypeOK
  <2>2. [status |-> "queued", lock |-> now[e] + LockTime] \in [status : RunStatuses, lock : Nat]
    BY <2>1 DEF RunStatuses
  <2> QED
    BY <2>2 DEF Create, TypeOK
<1> QED
  BY <1>1, <1>2 DEF Create, history, Locals, TypeOK

\* Leaving a user.
LEMMA LeavesTyped == ASSUME TypeOK, NEW e \in Executors, Leaves(e) PROVE Locals'
<1>1. todo[e] \ {User(e)} \in SUBSET Users
  BY DEF TypeOK
<1> QED
  BY <1>1, GoesOnTyped DEF Leaves

LEMMA DeduplicateTyped == ASSUME TypeOK, NEW e \in Executors, Deduplicate(e) PROVE TypeOK'
<1>1. Locals'
  BY LeavesTyped DEF Deduplicate
<1> QED
  BY <1>1 DEF Deduplicate, tables, history, Locals, TypeOK

LEMMA ReportTyped == ASSUME TypeOK, NEW e \in Executors, Report(e) PROVE TypeOK'
<1>1. Locals'
  BY LeavesTyped DEF Report
<1> QED
  BY <1>1 DEF Report, tables, history, Locals, TypeOK

LEMMA TakeOverTyped == ASSUME TypeOK, NEW e \in Executors, TakeOver(e) PROVE TypeOK'
<1>1. Locals'
  <2>1. stage[e] # "idle" /\ "starting" \in Stages
    BY DEF TakeOver, Stages, Executing
  <2>2. /\ now' \in [Executors -> 0 .. MaxClock] /\ attempt' \in [Executors -> 1 .. MaxAttempts]
        /\ UNCHANGED <<todo, forced>>
    BY DEF TakeOver, locals, TypeOK
  <2> QED
    BY <2>1, <2>2, GoesToTyped DEF TakeOver
<1>2. abandoned' \subseteq Keys
  BY DEF TakeOver, TypeOK
<1>3. disturbed' \subseteq Keys
  <2>1. Key(e) \in Keys
    BY KeyTyped DEF TakeOver
  <2> QED
    BY <2>1 DEF TakeOver, TypeOK
<1> QED
  BY <1>1, <1>2, <1>3 DEF TakeOver, tables, Locals, TypeOK

\* A stage of _execute_run that writes the run.
LEMMA RunWriterTyped ==
    ASSUME TypeOK, NEW e \in Executors, stage[e] # "idle",
           NEW s \in RunStatuses, SetRun(e, s),
           NEW t \in Stages, GoesTo(e, t),
           UNCHANGED <<clock, statuses, locals, aborts, history>>
    PROVE  TypeOK'
<1>1. /\ now' \in [Executors -> 0 .. MaxClock] /\ attempt' \in [Executors -> 1 .. MaxAttempts]
      /\ UNCHANGED <<todo, forced>>
  BY DEF locals, TypeOK
<1>2. Locals'
  BY <1>1, GoesToTyped
<1>3. runs' \in [Keys -> [status : RunStatuses, lock : Nat]]
  BY SetRunTyped
<1> QED
  BY <1>2, <1>3 DEF history, Locals, TypeOK

\* One that writes the status.
LEMMA StatusWriterTyped ==
    ASSUME TypeOK, NEW e \in Executors, stage[e] # "idle",
           NEW s \in {"none", "running", "succeeded", "failed"}, NEW d \in Nat,
           SetStatus(e, s, d),
           NEW t \in Stages, GoesTo(e, t),
           UNCHANGED <<clock, runs, locals, aborts, history>>
    PROVE  TypeOK'
<1>1. /\ now' \in [Executors -> 0 .. MaxClock] /\ attempt' \in [Executors -> 1 .. MaxAttempts]
      /\ UNCHANGED <<todo, forced>>
  BY DEF locals, TypeOK
<1>2. Locals'
  BY <1>1, GoesToTyped
<1>3. statuses' \in [Users -> [status : {"none", "running", "succeeded", "failed"},
                               day : Days, due : Nat]]
  BY SetStatusTyped
<1> QED
  BY <1>2, <1>3 DEF history, Locals, TypeOK

LEMMA AttemptFailsTyped == ASSUME TypeOK, NEW e \in Executors, AttemptFails(e) PROVE TypeOK'
<1>1. stage[e] # "idle" /\ "starting" \in Stages /\ "failing" \in Stages
  BY DEF AttemptFails, Tried, Stages, Executing
<1>2. attempt' \in [Executors -> 1 .. MaxAttempts]
  BY AttemptsAssumption DEF AttemptFails, TypeOK
<1>3. now' \in [Executors -> 0 .. MaxClock] /\ UNCHANGED <<todo, forced>>
  BY DEF AttemptFails, TypeOK
<1>4. GoesTo(e, "starting") \/ GoesTo(e, "failing")
  BY DEF AttemptFails
<1>5. Locals'
  BY <1>1, <1>2, <1>3, <1>4, GoesToTyped
<1>6. disturbed' \subseteq Keys
  <2>1. Key(e) \in Keys
    BY <1>1, KeyTyped
  <2> QED
    BY <2>1 DEF AttemptFails, TypeOK
<1> QED
  BY <1>5, <1>6 DEF AttemptFails, tables, Locals, TypeOK

LEMMA MarkFailedTyped == ASSUME TypeOK, NEW e \in Executors, MarkFailed(e) PROVE TypeOK'
<1>1. Locals'
  BY LeavesTyped DEF MarkFailed
<1>2. stage[e] # "idle" /\ RetryDelay \in Nat
  BY TimesAssumption DEF MarkFailed
<1>3. statuses' \in [Users -> [status : {"none", "running", "succeeded", "failed"},
                               day : Days, due : Nat]]
  BY <1>2, SetStatusTyped DEF MarkFailed
<1> QED
  BY <1>1, <1>3 DEF MarkFailed, history, Locals, TypeOK

LEMMA AbortTyped == ASSUME TypeOK, NEW e \in Executors, Abort(e) PROVE TypeOK'
<1>1. {} \in SUBSET Users /\ GoesOnWith(e, {})
  BY DEF Abort
<1>2. Locals'
  BY <1>1, GoesOnTyped
<1>3. aborts' \in 0 .. MaxAborts
  BY TimesAssumption DEF Abort, TypeOK
<1>4. abandoned' \subseteq Keys
  <2>1. Key(e) \in Keys
    BY KeyTyped DEF Abort
  <2> QED
    BY <2>1 DEF Abort, TypeOK
<1> QED
  BY <1>2, <1>3, <1>4 DEF Abort, tables, Locals, TypeOK

LEMMA StepTyped == ASSUME TypeOK, [Next]_vars PROVE TypeOK'
<1>1. ASSUME NEW e \in Schedulers, Poll(e) PROVE TypeOK'
  <2>1. e \in Executors /\ {u \in Users : Due(u)} \in SUBSET Users /\ FALSE \in BOOLEAN
    BY DEF Executors
  <2>2. Begins(e, {u \in Users : Due(u)}, FALSE)
    BY <1>1 DEF Poll
  <2> QED
    BY <2>1, <2>2, BeginsTyped, Zenon
<1>2. ASSUME NEW e \in Requests, Ask(e) PROVE TypeOK'
  <2>1. PICK force \in BOOLEAN :
            \/ \E u \in Users : Begins(e, {u}, force)
            \/ Begins(e, {u \in Users : force \/ Due(u)}, force)
    BY <1>2 DEF Ask
  <2>2. e \in Executors
    BY DEF Executors
  <2>3. ASSUME NEW u \in Users, Begins(e, {u}, force) PROVE TypeOK'
    <3>1. {u} \in SUBSET Users
      OBVIOUS
    <3> QED
      BY <2>2, <2>3, <3>1, BeginsTyped
  <2>4. CASE Begins(e, {u \in Users : force \/ Due(u)}, force)
    <3>1. {u \in Users : force \/ Due(u)} \in SUBSET Users
      OBVIOUS
    <3> QED
      BY <2>2, <2>4, <3>1, BeginsTyped, Zenon
  <2> QED
    BY <2>1, <2>3, <2>4
<1>3. ASSUME NEW e \in Executors, Run(e) PROVE TypeOK'
  <2> USE DEF Stages, Executing, Tried, RunStatuses
  <2>1. CASE Check(e)
    BY <2>1, CheckTyped
  <2>2. CASE Create(e)
    BY <2>2, CreateTyped
  <2>3. CASE Deduplicate(e)
    BY <2>3, DeduplicateTyped
  <2>4. CASE TakeOver(e)
    BY <2>4, TakeOverTyped
  <2>5. CASE Start(e)
    <3>1. stage[e] # "idle" /\ "running" \in RunStatuses /\ "marking" \in Stages
      BY <2>5 DEF Start
    <3> QED
      BY <2>5, <3>1, RunWriterTyped DEF Start
  <2>6. CASE MarkRunning(e)
    <3>1. /\ stage[e] # "idle" /\ "running" \in {"none", "running", "succeeded", "failed"}
          /\ "refreshing" \in Stages /\ Interval \in Nat
      BY <2>6, TimesAssumption DEF MarkRunning
    <3> QED
      BY <2>6, <3>1, StatusWriterTyped DEF MarkRunning
  <2>7. CASE Succeed(e)
    <3>1. stage[e] # "idle" /\ "succeeded" \in RunStatuses /\ "succeeded" \in Stages
      BY <2>7 DEF Succeed
    <3> QED
      BY <2>7, <3>1, RunWriterTyped DEF Succeed
  <2>8. CASE MarkSucceeded(e)
    <3>1. /\ stage[e] # "idle" /\ "succeeded" \in {"none", "running", "succeeded", "failed"}
          /\ "reporting" \in Stages /\ Interval \in Nat
      BY <2>8, TimesAssumption DEF MarkSucceeded
    <3> QED
      BY <2>8, <3>1, StatusWriterTyped DEF MarkSucceeded
  <2>9. CASE Report(e)
    BY <2>9, ReportTyped
  <2>10. CASE AttemptFails(e)
    BY <2>10, AttemptFailsTyped
  <2>11. CASE Fail(e)
    <3>1. stage[e] # "idle" /\ "failed" \in RunStatuses /\ "failed" \in Stages
      BY <2>11 DEF Fail
    <3> QED
      BY <2>11, <3>1, RunWriterTyped DEF Fail
  <2>12. CASE MarkFailed(e)
    BY <2>12, MarkFailedTyped
  <2> QED
    BY <1>3, <2>1, <2>2, <2>3, <2>4, <2>5, <2>6, <2>7, <2>8, <2>9, <2>10, <2>11, <2>12 DEF Run
<1>4. ASSUME NEW e \in Executors, Abort(e) PROVE TypeOK'
  BY <1>4, AbortTyped
<1>5. CASE Tick
  BY <1>5, TimesAssumption DEF Tick, TypeOK, tables, locals, history
<1>6. CASE UNCHANGED vars
  BY <1>6 DEF vars, TypeOK, tables, locals, history
<1> QED
  BY <1>1, <1>2, <1>3, <1>4, <1>5, <1>6 DEF Next

-----------------------------------------------------------------------------
(* What steps keep.                                                          *)

\* The other executors stay where they are.
Others(e) ==
    \A f \in Executors \ {e} :
        stage'[f] = stage[f] /\ todo'[f] = todo[f] /\ now'[f] = now[f]

\* An executor with the same user and time is at the same key.
LEMMA SameKey ==
    ASSUME NEW f \in Executors, todo'[f] = todo[f], now'[f] = now[f]
    PROVE  User(f)' = User(f) /\ Key(f)' = Key(f)
<1>1. User(f)' = User(f)
  BY DEF User
<1>2. Day(now[f])' = Day(now[f])
  BY DEF Day
<1> QED
  BY <1>1, <1>2 DEF Key

LEMMA OthersKeep ==
    ASSUME NEW e \in Executors, Others(e), NEW f \in Executors, f # e
    PROVE  /\ stage'[f] = stage[f] /\ now'[f] = now[f]
           /\ User(f)' = User(f) /\ Key(f)' = Key(f) /\ Day(now[f])' = Day(now[f])
<1>1. stage'[f] = stage[f] /\ todo'[f] = todo[f] /\ now'[f] = now[f]
  BY DEF Others
<1>2. Day(now[f])' = Day(now[f])
  BY <1>1 DEF Day
<1> QED
  BY <1>1, <1>2, SameKey

LEMMA StagesBusy == ASSUME NEW s \in Executing PROVE s # "idle"
  BY DEF Executing, Tried

-----------------------------------------------------------------------------
(* Steps that do not write the tables and end outside of _execute_run.       *)

QuietStep(e) ==
    /\ Others(e)
    /\ UNCHANGED <<clock, runs, statuses, disturbed>>
    /\ stage'[e] \notin Executing
    /\ now'[e] <= clock
    /\ abandoned \subseteq abandoned'
    /\ stage[e] \in Executing => stage[e] = "reporting" \/ Key(e) \in abandoned'

LEMMA QuietSafe ==
    ASSUME TypeOK, TypeOK', Safe, NEW e \in Executors, QuietStep(e)
    PROVE  Safe'
<1>1. Past'
  BY OthersKeep DEF QuietStep, Safe, Past
<1>2. Unlocked'
  BY DEF QuietStep, Safe, Unlocked
<1>3. Held'
  BY OthersKeep DEF QuietStep, Safe, Held
<1>4. Alone'
  <2> SUFFICES ASSUME NEW f \in Executors, NEW g \in Executors, f # g,
                      stage'[f] \in Executing, stage'[g] \in Executing, Key(f)' = Key(g)'
               PROVE  Key(f)' \in disturbed' /\ runs'[Key(f)'].lock <= clock'
    BY DEF Alone
  <2>1. f # e /\ g # e
    BY DEF QuietStep
  <2>2. /\ stage[f] \in Executing /\ stage[g] \in Executing
        /\ Key(f) = Key(g) /\ Key(f)' = Key(f)
    BY <2>1, OthersKeep DEF QuietStep
  <2> QED
    BY <2>2 DEF QuietStep, Safe, Alone
<1>5. Known'
  <2> SUFFICES ASSUME NEW f \in Executors, stage'[f] \in Executing, Key(f)' \notin disturbed'
               PROVE  KnownTo(f)'
    BY DEF Known
  <2>1. f # e
    BY DEF QuietStep
  <2>2. /\ stage'[f] = stage[f] /\ User(f)' = User(f) /\ Key(f)' = Key(f)
        /\ Day(now[f])' = Day(now[f])
    BY <2>1, OthersKeep DEF QuietStep
  <2>3. KnownTo(f)
    BY <2>2 DEF QuietStep, Safe, Known
  <2> QED
    BY <2>2, <2>3 DEF QuietStep, KnownTo
<1>6. EndsAreShown'
  <2> SUFFICES ASSUME NEW u \in Users, NEW k, k = <<u, statuses[u].day>>,
                      statuses[u].status # "none", k \notin abandoned', k \notin disturbed,
                      \A f \in Executors : ~(stage'[f] \in Executing /\ Key(f)' = k)
               PROVE  statuses[u].status = runs[k].status
    BY DEF QuietStep, EndsAreShown, LastRun, Executes
  <2>1. \A f \in Executors : f # e => ~(stage[f] \in Executing /\ Key(f) = k)
    BY OthersKeep DEF QuietStep
  <2>2. k \notin abandoned
    BY DEF QuietStep
  <2>3. CASE stage[e] \in Executing /\ Key(e) = k
    <3>1. stage[e] = "reporting"
      BY <2>3 DEF QuietStep
    <3>2. KnownTo(e)
      BY <2>3 DEF Safe, Known
    <3>3. u = User(e) /\ statuses[u].day = Day(now[e])
      BY <2>3 DEF Key
    <3> QED
      BY <2>3, <3>1, <3>2, <3>3 DEF KnownTo
  <2>4. CASE ~(stage[e] \in Executing /\ Key(e) = k)
    BY <2>1, <2>2, <2>4 DEF Safe, EndsAreShown, LastRun, Executes
  <2> QED
    BY <2>3, <2>4
<1> QED
  BY <1>1, <1>2, <1>3, <1>4, <1>5, <1>6 DEF Safe

-----------------------------------------------------------------------------
(* Steps inside of _execute_run.                                             *)

\* What such a step may write.
WritesRun(e) ==
    \A k \in Keys :
        /\ k # Key(e) => runs'[k] = runs[k]
        /\ runs'[k].lock = runs[k].lock \/ runs'[k].lock = NoLock
        /\ runs'[k].status \notin {"queued", "running"} => runs'[k].lock = NoLock
        /\ runs[k].status # "none" => runs'[k].status # "none"

WritesStatus(e) ==
    \A u \in Users : \/ statuses'[u] = statuses[u]
                     \/ u = User(e) /\ statuses'[u].day = Day(now[e])

InStep(e) ==
    /\ Others(e)
    /\ todo'[e] = todo[e] /\ now'[e] = now[e]
    /\ stage[e] \in Executing /\ stage'[e] \in Executing
    /\ UNCHANGED <<clock, abandoned>>
    /\ disturbed \subseteq disturbed'
    /\ WritesRun(e) /\ WritesStatus(e)
    /\ Key(e) \notin disturbed' => KnownTo(e)'

LEMMA InSafe ==
    ASSUME TypeOK, TypeOK', Safe, NEW e \in Executors, InStep(e)
    PROVE  Safe'
<1>1. User(e)' = User(e) /\ Key(e)' = Key(e)
  BY SameKey DEF InStep
<1>2. \A f \in Executors :
        /\ stage'[f] \in Executing <=> stage[f] \in Executing
        /\ now'[f] = now[f] /\ User(f)' = User(f) /\ Key(f)' = Key(f)
  BY <1>1, OthersKeep DEF InStep
<1>3. \A f \in Executors : stage[f] \in Executing => Key(f) \in Keys
  BY KeyTyped, StagesBusy
<1>4. Past'
  BY <1>2 DEF InStep, Safe, Past
<1>5. Unlocked'
  BY DEF InStep, WritesRun, Unlocked
<1>6. Held'
  BY <1>2, <1>3 DEF InStep, WritesRun, Safe, Held
<1>7. Alone'
  <2> SUFFICES ASSUME NEW f \in Executors, NEW g \in Executors, f # g,
                      stage'[f] \in Executing, stage'[g] \in Executing, Key(f)' = Key(g)'
               PROVE  Key(f)' \in disturbed' /\ runs'[Key(f)'].lock <= clock'
    BY DEF Alone
  <2>1. /\ stage[f] \in Executing /\ stage[g] \in Executing
        /\ Key(f) = Key(g) /\ Key(f)' = Key(f) /\ Key(f) \in Keys
    BY <1>2, <1>3
  <2>2. Key(f) \in disturbed /\ runs[Key(f)].lock <= clock
    BY <2>1 DEF Safe, Alone
  <2>3. runs'[Key(f)].lock = runs[Key(f)].lock \/ runs'[Key(f)].lock = NoLock
    BY <2>1 DEF InStep, WritesRun
  <2>4. runs'[Key(f)].lock <= clock
    BY <2>2, <2>3 DEF NoLock, TypeOK
  <2> QED
    BY <2>1, <2>2, <2>4 DEF InStep
<1>8. Known'
  <2> SUFFICES ASSUME NEW f \in Executors, stage'[f] \in Executing, Key(f)' \notin disturbed'
               PROVE  KnownTo(f)'
    BY DEF Known
  <2>1. CASE f = e
    BY <1>1, <2>1 DEF InStep
  <2>2. CASE f # e
    <3>1. /\ stage'[f] = stage[f] /\ User(f)' = User(f) /\ Key(f)' = Key(f)
          /\ Day(now[f])' = Day(now[f])
      BY <2>2, OthersKeep DEF InStep
    <3>2. stage[f] \in Executing /\ Key(f) \in Keys /\ Key(f) \notin disturbed
      BY <1>3, <3>1 DEF InStep
    <3>3. Key(f) # Key(e)
      BY <2>2, <3>2 DEF InStep, Safe, Alone
    <3>4. runs'[Key(f)] = runs[Key(f)]
      BY <3>2, <3>3 DEF InStep, WritesRun
    <3>5. User(f) \in Users
      BY <3>2, KeyTyped, StagesBusy
    <3>6. statuses'[User(f)] = statuses[User(f)] \/ statuses'[User(f)].day # Day(now[f])
      <4>1. User(f) = User(e) => Day(now[f]) # Day(now[e])
        BY <3>3 DEF Key
      <4> QED
        BY <3>5, <4>1 DEF InStep, WritesStatus
    <3>7. KnownTo(f)
      BY <3>2 DEF Safe, Known
    <3> QED
      BY <3>1, <3>4, <3>6, <3>7 DEF KnownTo
  <2> QED
    BY <2>1, <2>2
<1>9. EndsAreShown'
  <2> SUFFICES ASSUME NEW u \in Users, NEW k, k = <<u, statuses'[u].day>>,
                      statuses'[u].status # "none", k \notin abandoned', k \notin disturbed',
                      \A f \in Executors : ~(stage'[f] \in Executing /\ Key(f)' = k)
               PROVE  statuses'[u].status = runs'[k].status
    BY DEF EndsAreShown, LastRun, Executes
  <2>1. \A f \in Executors : ~(stage[f] \in Executing /\ Key(f) = k)
    BY <1>2
  <2>2. Key(e) # k
    BY <2>1 DEF InStep
  <2>3. statuses'[u] = statuses[u]
    <3>1. ~(u = User(e) /\ statuses'[u].day = Day(now[e]))
      BY <2>2 DEF Key
    <3> QED
      BY <3>1 DEF InStep, WritesStatus
  <2>4. k \in Keys
    BY <2>3 DEF Keys, TypeOK
  <2>5. runs'[k] = runs[k]
    BY <2>2, <2>4 DEF InStep, WritesRun
  <2>6. k \notin abandoned /\ k \notin disturbed
    BY DEF InStep
  <2>7. statuses[u].status = runs[k].status
    BY <2>1, <2>3, <2>6 DEF Safe, EndsAreShown, LastRun, Executes
  <2> QED
    BY <2>3, <2>5, <2>7
<1> QED
  BY <1>4, <1>5, <1>6, <1>7, <1>8, <1>9 DEF Safe

\* GoesTo and the variables an executing step leaves alone.
LEMMA GoesToKeepsOthers ==
    ASSUME TypeOK, NEW e \in Executors, NEW s, GoesTo(e, s), UNCHANGED <<todo, now>>
    PROVE  Others(e) /\ stage'[e] = s
  BY DEF GoesTo, Others, TypeOK

LEMMA SetRunWrites ==
    ASSUME TypeOK, Safe, NEW e \in Executors, Key(e) \in Keys,
           NEW s \in {"running", "succeeded", "failed"}, SetRun(e, s)
    PROVE  WritesRun(e) /\ runs'[Key(e)].status = s
<1>1. runs'[Key(e)] = [status |-> s,
                       lock |-> IF s = "running" THEN runs[Key(e)].lock ELSE NoLock]
  BY DEF SetRun, TypeOK
<1>2. \A k \in Keys : k # Key(e) => runs'[k] = runs[k]
  BY DEF SetRun, TypeOK
<1>3. WritesRun(e)
  <2> SUFFICES ASSUME NEW k \in Keys
               PROVE  /\ k # Key(e) => runs'[k] = runs[k]
                      /\ runs'[k].lock = runs[k].lock \/ runs'[k].lock = NoLock
                      /\ runs'[k].status \notin {"queued", "running"} => runs'[k].lock = NoLock
                      /\ runs[k].status # "none" => runs'[k].status # "none"
    BY DEF WritesRun
  <2>1. CASE k = Key(e)
    BY <1>1, <2>1
  <2>2. CASE k # Key(e)
    BY <1>2, <2>2 DEF Safe, Unlocked
  <2> QED
    BY <2>1, <2>2
<1> QED
  BY <1>1, <1>3

LEMMA SetStatusWrites ==
    ASSUME TypeOK, NEW e \in Executors, User(e) \in Users, NEW s, NEW d, SetStatus(e, s, d)
    PROVE  /\ WritesStatus(e)
           /\ statuses'[User(e)].status = s /\ statuses'[User(e)].day = Day(now[e])
           /\ \A u \in Users : u # User(e) => statuses'[u] = statuses[u]
<1>1. statuses'[User(e)] = [status |-> s, day |-> Day(now[e]), due |-> clock + d]
  BY DEF SetStatus, TypeOK
<1>2. \A u \in Users : u # User(e) => statuses'[u] = statuses[u]
  BY DEF SetStatus, TypeOK
<1> QED
  BY <1>1, <1>2 DEF WritesStatus

LEMMA NothingWritten ==
    ASSUME Safe, NEW e \in Executors
    PROVE  /\ UNCHANGED runs => WritesRun(e)
           /\ UNCHANGED statuses => WritesStatus(e)
  BY DEF Safe, Unlocked, WritesRun, WritesStatus

\* A step that writes the run.
LEMMA RunWriterIn ==
    ASSUME TypeOK, Safe, NEW e \in Executors, stage[e] \in Executing,
           NEW s \in {"running", "succeeded", "failed"}, SetRun(e, s),
           NEW t \in Executing, GoesTo(e, t),
           s = "succeeded" <=> t = "succeeded", t # "reporting", t = "failed" => s = "failed",
           UNCHANGED <<clock, statuses, locals, aborts, history>>
    PROVE  InStep(e)
<1>1. UNCHANGED <<todo, now>>
  BY DEF locals
<1>2. Others(e) /\ stage'[e] = t
  BY <1>1, GoesToKeepsOthers
<1>3. Key(e) \in Keys
  BY KeyTyped, StagesBusy
<1>4. WritesRun(e) /\ runs'[Key(e)].status = s
  BY <1>3, SetRunWrites
<1>5. Key(e)' = Key(e)
  BY <1>1, SameKey
<1>6. KnownTo(e)'
  BY <1>2, <1>4, <1>5 DEF KnownTo
<1> QED
  BY <1>1, <1>2, <1>4, <1>6, NothingWritten DEF InStep, history

\* A step that writes the status.
LEMMA StatusWriterIn ==
    ASSUME TypeOK, Safe, NEW e \in Executors, stage[e] \in Executing,
           NEW s, NEW d, SetStatus(e, s, d),
           NEW t \in Executing, GoesTo(e, t),
           \/ stage[e] = "succeeded" /\ s = "succeeded" /\ t = "reporting"
           \/ stage[e] = "marking" /\ t = "refreshing",
           UNCHANGED <<clock, runs, locals, aborts, history>>
    PROVE  InStep(e)
<1>1. UNCHANGED <<todo, now>>
  BY DEF locals
<1>2. Others(e) /\ stage'[e] = t
  BY <1>1, GoesToKeepsOthers
<1>3. User(e) \in Users
  BY KeyTyped, StagesBusy
<1>4. WritesStatus(e) /\ statuses'[User(e)].status = s
  BY <1>3, SetStatusWrites
<1>5. Key(e)' = Key(e) /\ User(e)' = User(e)
  BY <1>1, SameKey
<1>6. Key(e) \notin disturbed => KnownTo(e)
  BY DEF Safe, Known
<1>7. KnownTo(e) => KnownTo(e)'
  BY <1>2, <1>4, <1>5 DEF KnownTo
<1> QED
  BY <1>1, <1>2, <1>4, <1>6, <1>7, NothingWritten DEF InStep, history

LEMMA AttemptFailsIn ==
    ASSUME TypeOK, Safe, NEW e \in Executors, AttemptFails(e)
    PROVE  InStep(e)
<1>1. UNCHANGED <<todo, now, runs, statuses, clock, abandoned>>
  BY DEF AttemptFails, tables
<1>2. stage[e] \in Executing
  BY DEF AttemptFails, Executing
<1>3. PICK t \in {"starting", "failing"} : GoesTo(e, t)
  BY DEF AttemptFails
<1>4. Others(e) /\ stage'[e] = t
  BY <1>1, <1>3, GoesToKeepsOthers
<1>5. stage'[e] \in Executing
  BY <1>3, <1>4 DEF Executing
<1>6. Key(e)' = Key(e) /\ User(e)' = User(e)
  BY <1>1, SameKey
<1>7. disturbed \subseteq disturbed'
  BY DEF AttemptFails
<1>8. ASSUME Key(e) \notin disturbed' PROVE KnownTo(e)'
  <2>1. stage[e] = "refreshing"
    BY <1>8 DEF AttemptFails
  <2>2. KnownTo(e)
    BY <1>2, <1>7, <1>8 DEF Safe, Known
  <2>3. runs[Key(e)].status # "succeeded"
    BY <2>1, <2>2 DEF KnownTo
  <2> QED
    BY <1>1, <1>3, <1>4, <1>6, <2>3 DEF KnownTo
<1> QED
  BY <1>1, <1>2, <1>4, <1>5, <1>7, <1>8, NothingWritten DEF InStep

\* The stages of _execute_run, one by one.
LEMMA StagesIn ==
    ASSUME TypeOK, Safe, NEW e \in Executors,
           Start(e) \/ MarkRunning(e) \/ Succeed(e) \/ MarkSucceeded(e)
           \/ AttemptFails(e) \/ Fail(e)
    PROVE  InStep(e)
<1> USE DEF Executing, Tried
<1>1. CASE Start(e)
  <2>1. stage[e] \in Executing /\ "marking" \in Executing
    BY <1>1 DEF Start
  <2> QED
    BY <1>1, <2>1, RunWriterIn DEF Start
<1>2. CASE MarkRunning(e)
  <2>1. stage[e] \in Executing /\ "refreshing" \in Executing
    BY <1>2 DEF MarkRunning
  <2> QED
    BY <1>2, <2>1, StatusWriterIn DEF MarkRunning
<1>3. CASE Succeed(e)
  <2>1. stage[e] \in Executing /\ "succeeded" \in Executing
    BY <1>3 DEF Succeed
  <2> QED
    BY <1>3, <2>1, RunWriterIn DEF Succeed
<1>4. CASE MarkSucceeded(e)
  <2>1. stage[e] \in Executing /\ "reporting" \in Executing
    BY <1>4 DEF MarkSucceeded
  <2> QED
    BY <1>4, <2>1, StatusWriterIn DEF MarkSucceeded
<1>5. CASE AttemptFails(e)
  BY <1>5, AttemptFailsIn
<1>6. CASE Fail(e)
  <2>1. stage[e] \in Executing /\ "failed" \in Executing
    BY <1>6 DEF Fail
  <2> QED
    BY <1>6, <2>1, RunWriterIn DEF Fail
<1> QED
  BY <1>1, <1>2, <1>3, <1>4, <1>5, <1>6

-----------------------------------------------------------------------------
(* Steps that enter _execute_run or leave it with a failure.                 *)

LEMMA CreateSafe ==
    ASSUME TypeOK, TypeOK', Safe, NEW e \in Executors, Create(e)
    PROVE  Safe'
<1>1. UNCHANGED <<todo, now, clock, statuses, disturbed, abandoned>>
  BY DEF Create, locals, history
<1>2. Others(e) /\ stage'[e] = "starting" /\ stage[e] = "creating"
  BY <1>1, GoesToKeepsOthers DEF Create
<1>3. \A f \in Executors : now'[f] = now[f] /\ User(f)' = User(f) /\ Key(f)' = Key(f)
  BY <1>1, SameKey
<1>4. \A f \in Executors : f # e => stage'[f] = stage[f]
  BY <1>2 DEF Others
<1>5. Key(e) \in Keys
  BY <1>2, KeyTyped
<1>6. /\ runs'[Key(e)].status = "queued"
      /\ \A k \in Keys : k # Key(e) => runs'[k] = runs[k]
  BY <1>5 DEF Create, TypeOK
<1>7. \A f \in Executors : stage[f] \in Executing => Key(f) \in Keys /\ Key(f) # Key(e)
  <2>1. runs[Key(e)].status = "none"
    BY DEF Create, NoRun
  <2> QED
    BY <2>1, KeyTyped, StagesBusy DEF Safe, Held
<1>8. stage[e] \notin Executing /\ stage'[e] \in Executing
  BY <1>2 DEF Executing, Tried
<1>9. Past'
  BY <1>1, <1>3 DEF Safe, Past
<1>10. Unlocked'
  BY <1>6 DEF Safe, Unlocked
<1>11. Held'
  BY <1>3, <1>4, <1>6, <1>7 DEF Safe, Held
<1>12. Alone'
  <2> SUFFICES ASSUME NEW f \in Executors, NEW g \in Executors, f # g,
                      stage'[f] \in Executing, stage'[g] \in Executing, Key(f) = Key(g)
               PROVE  Key(f) \in disturbed /\ runs'[Key(f)].lock <= clock
    BY <1>1, <1>3 DEF Alone
  <2>1. f # e /\ g # e
    BY <1>4, <1>7
  <2>2. Key(f) \in disturbed /\ runs[Key(f)].lock <= clock
    BY <1>4, <2>1 DEF Safe, Alone
  <2> QED
    BY <1>4, <1>6, <1>7, <2>1, <2>2
<1>13. Known'
  <2> SUFFICES ASSUME NEW f \in Executors, stage'[f] \in Executing, Key(f) \notin disturbed
               PROVE  KnownTo(f)'
    BY <1>1, <1>3 DEF Known
  <2>1. CASE f = e
    BY <1>2, <1>3, <1>6, <2>1 DEF KnownTo
  <2>2. CASE f # e
    <3>1. KnownTo(f)
      BY <1>4, <2>2 DEF Safe, Known
    <3>2. runs'[Key(f)] = runs[Key(f)] /\ stage'[f] = stage[f]
      BY <1>4, <1>6, <1>7, <2>2
    <3>3. Day(now[f])' = Day(now[f])
      BY <1>1 DEF Day
    <3> QED
      BY <1>1, <1>3, <3>1, <3>2, <3>3 DEF KnownTo
  <2> QED
    BY <2>1, <2>2
<1>14. EndsAreShown'
  <2> SUFFICES ASSUME NEW u \in Users, NEW k, k = <<u, statuses[u].day>>,
                      statuses[u].status # "none", k \notin abandoned, k \notin disturbed,
                      \A f \in Executors : ~(stage'[f] \in Executing /\ Key(f) = k)
               PROVE  statuses[u].status = runs'[k].status
    BY <1>1, <1>3 DEF EndsAreShown, LastRun, Executes
  <2>1. \A f \in Executors : ~(stage[f] \in Executing /\ Key(f) = k)
    BY <1>4, <1>8
  <2>2. k \in Keys /\ k # Key(e)
    BY <1>8 DEF Keys, TypeOK
  <2> QED
    BY <1>6, <2>1, <2>2 DEF Safe, EndsAreShown, LastRun, Executes
<1> QED
  BY <1>9, <1>10, <1>11, <1>12, <1>13, <1>14 DEF Safe

\* The lock of a run that is taken over is over.
LEMMA TakenOverIsUnlocked ==
    ASSUME TypeOK, Safe, NEW e \in Executors, Key(e) \in Keys, ~Deduplicated(e)
    PROVE  runs[Key(e)].lock <= clock /\ runs[Key(e)].status # "succeeded"
<1>1. runs[Key(e)].lock \in Nat /\ now[e] \in Nat /\ clock \in Nat /\ now[e] <= clock
  BY DEF TypeOK, Safe, Past
<1>2. CASE runs[Key(e)].status \in {"queued", "running"}
  BY <1>1, <1>2 DEF Deduplicated
<1>3. CASE runs[Key(e)].status \notin {"queued", "running"}
  BY <1>1, <1>3 DEF Deduplicated, Safe, Unlocked, NoLock
<1> QED
  BY <1>2, <1>3

LEMMA TakeOverSafe ==
    ASSUME TypeOK, TypeOK', Safe, NEW e \in Executors, TakeOver(e)
    PROVE  Safe'
<1>1. UNCHANGED <<todo, now, clock, runs, statuses>>
  BY DEF TakeOver, locals, tables
<1>2. Others(e) /\ stage'[e] = "starting" /\ stage[e] = "creating"
  BY <1>1, GoesToKeepsOthers DEF TakeOver
<1>3. \A f \in Executors : now'[f] = now[f] /\ User(f)' = User(f) /\ Key(f)' = Key(f)
  BY <1>1, SameKey
<1>4. \A f \in Executors : f # e => stage'[f] = stage[f]
  BY <1>2 DEF Others
<1>5. Key(e) \in Keys
  BY <1>2, KeyTyped
<1>6. runs[Key(e)].lock <= clock /\ runs[Key(e)].status # "succeeded"
  BY <1>5, TakenOverIsUnlocked DEF TakeOver
<1>7. stage[e] \notin Executing /\ stage'[e] \in Executing
  BY <1>2 DEF Executing, Tried
<1>8. /\ disturbed \subseteq disturbed'
      /\ \A f \in Executors : stage[f] \in Executing /\ Key(f) = Key(e) => Key(e) \in disturbed'
  BY DEF TakeOver, Executes
<1>9. Past'
  BY <1>1, <1>3 DEF Safe, Past
<1>10. Unlocked'
  BY <1>1 DEF Safe, Unlocked
<1>11. Held'
  <2>1. runs[Key(e)].status # "none"
    <3>1. runs[Key(e)] # NoRun /\ runs[Key(e)] \in [status : RunStatuses, lock : Nat]
      BY <1>5 DEF TakeOver, TypeOK
    <3>2. runs[Key(e)].status = "none" => runs[Key(e)].lock = NoLock
      BY <1>5 DEF Safe, Unlocked
    <3> QED
      BY <3>1, <3>2 DEF NoRun
  <2> QED
    BY <1>1, <1>3, <1>4, <2>1 DEF Safe, Held
<1>12. Alone'
  <2> SUFFICES ASSUME NEW f \in Executors, NEW g \in Executors, f # g,
                      stage'[f] \in Executing, stage'[g] \in Executing, Key(f) = Key(g)
               PROVE  Key(f) \in disturbed' /\ runs[Key(f)].lock <= clock
    BY <1>1, <1>3 DEF Alone
  <2>1. CASE f = e
    BY <1>4, <1>6, <1>8, <2>1
  <2>2. CASE g = e
    BY <1>4, <1>6, <1>8, <2>2
  <2>3. CASE f # e /\ g # e
    BY <1>4, <1>8, <2>3 DEF Safe, Alone
  <2> QED
    BY <2>1, <2>2, <2>3
<1>13. Known'
  <2> SUFFICES ASSUME NEW f \in Executors, stage'[f] \in Executing, Key(f) \notin disturbed'
               PROVE  KnownTo(f)'
    BY <1>3 DEF Known
  <2>1. CASE f = e
    BY <1>1, <1>2, <1>3, <1>6, <2>1 DEF KnownTo
  <2>2. CASE f # e
    <3>1. KnownTo(f)
      BY <1>4, <1>8, <2>2 DEF Safe, Known
    <3>2. stage'[f] = stage[f] /\ Day(now[f])' = Day(now[f])
      BY <1>1, <1>4, <2>2 DEF Day
    <3> QED
      BY <1>1, <1>3, <3>1, <3>2 DEF KnownTo
  <2> QED
    BY <2>1, <2>2
<1>14. EndsAreShown'
  <2> SUFFICES ASSUME NEW u \in Users, NEW k, k = <<u, statuses[u].day>>,
                      statuses[u].status # "none", k \notin abandoned', k \notin disturbed',
                      \A f \in Executors : ~(stage'[f] \in Executing /\ Key(f) = k)
               PROVE  statuses[u].status = runs[k].status
    BY <1>1, <1>3 DEF EndsAreShown, LastRun, Executes
  <2>1. \A f \in Executors : ~(stage[f] \in Executing /\ Key(f) = k)
    BY <1>4, <1>7
  <2>2. k # Key(e)
    BY <1>7
  <2>3. k \notin abandoned /\ k \notin disturbed
    BY <1>8, <2>2 DEF TakeOver
  <2> QED
    BY <2>1, <2>3 DEF Safe, EndsAreShown, LastRun, Executes
<1> QED
  BY <1>9, <1>10, <1>11, <1>12, <1>13, <1>14 DEF Safe

\* An executor that goes on with other users is outside of _execute_run.
LEMMA GoesOnLeaves ==
    ASSUME TypeOK, NEW e \in Executors, NEW users, GoesOnWith(e, users)
    PROVE  Others(e) /\ stage'[e] \notin Executing /\ now'[e] = 0
<1>1. stage'[e] \in {"idle", "checking"} /\ now'[e] = 0
  BY DEF GoesOnWith, GoesTo, TypeOK
<1>2. Others(e)
  BY DEF GoesOnWith, GoesTo, Others, TypeOK
<1> QED
  BY <1>1, <1>2 DEF Executing, Tried

LEMMA MarkFailedSafe ==
    ASSUME TypeOK, TypeOK', Safe, NEW e \in Executors, MarkFailed(e)
    PROVE  Safe'
<1>1. UNCHANGED <<clock, runs, disturbed, abandoned>>
  BY DEF MarkFailed, history
<1>2. Others(e) /\ stage'[e] \notin Executing /\ now'[e] = 0
  BY GoesOnLeaves DEF MarkFailed, Leaves
<1>3. stage[e] = "failed" /\ stage[e] \in Executing
  BY DEF MarkFailed, Executing
<1>4. \A f \in Executors : stage'[f] \in Executing =>
        /\ f # e /\ stage'[f] = stage[f] /\ User(f)' = User(f) /\ Key(f)' = Key(f)
        /\ Day(now[f])' = Day(now[f])
  BY <1>2, OthersKeep
<1>5. User(e) \in Users
  BY <1>3, KeyTyped
<1>6. /\ WritesStatus(e)
      /\ statuses'[User(e)].status = "failed" /\ statuses'[User(e)].day = Day(now[e])
      /\ \A u \in Users : u # User(e) => statuses'[u] = statuses[u]
  BY <1>5, SetStatusWrites DEF MarkFailed
<1>7. Past'
  <2>1. 0 <= clock
    BY DEF TypeOK
  <2> QED
    BY <1>1, <1>2, <2>1, OthersKeep DEF Safe, Past
<1>8. Unlocked'
  BY <1>1 DEF Safe, Unlocked
<1>9. Held'
  BY <1>1, <1>4 DEF Safe, Held
<1>10. Alone'
  BY <1>1, <1>4 DEF Safe, Alone
<1>11. Known'
  <2> SUFFICES ASSUME NEW f \in Executors, stage'[f] \in Executing, Key(f)' \notin disturbed'
               PROVE  KnownTo(f)'
    BY DEF Known
  <2>1. KnownTo(f) /\ stage[f] \in Executing
    BY <1>1, <1>4 DEF Safe, Known
  <2>2. Key(f) # Key(e)
    BY <1>1, <1>3, <1>4, <2>1 DEF Safe, Alone
  <2>3. User(f) \in Users
    BY <2>1, KeyTyped, StagesBusy
  <2>4. statuses'[User(f)] = statuses[User(f)] \/ statuses'[User(f)].day # Day(now[f])
    BY <1>6, <2>2, <2>3 DEF Key
  <2> QED
    BY <1>1, <1>4, <2>1, <2>4 DEF KnownTo
<1>12. EndsAreShown'
  <2> SUFFICES ASSUME NEW u \in Users, NEW k, k = <<u, statuses'[u].day>>,
                      statuses'[u].status # "none", k \notin abandoned, k \notin disturbed,
                      \A f \in Executors : ~(stage'[f] \in Executing /\ Key(f)' = k)
               PROVE  statuses'[u].status = runs[k].status
    BY <1>1 DEF EndsAreShown, LastRun, Executes
  <2>1. CASE u = User(e)
    <3>1. k = Key(e)
      BY <1>6, <2>1 DEF Key
    <3>2. KnownTo(e)
      BY <1>3, <3>1 DEF Safe, Known
    <3> QED
      BY <1>3, <1>6, <2>1, <3>1, <3>2 DEF KnownTo
  <2>2. CASE u # User(e)
    <3>1. Key(e) # k /\ statuses'[u] = statuses[u]
      BY <1>6, <2>2 DEF Key
    <3>2. \A f \in Executors : ~(stage[f] \in Executing /\ Key(f) = k)
      BY <1>2, <3>1, OthersKeep
    <3> QED
      BY <3>1, <3>2 DEF Safe, EndsAreShown, LastRun, Executes
  <2> QED
    BY <2>1, <2>2
<1> QED
  BY <1>7, <1>8, <1>9, <1>10, <1>11, <1>12 DEF Safe

-----------------------------------------------------------------------------
(* Quiet steps.                                                              *)

LEMMA BeginsQuiet ==
    ASSUME TypeOK, Safe, NEW e \in Executors, NEW users, NEW force, Begins(e, users, force)
    PROVE  QuietStep(e)
<1>1. /\ UNCHANGED <<clock, runs, statuses, now, abandoned, disturbed>>
      /\ stage[e] = "idle" /\ stage'[e] = "checking"
  BY DEF Begins, GoesTo, TypeOK, tables, history
<1>2. Others(e)
  BY DEF Begins, GoesTo, Others, TypeOK
<1>3. stage[e] \notin Executing /\ stage'[e] \notin Executing
  BY <1>1 DEF Executing, Tried
<1>4. now'[e] <= clock
  BY <1>1 DEF Safe, Past
<1> QED
  BY <1>1, <1>2, <1>3, <1>4 DEF QuietStep

\* Leaving without a word to the tables.
LEMMA LeavesQuiet ==
    ASSUME TypeOK, Safe, NEW e \in Executors, NEW users, GoesOnWith(e, users),
           UNCHANGED <<clock, runs, statuses, disturbed>>, abandoned \subseteq abandoned',
           stage[e] \in Executing => stage[e] = "reporting" \/ Key(e) \in abandoned'
    PROVE  QuietStep(e)
<1>1. Others(e) /\ stage'[e] \notin Executing /\ now'[e] = 0
  BY GoesOnLeaves
<1>2. now'[e] <= clock
  BY <1>1 DEF TypeOK
<1> QED
  BY <1>1, <1>2 DEF QuietStep

LEMMA CheckQuiet ==
    ASSUME TypeOK, Safe, NEW e \in Executors, Check(e)
    PROVE  QuietStep(e)
<1>1. UNCHANGED <<clock, runs, statuses, abandoned, disturbed>> /\ stage[e] = "checking"
  BY DEF Check, tables, history
<1>2. stage[e] \notin Executing
  BY <1>1 DEF Executing, Tried
<1>3. CASE Leaves(e)
  BY <1>1, <1>2, <1>3, LeavesQuiet DEF Leaves
<1>4. CASE /\ now' = [now EXCEPT ![e] = clock]
           /\ GoesTo(e, "creating")
           /\ UNCHANGED <<todo, forced, attempt>>
  <2>1. Others(e) /\ stage'[e] = "creating" /\ now'[e] = clock
    BY <1>4 DEF GoesTo, Others, TypeOK
  <2>2. stage'[e] \notin Executing
    BY <2>1 DEF Executing, Tried
  <2>3. now'[e] <= clock
    BY <2>1 DEF TypeOK
  <2> QED
    BY <1>1, <1>2, <2>1, <2>2, <2>3 DEF QuietStep
<1> QED
  BY <1>3, <1>4 DEF Check

LEMMA DeduplicateQuiet ==
    ASSUME TypeOK, Safe, NEW e \in Executors, Deduplicate(e)
    PROVE  QuietStep(e)
<1>1. UNCHANGED <<clock, runs, statuses, abandoned, disturbed>> /\ stage[e] = "creating"
  BY DEF Deduplicate, tables, history
<1>2. stage[e] \notin Executing
  BY <1>1 DEF Executing, Tried
<1> QED
  BY <1>1, <1>2, LeavesQuiet DEF Deduplicate, Leaves

LEMMA ReportQuiet ==
    ASSUME TypeOK, Safe, NEW e \in Executors, Report(e)
    PROVE  QuietStep(e)
<1>1. UNCHANGED <<clock, runs, statuses, abandoned, disturbed>> /\ stage[e] = "reporting"
  BY DEF Report, tables, history
<1> QED
  BY <1>1, LeavesQuiet DEF Report, Leaves

LEMMA AbortQuiet ==
    ASSUME TypeOK, Safe, NEW e \in Executors, Abort(e)
    PROVE  QuietStep(e)
<1>1. UNCHANGED <<clock, runs, statuses, disturbed>> /\ GoesOnWith(e, {})
  BY DEF Abort, tables
<1>2. /\ abandoned \subseteq abandoned'
      /\ stage[e] \in Executing => Key(e) \in abandoned'
  BY DEF Abort
<1> QED
  BY <1>1, <1>2, LeavesQuiet

-----------------------------------------------------------------------------
(* The invariant.                                                            *)

LEMMA TimeSafe ==
    ASSUME TypeOK, Safe, Tick \/ UNCHANGED vars
    PROVE  Safe'
<1>1. UNCHANGED <<tables, stage, locals, aborts, history>> /\ clock <= clock'
  BY DEF Tick, vars, TypeOK
<1>2. UNCHANGED <<runs, statuses, stage, todo, now, abandoned, disturbed>>
  BY <1>1 DEF tables, locals, history
<1>3. \A f \in Executors : User(f)' = User(f) /\ Key(f)' = Key(f) /\ Day(now[f])' = Day(now[f])
  BY <1>2, SameKey DEF Day
<1>4. Past'
  <2>1. \A f \in Executors : now[f] \in Nat /\ now[f] <= clock
    BY DEF TypeOK, Safe, Past
  <2>2. clock \in Nat /\ clock' \in Nat
    BY DEF Tick, vars, TypeOK
  <2> QED
    BY <1>1, <1>2, <2>1, <2>2 DEF Past
<1>5. Unlocked' /\ Held'
  BY <1>2, <1>3 DEF Safe, Unlocked, Held
<1>6. Alone'
  <2> SUFFICES ASSUME NEW f \in Executors, NEW g \in Executors, f # g,
                      stage[f] \in Executing, stage[g] \in Executing, Key(f) = Key(g)
               PROVE  Key(f) \in disturbed /\ runs[Key(f)].lock <= clock'
    BY <1>2, <1>3 DEF Alone
  <2>1. Key(f) \in disturbed /\ runs[Key(f)].lock <= clock
    BY DEF Safe, Alone
  <2>2. Key(f) \in Keys
    BY KeyTyped, StagesBusy
  <2>3. runs[Key(f)].lock \in Nat
    BY <2>2 DEF TypeOK
  <2>4. clock \in Nat /\ clock' \in Nat
    BY DEF Tick, vars, TypeOK
  <2> QED
    BY <1>1, <2>1, <2>3, <2>4
<1>7. Known'
  BY <1>2, <1>3 DEF Safe, Known, KnownTo
<1>8. EndsAreShown'
  BY <1>2, <1>3 DEF Safe, EndsAreShown, LastRun, Executes
<1> QED
  BY <1>4, <1>5, <1>6, <1>7, <1>8 DEF Safe

LEMMA InitSafe == ASSUME Init PROVE Safe
<1>1. \A e \in Executors : stage[e] = "idle" /\ now[e] = 0
  BY DEF Init
<1>2. \A e \in Executors : stage[e] \notin Executing
  BY <1>1 DEF Executing, Tried
<1>3. Past
  BY <1>1 DEF Init, Past
<1>4. Unlocked
  BY DEF Init, Unlocked, NoRun
<1>5. Held /\ Alone /\ Known
  BY <1>2 DEF Held, Alone, Known
<1>6. EndsAreShown
  BY DEF Init, EndsAreShown, LastRun, NoStatus
<1> QED
  BY <1>3, <1>4, <1>5, <1>6 DEF Safe

\* What an action of an executor is, for the invariant.
LEMMA RunKinds ==
    ASSUME TypeOK, Safe, NEW e \in Executors, Run(e)
    PROVE  QuietStep(e) \/ InStep(e) \/ Create(e) \/ TakeOver(e) \/ MarkFailed(e)
  BY CheckQuiet, DeduplicateQuiet, ReportQuiet, StagesIn DEF Run

LEMMA StepSafe == ASSUME TypeOK, TypeOK', Safe, [Next]_vars PROVE Safe'
<1>1. ASSUME NEW e \in Schedulers, Poll(e) PROVE Safe'
  BY <1>1, BeginsQuiet, QuietSafe DEF Poll, Executors
<1>2. ASSUME NEW e \in Requests, Ask(e) PROVE Safe'
  <2>1. e \in Executors
    BY DEF Executors
  <2>2. PICK users, force : Begins(e, users, force)
    BY <1>2 DEF Ask
  <2> QED
    BY <2>1, <2>2, BeginsQuiet, QuietSafe
<1>3. ASSUME NEW e \in Executors, Run(e) PROVE Safe'
  BY <1>3, RunKinds, QuietSafe, InSafe, CreateSafe, TakeOverSafe, MarkFailedSafe
<1>4. ASSUME NEW e \in Executors, Abort(e) PROVE Safe'
  BY <1>4, AbortQuiet, QuietSafe
<1>5. CASE Tick \/ UNCHANGED vars
  BY <1>5, TimeSafe
<1> QED
  BY <1>1, <1>2, <1>3, <1>4, <1>5 DEF Next

\* The types and the invariant hold of every behaviour of any numbers of executors and users.
THEOREM Invariance == Spec => [](TypeOK /\ Safe)
<1>1. Init => TypeOK /\ Safe
  BY InitTyped, InitSafe
<1>2. TypeOK /\ Safe /\ [Next]_vars => (TypeOK /\ Safe)'
  BY StepTyped, StepSafe
<1> QED
  BY <1>1, <1>2, PTL DEF Spec

\* Two executors are at the same refresh only when its lock is over.
THEOREM LocksExcludeAlways == Spec => []LocksExclude
<1>1. TypeOK /\ Safe => LocksExclude
  BY DEF Safe, Alone, LocksExclude, Executes
<1> QED
  BY <1>1, Invariance, PTL

-----------------------------------------------------------------------------
(* Successes.                                                                *)

\* Nobody writes the row of a success that nobody disturbs.
LEMMA StepKeepsSuccesses ==
    ASSUME TypeOK, Safe, [Next]_vars, NEW k \in Keys \ disturbed, runs[k].status = "succeeded"
    PROVE  runs'[k] = runs[k]
<1>1. ASSUME NEW e \in Executors, NEW s, SetRun(e, s),
             stage[e] \in {"starting", "refreshing", "failing"}
      PROVE  runs'[k] = runs[k]
  <2>1. stage[e] \in Executing
    BY <1>1 DEF Executing, Tried
  <2>2. Key(e) # k
    BY <1>1, <2>1 DEF Safe, Known, KnownTo
  <2> QED
    BY <1>1, <2>2 DEF SetRun, TypeOK
<1>2. ASSUME NEW e \in Executors, Create(e) PROVE runs'[k] = runs[k]
  <2>1. Key(e) # k
    BY <1>2 DEF Create, NoRun
  <2> QED
    BY <1>2, <2>1 DEF Create, TypeOK
<1>3. ASSUME NEW e \in Executors, Run(e) \/ Abort(e) PROVE runs'[k] = runs[k]
  <2>1. CASE Start(e) \/ Succeed(e) \/ Fail(e)
    BY <1>1, <2>1 DEF Start, Succeed, Fail
  <2>2. CASE Create(e)
    BY <1>2, <2>2
  <2>3. CASE ~(Start(e) \/ Succeed(e) \/ Fail(e) \/ Create(e))
    <3>1. UNCHANGED runs
      BY <1>3, <2>3 DEF Run, Check, Deduplicate, TakeOver, MarkRunning, MarkSucceeded, Report,
                        AttemptFails, MarkFailed, Abort, tables
    <3> QED
      BY <3>1
  <2> QED
    BY <2>1, <2>2, <2>3
<1>4. CASE \/ \E e \in Schedulers : Poll(e)
           \/ \E e \in Requests : Ask(e)
           \/ Tick \/ UNCHANGED vars
  <2>1. UNCHANGED runs
    BY <1>4 DEF Poll, Ask, Begins, Tick, vars, tables
  <2> QED
    BY <2>1
<1> QED
  BY <1>3, <1>4 DEF Next

\* A refresh that has succeeded is not run again that day, unless it was disturbed.
THEOREM SucceededRunsStayAlways == Spec => SucceededRunsStay
<1>1. TypeOK /\ Safe /\ [Next]_vars
      => [\A k \in Keys \ disturbed : runs[k].status = "succeeded" => runs'[k] = runs[k]]_vars
  BY StepKeepsSuccesses
<1> QED
  BY <1>1, Invariance, PTL DEF Spec, SucceededRunsStay

-----------------------------------------------------------------------------
(* The shown successes.                                                      *)

\* A status is written by one step for one user, and says succeeded after the run does.
LEMMA StepShows ==
    ASSUME TypeOK, Safe, [Next]_vars, NEW u \in Users
    PROVE  \/ statuses'[u] = statuses[u]
           \/ statuses'[u].status # "succeeded"
           \/ /\ runs'[LastRun(u)'] = runs[LastRun(u)']
              /\ LastRun(u)' \in disturbed \/ runs[LastRun(u)'].status = "succeeded"
<1>1. ASSUME NEW e \in Executors, NEW s, NEW d, SetStatus(e, s, d), stage[e] \in Executing,
             statuses'[u] # statuses[u]
      PROVE  statuses'[u].status = s /\ LastRun(u)' = Key(e)
  <2>1. User(e) \in Users
    BY <1>1, KeyTyped, StagesBusy
  <2>2. u = User(e)
    BY <1>1, <2>1, SetStatusWrites
  <2>3. statuses'[u].status = s /\ statuses'[u].day = Day(now[e])
    BY <1>1, <2>1, <2>2, SetStatusWrites
  <2> QED
    BY <2>2, <2>3 DEF LastRun, Key
<1>2. ASSUME NEW e \in Executors, MarkRunning(e) \/ MarkFailed(e),
             statuses'[u] # statuses[u]
      PROVE  statuses'[u].status # "succeeded"
  BY <1>1, <1>2 DEF MarkRunning, MarkFailed, Executing
<1>3. ASSUME NEW e \in Executors, MarkSucceeded(e), statuses'[u] # statuses[u]
      PROVE  /\ runs'[LastRun(u)'] = runs[LastRun(u)']
             /\ LastRun(u)' \in disturbed \/ runs[LastRun(u)'].status = "succeeded"
  <2>1. stage[e] = "succeeded" /\ stage[e] \in Executing /\ UNCHANGED runs
    BY <1>3 DEF MarkSucceeded, Executing, Tried
  <2>2. LastRun(u)' = Key(e)
    BY <1>1, <1>3, <2>1 DEF MarkSucceeded
  <2>3. Key(e) \in disturbed \/ runs[Key(e)].status = "succeeded"
    BY <2>1 DEF Safe, Known, KnownTo
  <2> QED
    BY <2>1, <2>2, <2>3
<1>4. ASSUME NEW e \in Executors, Run(e) \/ Abort(e),
             ~(MarkRunning(e) \/ MarkSucceeded(e) \/ MarkFailed(e))
      PROVE  UNCHANGED statuses
  BY <1>4 DEF Run, Check, Create, Deduplicate, TakeOver, Start, Succeed, Report, AttemptFails,
              Fail, Abort, tables
<1>5. CASE \/ \E e \in Schedulers : Poll(e)
           \/ \E e \in Requests : Ask(e)
           \/ Tick \/ UNCHANGED vars
  <2>1. UNCHANGED statuses
    BY <1>5 DEF Poll, Ask, Begins, Tick, vars, tables
  <2> QED
    BY <2>1
<1> QED
  BY <1>2, <1>3, <1>4, <1>5 DEF Next

LEMMA DisturbedStay == ASSUME [Next]_vars PROVE disturbed \subseteq disturbed'
<1>1. ASSUME NEW e \in Executors, Run(e) \/ Abort(e) PROVE disturbed \subseteq disturbed'
  BY <1>1 DEF Run, Check, Create, Deduplicate, TakeOver, Start, MarkRunning, Succeed,
              MarkSucceeded, Report, AttemptFails, Fail, MarkFailed, Abort, history
<1> QED
  BY <1>1 DEF Next, Poll, Ask, Begins, Tick, vars, history

LEMMA StepIsReal ==
    ASSUME TypeOK, TypeOK', Safe, [Next]_vars, SuccessesAreReal
    PROVE  SuccessesAreReal'
<1> SUFFICES ASSUME NEW u \in Users, statuses'[u].status = "succeeded",
                    LastRun(u)' \notin disturbed'
             PROVE  runs'[LastRun(u)'].status = "succeeded"
  BY DEF SuccessesAreReal
<1>1. LastRun(u)' \notin disturbed
  BY DisturbedStay
<1>2. CASE statuses'[u] = statuses[u]
  <2>1. LastRun(u)' = LastRun(u) /\ LastRun(u) \in Keys
    BY <1>2 DEF LastRun, Keys, TypeOK
  <2>2. runs[LastRun(u)].status = "succeeded"
    BY <1>1, <1>2, <2>1 DEF SuccessesAreReal
  <2> QED
    BY <1>1, <2>1, <2>2, StepKeepsSuccesses
<1> QED
  BY <1>1, <1>2, StepShows

\* With nobody at a user's last refresh, its status tells how the refresh ended; and
\* whoever has died, a success that is shown is one.
THEOREM StatusesTellTheRunAlways == Spec => []StatusesTellTheRun
<1>1. Init => SuccessesAreReal
  BY DEF Init, SuccessesAreReal, NoStatus
<1>2. TypeOK /\ TypeOK' /\ Safe /\ SuccessesAreReal /\ [Next]_vars => SuccessesAreReal'
  BY StepIsReal
<1>3. TypeOK /\ Safe /\ SuccessesAreReal => StatusesTellTheRun
  BY DEF Safe, StatusesTellTheRun
<1> QED
  BY <1>1, <1>2, <1>3, Invariance, PTL DEF Spec
=============================================================================
