---------------------------- MODULE DailyRefresh ----------------------------
(***************************************************************************)
(* The daily refresh of each user's data (backend/telemetry.py), run by    *)
(* the scheduler threads of API processes, by the worker's command line    *)
(* and by requests.  A refresh of a user has one row in refresh_runs for   *)
(* each day, found by its idempotency key, with a lock that is never       *)
(* renewed; refresh_statuses has one row for each user, which says when    *)
(* the next refresh is due.  Every store call is a step of its own.        *)
(*                                                                         *)
(* A batch takes all due users: its limit is taken to be larger.           *)
(***************************************************************************)
EXTENDS Naturals, FiniteSets

CONSTANTS
    NumUsers,
    Schedulers,    \* the threads that poll for due users
    Requests,      \* the threads of requests
    MaxAttempts,   \* refresh_max_attempts
    DayLength,
    Interval,      \* refresh_interval_hours
    RetryDelay,    \* an hour
    LockTime,      \* refresh_lock_minutes
    MaxClock,      \* bound
    MaxAborts      \* bound: exceptions outside the try block and deaths of processes

Users == 1 .. NumUsers
Executors == Schedulers \cup Requests
Day(time) == time \div DayLength
Days == {Day(time) : time \in 0 .. MaxClock}
Keys == Users \X Days     \* the idempotency keys

ASSUME UsersAssumption == NumUsers \in Nat /\ Schedulers \cap Requests = {}
ASSUME AttemptsAssumption == MaxAttempts \in Nat \ {0}
ASSUME TimesAssumption ==
    /\ DayLength \in Nat \ {0} /\ Interval \in Nat /\ RetryDelay \in Nat /\ LockTime \in Nat
    /\ MaxClock \in Nat /\ MaxAborts \in Nat

VARIABLES
    clock,
    runs,        \* refresh_runs: the row of each key
    statuses,    \* refresh_statuses: the row of each user
    stage,
    todo,        \* the users of the executor's batch
    forced,
    now,         \* the time at which it looked at its user
    attempt,
    aborts,
    abandoned,   \* history: the runs whose last executor has not come to an end
    disturbed    \* history: those of two executors at a time, or repeated after a success

tables == <<runs, statuses>>
locals == <<todo, forced, now, attempt>>
history == <<abandoned, disturbed>>
vars == <<clock, tables, stage, locals, aborts, history>>

NoLock == 0     \* locked_until_utc is NULL, or over before anything began
NoRun == [status |-> "none", lock |-> NoLock]
NoStatus == [status |-> "none", day |-> 0, due |-> 0]

Tried == {"refreshing", "succeeded", "reporting"}     \* in the try block
Executing == {"starting", "marking", "failing", "failed"} \cup Tried
Stages == {"idle", "checking", "creating"} \cup Executing

RunStatuses == {"none", "queued", "running", "succeeded", "failed"}

TypeOK ==
    /\ clock \in 0 .. MaxClock
    /\ runs \in [Keys -> [status : RunStatuses, lock : Nat]]
    /\ statuses \in [Users -> [status : {"none", "running", "succeeded", "failed"},
                               day : Days, due : Nat]]
    /\ stage \in [Executors -> Stages]
    /\ todo \in [Executors -> SUBSET Users]
    /\ \A e \in Executors : stage[e] # "idle" => todo[e] # {}
    /\ forced \in [Executors -> BOOLEAN]
    /\ now \in [Executors -> 0 .. MaxClock]
    /\ attempt \in [Executors -> 1 .. MaxAttempts]
    /\ aborts \in 0 .. MaxAborts
    /\ abandoned \subseteq Keys
    /\ disturbed \subseteq Keys

Init ==
    /\ clock = 0
    /\ runs = [k \in Keys |-> NoRun]
    /\ statuses = [u \in Users |-> NoStatus]
    /\ stage = [e \in Executors |-> "idle"]
    /\ todo = [e \in Executors |-> {}]
    /\ forced = [e \in Executors |-> FALSE]
    /\ now = [e \in Executors |-> 0]
    /\ attempt = [e \in Executors |-> 1]
    /\ aborts = 0
    /\ abandoned = {}
    /\ disturbed = {}

Due(u) == statuses[u].due <= clock

\* The user the executor is at: they come in the order of their creation.
Least(users) == CHOOSE u \in users : \A v \in users : u <= v
User(e) == Least(todo[e])

Key(e) == <<User(e), Day(now[e])>>

Executes(e, k) == stage[e] \in Executing /\ Key(e) = k

GoesTo(e, s) == stage' = [stage EXCEPT ![e] = s]

\* It goes on with the users that are left, or ends.
GoesOnWith(e, users) ==
    /\ todo' = [todo EXCEPT ![e] = users]
    /\ GoesTo(e, IF users = {} THEN "idle" ELSE "checking")
    /\ forced' = [forced EXCEPT ![e] = users # {} /\ @]
    /\ now' = [now EXCEPT ![e] = 0]
    /\ attempt' = [attempt EXCEPT ![e] = 1]

Leaves(e) == GoesOnWith(e, todo[e] \ {User(e)})

-----------------------------------------------------------------------------
(* run_due_users and run_for_user.                                           *)

Begins(e, users, force) ==
    /\ stage[e] = "idle" /\ users # {}
    /\ GoesTo(e, "checking")
    /\ todo' = [todo EXCEPT ![e] = users]
    /\ forced' = [forced EXCEPT ![e] = force]
    /\ UNCHANGED <<clock, tables, now, attempt, aborts, history>>

\* The statuses are read one by one; run_for_user reads each again.
Poll(e) == Begins(e, {u \in Users : Due(u)}, FALSE)

\* A request for one user, or a tick (of an administrator or the command line) for all.
Ask(e) ==
    \E force \in BOOLEAN :
        \/ \E u \in Users : Begins(e, {u}, force)
        \/ Begins(e, {u \in Users : force \/ Due(u)}, force)

Check(e) ==
    /\ stage[e] = "checking"
    /\ \/ /\ forced[e] \/ Due(User(e))
          /\ now' = [now EXCEPT ![e] = clock]
          /\ GoesTo(e, "creating")
          /\ UNCHANGED <<todo, forced, attempt>>
       \/ /\ ~forced[e] /\ ~Due(User(e))
          /\ Leaves(e)
    /\ UNCHANGED <<clock, tables, aborts, history>>

\* Mutant: a success of the day is repeated.
DeduplicatedIfOpen(e) ==
    runs[Key(e)].status \in {"queued", "running"} /\ runs[Key(e)].lock > now[e]

\* Mutant: a run is locked until it has ended.
DeduplicatedForever(e) == runs[Key(e)].status \in {"succeeded", "queued", "running"}

\* Mutant: the lock is not looked at.
DeduplicatedIfDone(e) == runs[Key(e)].status = "succeeded"

Deduplicated(e) ==
    \/ runs[Key(e)].status = "succeeded"
    \/ runs[Key(e)].status \in {"queued", "running"} /\ runs[Key(e)].lock > now[e]

\* create_refresh_run: the row is inserted, or the one that is there is executed again.
Create(e) ==
    /\ stage[e] = "creating" /\ runs[Key(e)] = NoRun
    /\ runs' = [runs EXCEPT ![Key(e)] = [status |-> "queued", lock |-> now[e] + LockTime]]
    /\ GoesTo(e, "starting")
    /\ UNCHANGED <<clock, statuses, locals, aborts, history>>

Deduplicate(e) ==
    /\ stage[e] = "creating" /\ runs[Key(e)] # NoRun /\ Deduplicated(e)
    /\ Leaves(e)
    /\ UNCHANGED <<clock, tables, aborts, history>>

TakeOver(e) ==
    /\ stage[e] = "creating" /\ runs[Key(e)] # NoRun /\ ~Deduplicated(e)
    /\ GoesTo(e, "starting")
    /\ abandoned' = abandoned \ {Key(e)}
    /\ disturbed' = IF \E f \in Executors : Executes(f, Key(e))
                    THEN disturbed \cup {Key(e)} ELSE disturbed
    /\ UNCHANGED <<clock, tables, locals, aborts>>

-----------------------------------------------------------------------------
(* _execute_run.                                                             *)

\* update_refresh_run: an end takes the lock away.
SetRun(e, status) ==
    runs' = [runs EXCEPT ![Key(e)] =
        [status |-> status, lock |-> IF status = "running" THEN @.lock ELSE NoLock]]

\* upsert_refresh_status.
SetStatus(e, status, delay) ==
    statuses' = [statuses EXCEPT ![User(e)] =
        [status |-> status, day |-> Day(now[e]), due |-> clock + delay]]

Start(e) ==
    /\ stage[e] = "starting"
    /\ SetRun(e, "running")
    /\ GoesTo(e, "marking")
    /\ UNCHANGED <<clock, statuses, locals, aborts, history>>

\* The next refresh is due an interval from here, whatever becomes of this one.
MarkRunning(e) ==
    /\ stage[e] = "marking"
    /\ SetStatus(e, "running", Interval)
    /\ GoesTo(e, "refreshing")
    /\ UNCHANGED <<clock, runs, locals, aborts, history>>

\* Mutant: the success is shown and not recorded.
SucceedShownFirst(e) ==
    /\ stage[e] = "refreshing"
    /\ SetStatus(e, "succeeded", Interval)
    /\ GoesTo(e, "succeeded")
    /\ UNCHANGED <<clock, runs, locals, aborts, history>>

Succeed(e) ==
    /\ stage[e] = "refreshing"
    /\ SetRun(e, "succeeded")
    /\ GoesTo(e, "succeeded")
    /\ UNCHANGED <<clock, statuses, locals, aborts, history>>

MarkSucceeded(e) ==
    /\ stage[e] = "succeeded"
    /\ SetStatus(e, "succeeded", Interval)
    /\ GoesTo(e, "reporting")
    /\ UNCHANGED <<clock, runs, locals, aborts, history>>

Report(e) ==
    /\ stage[e] = "reporting"
    /\ Leaves(e)
    /\ UNCHANGED <<clock, tables, aborts, history>>

\* The refresh raises, or what records its success: the attempt has failed either way.
AttemptFails(e) ==
    /\ stage[e] \in Tried
    /\ \/ /\ attempt[e] < MaxAttempts
          /\ attempt' = [attempt EXCEPT ![e] = @ + 1]
          /\ GoesTo(e, "starting")
       \/ /\ attempt[e] = MaxAttempts
          /\ GoesTo(e, "failing")
          /\ UNCHANGED attempt
    /\ disturbed' = IF stage[e] = "refreshing" THEN disturbed ELSE disturbed \cup {Key(e)}
    /\ UNCHANGED <<clock, tables, todo, forced, now, aborts, abandoned>>

Fail(e) ==
    /\ stage[e] = "failing"
    /\ SetRun(e, "failed")
    /\ GoesTo(e, "failed")
    /\ UNCHANGED <<clock, statuses, locals, aborts, history>>

MarkFailed(e) ==
    /\ stage[e] = "failed"
    /\ SetStatus(e, "failed", RetryDelay)
    /\ Leaves(e)
    /\ UNCHANGED <<clock, runs, aborts, history>>

\* The process dies, or a call outside the try block raises: the batch is left where it is.
Abort(e) ==
    /\ stage[e] # "idle" /\ aborts < MaxAborts
    /\ aborts' = aborts + 1
    /\ GoesOnWith(e, {})
    /\ abandoned' = IF stage[e] \in Executing THEN abandoned \cup {Key(e)} ELSE abandoned
    /\ UNCHANGED <<clock, tables, disturbed>>

Tick ==
    /\ clock < MaxClock
    /\ clock' = clock + 1
    /\ UNCHANGED <<tables, stage, locals, aborts, history>>

-----------------------------------------------------------------------------
Run(e) ==
    \/ Check(e) \/ Create(e) \/ Deduplicate(e) \/ TakeOver(e)
    \/ Start(e) \/ MarkRunning(e) \/ Succeed(e) \/ MarkSucceeded(e) \/ Report(e)
    \/ AttemptFails(e) \/ Fail(e) \/ MarkFailed(e)

Next ==
    \/ \E e \in Schedulers : Poll(e)
    \/ \E e \in Requests : Ask(e)
    \/ \E e \in Executors : Run(e) \/ Abort(e)
    \/ Tick

Spec == Init /\ [][Next]_vars

\* The schedulers poll and go on; requests may stop, and time may.
FairSpec == Spec /\ \A e \in Schedulers : WF_vars(Poll(e) \/ Run(e))

-----------------------------------------------------------------------------
\* Two executors are at the same refresh only when its lock is over: nobody takes over a
\* refresh whose executor has its time.  (The lock is not renewed, and an end takes it away:
\* one that is slower than its lock, or repeats a failed refresh, may be joined by another.)
LocksExclude ==
    \A e, f \in Executors :
        e # f /\ stage[f] \in Executing /\ Executes(e, Key(f)) => runs[Key(f)].lock <= clock

\* A refresh that has succeeded is not run again that day, whoever asks for it, and nothing
\* overwrites its row, unless two executors were at it or what followed the success raised.
SucceededRunsStay ==
    [][\A k \in Keys \ disturbed : runs[k].status = "succeeded" => runs'[k] = runs[k]]_vars

\* The run that a user's status is of, with nobody at it, has ended as the status says, unless
\* its executor has not come to an end, or it was disturbed as above.
LastRun(u) == <<u, statuses[u].day>>

EndsAreShown ==
    \A u \in Users :
        statuses[u].status # "none" /\ LastRun(u) \notin abandoned \cup disturbed
        /\ (\A e \in Executors : ~Executes(e, LastRun(u)))
        => statuses[u].status = runs[LastRun(u)].status

\* Whoever has died, and whoever is at it now, a success that is shown is one.
SuccessesAreReal ==
    \A u \in Users :
        statuses[u].status = "succeeded" /\ LastRun(u) \notin disturbed
        => runs[LastRun(u)].status = "succeeded"

\* The two rows of a refresh are written one after the other: the status tells how the run has
\* ended, and a death in between does not let it show a success that the run has not had.
StatusesTellTheRun == EndsAreShown /\ SuccessesAreReal

\* A user whose refresh is due is refreshed, or today's refresh is locked or has succeeded:
\* an executor that died or raised does not leave the user behind when its lock is over.
Locked(u) == runs[<<u, Day(clock)>>].lock > clock
Succeeded(u) == runs[<<u, Day(clock)>>].status = "succeeded"

DueUsersAreTried == \A u \in Users : Due(u) ~> ~Due(u) \/ Locked(u) \/ Succeeded(u)
=============================================================================
