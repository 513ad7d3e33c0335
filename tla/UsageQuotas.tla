---------------------------- MODULE UsageQuotas ----------------------------
(***************************************************************************)
(* The daily quotas of one organization and the sentiment jobs that are    *)
(* submitted under them: POST /api/sentiment/accumulate-job                *)
(* (pairs_trading/backend/routers/sentiment.py), check_and_record_many     *)
(* (backend/quotas.py), reserve_usage_events and create_job_if_absent      *)
(* (platform/persistence.py).                                              *)
(*                                                                         *)
(* reserve_usage_events is one transaction under PostgreSQL's READ         *)
(* COMMITTED: a statement sees what was committed when it starts, an       *)
(* INSERT waits for another transaction's uncommitted row with its key,    *)
(* an UPDATE waits for the lock on its row.  (SQLite locks the database    *)
(* from the first INSERT on: its behaviours are among these.)              *)
(*                                                                         *)
(* A key stands for the id of a usage event and of the job, both made of   *)
(* the request's idempotency key; a request without one has a new id each  *)
(* time, which here is a key that nobody uses again.  Features are         *)
(* numbered in the order in which the store sorts them.  Quotas and        *)
(* quantities, floats in the code, are natural numbers.                    *)
(***************************************************************************)
EXTENDS Naturals

CONSTANTS
    NumFeatures,
    Keys,
    Payloads,      \* the requests a client makes ...
    Wanted,        \* ... and what they reserve: [Payloads -> [Features -> Nat]]
    Calls,         \* the calls that may be served at a time, by any process
    NumDays,       \* bound: the number of quota windows
    Limits,        \* the limits of the features that an administrator may set
    Legacy         \* what the first day's events from before the counters add up to

Features == 1 .. NumFeatures
Days == 1 .. NumDays

ASSUME NumbersAssumption == NumFeatures \in Nat /\ NumDays \in Nat \ {0}
ASSUME SomeAssumption == Keys # {} /\ Payloads # {}
ASSUME WantedAssumption == Wanted \in [Payloads -> [Features -> Nat]]
ASSUME LimitsAssumption == Limits \subseteq [Features -> Nat]
ASSUME LegacyAssumption == Legacy \in [Features -> Nat]

VARIABLES
    today,
    quotas,        \* the limit of each feature
    events,        \* the table usage_events: for each feature and key, the event
    used,          \* SUM(quantity) of the committed events of a feature and a day
    counters,      \* the table quota_usage_counters
    jobs,          \* the sentiment rows of the table jobs
    stage,         \* where each call is
    request,       \* what each call asks for, and the limits and the day it goes by
    feature,       \* the feature its transaction is at
    todo,          \* the features its transaction has still to do
    sum,           \* the SUM that its INSERT of a counter has read
    inserted,      \* the features whose event its transaction has inserted
    drafts         \* the counters that its transaction has written

tables == <<quotas, events, used, counters, jobs>>
progress == <<feature, todo, sum, inserted, drafts>>
vars == <<today, tables, stage, request, progress>>

NoEvent == [day |-> 0, quantity |-> 0]
NoCounter == [exists |-> FALSE, quantity |-> 0]
Counter(n) == [exists |-> TRUE, quantity |-> n]
NoJob == [exists |-> FALSE]

EventRows == [day : 0 .. NumDays, quantity : Nat]
CounterRows == [exists : BOOLEAN, quantity : Nat]
Jobs == {NoJob} \cup [exists : {TRUE}, payload : Payloads, admin : BOOLEAN]
Requests == [key : Keys, payload : Payloads, admin : BOOLEAN,
             limits : [Features -> Nat], day : Days]
Stages == {"idle", "quotas", "begin", "event", "sum", "counter", "update", "commit", "create"}

TypeOK ==
    /\ today \in Days
    /\ quotas \in [Features -> Nat]
    /\ events \in [Features -> [Keys -> EventRows]]
    /\ used \in [Features -> [Days -> Nat]]
    /\ counters \in [Features -> [Days -> CounterRows]]
    /\ jobs \in [Keys -> Jobs]
    /\ stage \in [Calls -> Stages]
    /\ request \in [Calls -> Requests]
    /\ feature \in [Calls -> 0 .. NumFeatures]
    /\ todo \in [Calls -> SUBSET Features]
    /\ sum \in [Calls -> Nat]
    /\ inserted \in [Calls -> SUBSET Features]
    /\ drafts \in [Calls -> [Features -> CounterRows]]

Request(k, p, admin, limits, day) ==
    [key |-> k, payload |-> p, admin |-> admin, limits |-> limits, day |-> day]
AnyRequest == Request(CHOOSE k \in Keys : TRUE, CHOOSE p \in Payloads : TRUE,
                      FALSE, [f \in Features |-> 0], 1)

Init ==
    /\ today = 1
    /\ quotas \in Limits
    /\ events = [f \in Features |-> [k \in Keys |-> NoEvent]]
    /\ used = [f \in Features |-> [d \in Days |-> IF d = 1 THEN Legacy[f] ELSE 0]]
    /\ counters = [f \in Features |-> [d \in Days |-> NoCounter]]
    /\ jobs = [k \in Keys |-> NoJob]
    /\ stage = [c \in Calls |-> "idle"]
    /\ request = [c \in Calls |-> AnyRequest]
    /\ feature = [c \in Calls |-> 0]
    /\ todo = [c \in Calls |-> {}]
    /\ sum = [c \in Calls |-> 0]
    /\ inserted = [c \in Calls |-> {}]
    /\ drafts = [c \in Calls |-> [f \in Features |-> NoCounter]]

Key(c) == request[c].key
Day(c) == request[c].day
Quantity(c, f) == Wanted[request[c].payload][f]

-----------------------------------------------------------------------------
(* The locks of the other transactions.                                      *)

EventIsHeld(c, f) ==
    \E d \in Calls \ {c} : Key(d) = Key(c) /\ f \in inserted[d]

CounterIsHeld(c, f) ==
    \E d \in Calls \ {c} : Day(d) = Day(c) /\ drafts[d][f].exists

\* The transaction of a call ends and the call is at another stage, or over.
Ends(c, at) ==
    /\ stage' = [stage EXCEPT ![c] = at]
    /\ request' = [request EXCEPT ![c] = IF at = "idle" THEN AnyRequest ELSE @]
    /\ feature' = [feature EXCEPT ![c] = 0]
    /\ todo' = [todo EXCEPT ![c] = {}]
    /\ sum' = [sum EXCEPT ![c] = 0]
    /\ inserted' = [inserted EXCEPT ![c] = {}]
    /\ drafts' = [drafts EXCEPT ![c] = [f \in Features |-> NoCounter]]

\* What the transaction of c makes of the tables.
Committed(c) ==
    /\ events' = [f \in Features |->
                     IF f \in inserted[c]
                     THEN [events[f] EXCEPT ![Key(c)] = [day |-> Day(c), quantity |-> Quantity(c, f)]]
                     ELSE events[f]]
    /\ used' = [f \in Features |->
                   IF f \in inserted[c]
                   THEN [used[f] EXCEPT ![Day(c)] = @ + Quantity(c, f)]
                   ELSE used[f]]
    /\ counters' = [f \in Features |->
                       IF drafts[c][f].exists
                       THEN [counters[f] EXCEPT ![Day(c)] = drafts[c][f]]
                       ELSE counters[f]]

\* Mutant: what was reserved before the failure is kept.
KeepsWhatItHas(c) == Ends(c, "idle") /\ Committed(c) /\ UNCHANGED <<quotas, jobs>>

\* An exception leaves the `with` block of the connection: nothing was written.
RollsBack(c) == Ends(c, "idle") /\ UNCHANGED tables

-----------------------------------------------------------------------------
(* A call up to its transaction.                                             *)

\* existing_idempotent_job finds no job; else the call is answered at once.
Submit(c, k, p, admin) ==
    /\ stage[c] = "idle"
    /\ jobs[k] = NoJob
    /\ stage' = [stage EXCEPT ![c] = "quotas"]
    /\ request' = [request EXCEPT ![c] = Request(k, p, admin, [f \in Features |-> 0], 1)]
    /\ UNCHANGED <<today, tables, progress>>

\* quotas_for_org; the calls of administrators reserve nothing.
ReadQuotas(c) ==
    LET r == request[c]
    IN  /\ stage[c] = "quotas"
        /\ stage' = [stage EXCEPT ![c] = IF r.admin THEN "create" ELSE "begin"]
        /\ request' = [request EXCEPT ![c] = Request(r.key, r.payload, r.admin, quotas, 1)]
        /\ UNCHANGED <<today, tables, progress>>

\* Mutant: the features in the order in which the request names them, whatever that is.
NextFeaturesUnsorted(features) == features

\* The features that the loop over the sorted reservations may take next.
NextFeatures(features) == {f \in features : \A g \in features : f <= g}

\* The loop takes the next of `features`, or ends.
GoesOn(c, features) ==
    \/ /\ features = {}
       /\ stage' = [stage EXCEPT ![c] = "commit"]
       /\ todo' = [todo EXCEPT ![c] = {}]
       /\ feature' = [feature EXCEPT ![c] = 0]
    \/ \E f \in NextFeatures(features) :
           /\ stage' = [stage EXCEPT ![c] = "event"]
           /\ todo' = [todo EXCEPT ![c] = features \ {f}]
           /\ feature' = [feature EXCEPT ![c] = f]

\* current_window, and the transaction begins.
Begin(c) ==
    LET r == request[c]
    IN  /\ stage[c] = "begin"
        /\ request' = [request EXCEPT ![c] = Request(r.key, r.payload, r.admin, r.limits, today)]
        /\ GoesOn(c, {f \in Features : Quantity(c, f) > 0})
        /\ UNCHANGED <<today, tables, sum, inserted, drafts>>

-----------------------------------------------------------------------------
(* The transaction: for each feature the event, the counter and the charge.  *)

\* Mutant: an earlier call's reservation counts whatever its quantity was.
InsertEventUnchecked(c) ==
    LET f == feature[c]
    IN  /\ stage[c] = "event" /\ ~EventIsHeld(c, f)
        /\ \/ /\ events[f][Key(c)] = NoEvent
              /\ inserted' = [inserted EXCEPT ![c] = @ \cup {f}]
              /\ stage' = [stage EXCEPT ![c] = "sum"]
              /\ UNCHANGED <<today, tables, request, feature, todo, sum, drafts>>
           \/ /\ events[f][Key(c)] # NoEvent
              /\ GoesOn(c, todo[c])
              /\ UNCHANGED <<today, tables, request, sum, inserted, drafts>>

\* The event is inserted, or was by an earlier call with the key: that must have
\* reserved the same quantity, and nothing is charged again.
InsertEvent(c) ==
    LET f == feature[c]
        event == events[f][Key(c)]
    IN  /\ stage[c] = "event" /\ ~EventIsHeld(c, f)
        /\ UNCHANGED today
        /\ \/ /\ event = NoEvent
              /\ inserted' = [inserted EXCEPT ![c] = @ \cup {f}]
              /\ stage' = [stage EXCEPT ![c] = "sum"]
              /\ UNCHANGED <<tables, request, feature, todo, sum, drafts>>
           \/ /\ event # NoEvent /\ event.quantity = Quantity(c, f)
              /\ GoesOn(c, todo[c])
              /\ UNCHANGED <<tables, request, sum, inserted, drafts>>
           \/ /\ event # NoEvent /\ event.quantity # Quantity(c, f)
              /\ RollsBack(c)

\* Mutant: the SELECT counts the new event as well.
ReadSumWithOwn(c) ==
    /\ stage[c] = "sum"
    /\ sum' = [sum EXCEPT ![c] = used[feature[c]][Day(c)] + Quantity(c, feature[c])]
    /\ stage' = [stage EXCEPT ![c] = "counter"]
    /\ UNCHANGED <<today, tables, request, feature, todo, inserted, drafts>>

\* The INSERT of the counter starts: its SELECT leaves the new event out.
ReadSum(c) ==
    /\ stage[c] = "sum"
    /\ sum' = [sum EXCEPT ![c] = used[feature[c]][Day(c)]]
    /\ stage' = [stage EXCEPT ![c] = "counter"]
    /\ UNCHANGED <<today, tables, request, feature, todo, inserted, drafts>>

\* ... and ends, when no other transaction has an uncommitted counter there.
InsertCounter(c) ==
    LET f == feature[c]
    IN  /\ stage[c] = "counter" /\ ~CounterIsHeld(c, f)
        /\ drafts' = IF counters[f][Day(c)].exists
                     THEN drafts
                     ELSE [drafts EXCEPT ![c] = [@ EXCEPT ![f] = Counter(sum[c])]]
        /\ stage' = [stage EXCEPT ![c] = "update"]
        /\ UNCHANGED <<today, tables, request, feature, todo, sum, inserted>>

\* The counter as the transaction sees it.
Seen(c, f) == IF drafts[c][f].exists THEN drafts[c][f] ELSE counters[f][Day(c)]

\* Mutant: the limit is compared with the usage that was read before.
FitsRead(c, f) == sum[c] + Quantity(c, f) <= request[c].limits[f]

Fits(c, f) == Seen(c, f).quantity + Quantity(c, f) <= request[c].limits[f]

\* The conditional UPDATE charges the reservation, or the call is answered 429.
UpdateCounter(c) ==
    LET f == feature[c]
    IN  /\ stage[c] = "update" /\ ~CounterIsHeld(c, f)
        /\ UNCHANGED today
        /\ \/ /\ Fits(c, f)
              /\ drafts' = [drafts EXCEPT ![c] =
                               [@ EXCEPT ![f] = Counter(Seen(c, f).quantity + Quantity(c, f))]]
              /\ GoesOn(c, todo[c])
              /\ UNCHANGED <<tables, request, sum, inserted>>
           \/ ~Fits(c, f) /\ RollsBack(c)

Commit(c) ==
    /\ stage[c] = "commit"
    /\ Committed(c)
    /\ Ends(c, "create")
    /\ UNCHANGED <<today, quotas, jobs>>

-----------------------------------------------------------------------------
(* After the transaction.                                                    *)

\* create_job_if_absent leaves the job of an earlier call with the key alone.
Created(c) ==
    jobs' = IF jobs[Key(c)] = NoJob
            THEN [jobs EXCEPT ![Key(c)] =
                     [exists |-> TRUE, payload |-> request[c].payload, admin |-> request[c].admin]]
            ELSE jobs

\* SentimentJobRunner.submit up to the answer, the job or a refusal of another payload.
CreateJob(c) ==
    /\ stage[c] = "create"
    /\ Created(c)
    /\ Ends(c, "idle")
    /\ UNCHANGED <<today, quotas, events, used, counters>>

\* The process or its connection dies: the server rolls the transaction back.
Crash(c) ==
    /\ stage[c] # "idle"
    /\ RollsBack(c)
    /\ UNCHANGED today

Midnight ==
    /\ today < NumDays
    /\ today' = today + 1
    /\ UNCHANGED <<tables, stage, request, progress>>

\* upsert_organization_quotas.
SetQuotas(limits) ==
    /\ quotas' = limits
    /\ UNCHANGED <<today, events, used, counters, jobs, stage, request, progress>>

Reserve(c) == InsertEvent(c) \/ ReadSum(c) \/ InsertCounter(c) \/ UpdateCounter(c) \/ Commit(c)
Step(c) == ReadQuotas(c) \/ Begin(c) \/ Reserve(c) \/ CreateJob(c)

Next ==
    \/ \E c \in Calls : Step(c) \/ Crash(c)
    \/ \E c \in Calls, k \in Keys, p \in Payloads, admin \in BOOLEAN : Submit(c, k, p, admin)
    \/ \E limits \in Limits : SetQuotas(limits)
    \/ Midnight

Spec == Init /\ [][Next]_vars

-----------------------------------------------------------------------------
\* A counter is the sum of the committed events of its feature and day, those from before
\* there were counters included: no reservation is lost, and none that failed is counted.
CountersAreExact ==
    \A f \in Features, d \in Days :
        counters[f][d].exists => counters[f][d].quantity = used[f][d]

\* A job has been paid for: each reservation of its request is an event with its quantity.
JobsArePaid ==
    \A k \in Keys : jobs[k] # NoJob /\ ~jobs[k].admin =>
        \A f \in Features : Wanted[jobs[k].payload][f] > 0 =>
            events[f][k] # NoEvent /\ events[f][k].quantity = Wanted[jobs[k].payload][f]

\* However calls interleave, none raises the usage of a day above the limit it has read.
LimitsAreKept ==
    [][\A f \in Features, d \in Days :
           used'[f][d] # used[f][d] =>
               \E c \in Calls : /\ stage[c] = "commit" /\ stage'[c] # "commit"
                                /\ Day(c) = d /\ used'[f][d] <= request[c].limits[f]]_vars

\* The reservations of one request are charged together or not at all, and a key is
\* charged at most once: a step makes all the events of a request, of which none was there
\* with another quantity, and no step changes one.
ChargedTogetherAndOnce ==
    [][\A k \in Keys :
           (\E f \in Features : events'[f][k] # events[f][k]) =>
               \E p \in Payloads : \A f \in Features :
                   /\ Wanted[p][f] > 0 => events'[f][k].quantity = Wanted[p][f]
                   /\ events[f][k] # NoEvent => events'[f][k] = events[f][k]]_vars

\* What a call waits for.
WaitsFor(c, d) ==
    /\ c # d
    /\ \/ stage[c] = "event" /\ Key(d) = Key(c) /\ feature[c] \in inserted[d]
       \/ /\ stage[c] \in {"counter", "update"}
          /\ Day(d) = Day(c) /\ drafts[d][feature[c]].exists

\* How far a call's transaction has come in the sorted order of its locks.
Position(c) ==
    CASE stage[c] = "event" -> 3 * feature[c]
      [] stage[c] \in {"sum", "counter"} -> 3 * feature[c] + 1
      [] stage[c] = "update" -> 3 * feature[c] + IF drafts[c][feature[c]].exists THEN 2 ELSE 1
      [] stage[c] = "commit" -> 3 * NumFeatures + 3
      [] OTHER -> 0

\* Transactions wait only for those that have come further, and so never in a circle: the
\* locks of events and of counters are taken in one order, whatever a request names first.
WaitsAreInOrder ==
    \A c, d \in Calls : WaitsFor(c, d) => Position(c) < Position(d)

-----------------------------------------------------------------------------
(* The inductive invariant.                                                  *)

AtFeature(c) == stage[c] \in {"event", "sum", "counter", "update"}
InTransaction(c) == AtFeature(c) \/ stage[c] = "commit"

\* The features that the transaction of c has done with.
Done(c, f) == Quantity(c, f) > 0 /\ f \notin todo[c] /\ f # feature[c]

\* The loop goes through the reserved features upwards.
LoopIsSorted ==
    \A c \in Calls :
        /\ AtFeature(c) =>
               /\ feature[c] \in Features /\ Quantity(c, feature[c]) > 0
               /\ \A f \in todo[c] : feature[c] < f /\ Quantity(c, f) > 0
        /\ stage[c] = "commit" => todo[c] = {} /\ feature[c] = 0
        /\ stage[c] = "begin" \/ InTransaction(c) => ~request[c].admin

\* Only transactions have written something: events of the features they are done with or
\* at, and for those done with the counter as well.
WritesAreOpen ==
    \A c \in Calls, f \in Features :
        /\ f \in inserted[c] =>
               /\ InTransaction(c)
               /\ \/ Done(c, f) /\ drafts[c][f].exists /\ f < feature[c]
                  \/ Done(c, f) /\ drafts[c][f].exists /\ stage[c] = "commit"
                  \/ f = feature[c] /\ stage[c] \in {"sum", "counter", "update"}
        /\ f = feature[c] /\ stage[c] \in {"sum", "counter", "update"} => f \in inserted[c]
        /\ drafts[c][f].exists =>
               f \in inserted[c] /\ (f = feature[c] => stage[c] = "update")

\* Events of a key and counters of a day are written by one transaction at a time.
LocksAreExclusive ==
    \A c, d \in Calls, f \in Features : c # d =>
        /\ Key(c) = Key(d) => ~(f \in inserted[c] /\ f \in inserted[d])
        /\ Day(c) = Day(d) => ~(drafts[c][f].exists /\ drafts[d][f].exists)

\* An uncommitted counter is the sum of the committed events and, once charged, its own.
DraftsAreExact ==
    \A c \in Calls, f \in Features : drafts[c][f].exists =>
        drafts[c][f].quantity =
            used[f][Day(c)] + IF f = feature[c] THEN 0 ELSE Quantity(c, f)

\* The SUM read by a statement that waits is still right if there is no counter.
SumsAreFresh ==
    \A c \in Calls :
        LET f == feature[c]
        IN  /\ stage[c] = "counter" /\ ~counters[f][Day(c)].exists => sum[c] = used[f][Day(c)]
            /\ stage[c] = "update" => drafts[c][f].exists \/ counters[f][Day(c)].exists

\* An event of the key k with the quantity n.
HasEvent(f, k, n) == events[f][k] # NoEvent /\ events[f][k].quantity = n

\* What a call has inserted is new; the rest of what it is done with is committed.
EventsAreThere ==
    \A c \in Calls, f \in Features :
        /\ f \in inserted[c] => events[f][Key(c)] = NoEvent
        /\ InTransaction(c) /\ Done(c, f) /\ f \notin inserted[c] =>
               HasEvent(f, Key(c), Quantity(c, f))
        /\ stage[c] = "create" /\ ~request[c].admin /\ Quantity(c, f) > 0 =>
               HasEvent(f, Key(c), Quantity(c, f))

InductiveInvariant ==
    /\ TypeOK /\ LoopIsSorted /\ WritesAreOpen /\ LocksAreExclusive /\ DraftsAreExact
    /\ SumsAreFresh /\ EventsAreThere /\ CountersAreExact /\ JobsArePaid
=============================================================================
