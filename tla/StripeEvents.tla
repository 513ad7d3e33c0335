---------------------------- MODULE StripeEvents ----------------------------
(***************************************************************************)
(* Stripe's events and the subscription of one workspace: the webhook of   *)
(* pairs_trading/backend/saas.py, served by several API processes, the     *)
(* stripe_events and subscriptions tables of platform/persistence.py, and  *)
(* the administrator's sync_subscription.                                  *)
(*                                                                         *)
(* Event e is the e-th of the workspace in the order (created, id) by      *)
(* which the store compares events.  A plan event (of a checkout session   *)
(* or a subscription) carries a plan, which has the event's number; the    *)
(* others are invoices.  Plan 0 is the plan before the first event.        *)
(* A claim token is the number of the attempt it was issued for: both are  *)
(* new with every claim.                                                   *)
(***************************************************************************)
EXTENDS Naturals, FiniteSets

CONSTANTS
    NumEvents,
    PlanEvents,
    Requests,      \* the webhook requests that may be served at a time
    MaxAttempts,   \* max_attempts of claim_stripe_event
    MaxSyncs       \* bound: the number of plans being synced at a time

Events == 1 .. NumEvents
Plans == PlanEvents \cup {0}

ASSUME SizesAssumption == NumEvents \in Nat /\ MaxAttempts \in Nat \ {0}
ASSUME PlanEventsAssumption == PlanEvents \subseteq Events

VARIABLES
    created,       \* the number of events Stripe has created
    remote,        \* the plan of the workspace at Stripe
    answer,        \* for each event, the last answer with status 200
    events,        \* the table stripe_events
    stale,         \* the events whose claim is older than stale_after_seconds
    subscription,  \* the row of the workspace in subscriptions
    requests,      \* the webhook requests
    syncs          \* the plans that calls of sync_subscription have fetched

vars == <<created, remote, answer, events, stale, subscription, requests, syncs>>

Statuses == {"absent", "processing", "processed", "failed"}
EventRows == [status : Statuses, attempts : 0 .. MaxAttempts, token : 0 .. MaxAttempts]
Stages == {"idle", "claim", "retry", "read", "apply", "complete", "fail"}
RequestStates == [stage : Stages, event : 0 .. NumEvents, row : EventRows,
                  token : 0 .. MaxAttempts, plan : Plans]
Answers == {"none", "processed", "exhausted", "in progress"}

NoEvent == [status |-> "absent", attempts |-> 0, token |-> 0]

\* A request for event e that owns attempt n.
Request(stage, e, n) == [stage |-> stage, event |-> e, row |-> NoEvent, token |-> n, plan |-> 0]
Idle == Request("idle", 0, 0)

Row(r) == events[requests[r].event]

TypeOK ==
    /\ created \in 0 .. NumEvents /\ remote \in Plans
    /\ answer \in [Events -> Answers]
    /\ events \in [Events -> EventRows]
    /\ stale \subseteq Events
    /\ subscription \in [stamp : 0 .. 2 * NumEvents + 1, plan : Plans]
    /\ requests \in [Requests -> RequestStates]
    /\ \A r \in Requests : requests[r].stage # "idle" => requests[r].event \in Events
    /\ syncs \subseteq Plans

Init ==
    /\ created = 0 /\ remote = 0
    /\ answer = [e \in Events |-> "none"]
    /\ events = [e \in Events |-> NoEvent]
    /\ stale = {}
    /\ subscription = [stamp |-> 0, plan |-> 0]
    /\ requests = [r \in Requests |-> Idle]
    /\ syncs = {}

-----------------------------------------------------------------------------
(* Stripe.                                                                   *)

Create ==
    /\ created < NumEvents
    /\ created' = created + 1
    /\ remote' = IF created' \in PlanEvents THEN created' ELSE remote
    /\ UNCHANGED <<answer, events, stale, subscription, requests, syncs>>

\* Stripe delivers an event, in any order, until an answer has status 200.
Deliver(r, e) ==
    /\ e <= created /\ answer[e] = "none"
    /\ requests[r].stage = "idle"
    /\ requests' = [requests EXCEPT ![r] = Request("claim", e, 0)]
    /\ UNCHANGED <<created, remote, answer, events, stale, subscription, syncs>>

-----------------------------------------------------------------------------
(* The webhook.                                                              *)

\* The request ends with status 200; `what` is its body.
Answer(r, what) ==
    /\ answer' = [answer EXCEPT ![requests[r].event] = what]
    /\ requests' = [requests EXCEPT ![r] = Idle]

\* The request at a later stage of its attempt.
GoneTo(r, stage) == Request(stage, requests[r].event, requests[r].token)

FirstStage(e) == IF e \in PlanEvents THEN "apply" ELSE "read"

\* The request owns attempt n of its event.
StartWork(r, n) ==
    LET e == requests[r].event
    IN  /\ events' = [events EXCEPT ![e] = [status |-> "processing", attempts |-> n, token |-> n]]
        /\ stale' = stale \ {e}
        /\ requests' = [requests EXCEPT ![r] = Request(FirstStage(e), e, n)]

Exhausted(row) == row.attempts >= MaxAttempts

Retryable(e) ==
    \/ events[e].status = "failed"
    \/ events[e].status = "processing" /\ e \in stale

\* claim_stripe_event, up to its first write or the read of an existing row.
Claim(r) ==
    LET e == requests[r].event
    IN  /\ requests[r].stage = "claim"
        /\ \/ /\ Row(r).status = "absent"
              /\ StartWork(r, 1)
              /\ UNCHANGED answer
           \/ /\ Row(r).status = "processed"
              /\ Answer(r, "processed")
              /\ UNCHANGED <<events, stale>>
           \/ /\ Row(r).status \in {"processing", "failed"}
              /\ \/ Exhausted(Row(r)) /\ Answer(r, "exhausted")
                 \/ ~Exhausted(Row(r)) /\ ~Retryable(e) /\ Answer(r, "in progress")
                 \/ /\ ~Exhausted(Row(r)) /\ Retryable(e)
                    /\ requests' = [requests EXCEPT ![r] = [Request("retry", e, 0) EXCEPT !.row = Row(r)]]
                    /\ UNCHANGED answer
              /\ UNCHANGED <<events, stale>>
    /\ UNCHANGED <<created, remote, subscription, syncs>>

\* Mutant: the attempts are not compared.
SameStatus(row, read) == row.status = read.status

\* Mutant: the status is not compared.
SameAttempts(row, read) == row.attempts = read.attempts

\* The columns that the retry's UPDATE compares with the row read before.
SameClaim(row, read) == row.attempts = read.attempts /\ row.status = read.status

\* claim_stripe_event, its conditional UPDATE of an existing row.
Retry(r) ==
    /\ requests[r].stage = "retry"
    /\ IF SameClaim(Row(r), requests[r].row)
       THEN /\ StartWork(r, Row(r).attempts + 1)
            /\ UNCHANGED answer
       ELSE /\ Answer(r, "in progress")
            /\ UNCHANGED <<events, stale>>
    /\ UNCHANGED <<created, remote, subscription, syncs>>

\* An invoice keeps the plan of the workspace: get_subscription ...
ReadPlan(r) ==
    /\ requests[r].stage = "read"
    /\ requests' = [requests EXCEPT ![r] = [GoneTo(r, "apply") EXCEPT !.plan = subscription.plan]]
    /\ UNCHANGED <<created, remote, answer, events, stale, subscription, syncs>>

\* Mutant: the last event wins.
AppliedLast(stamp, plan) == subscription' = [stamp |-> stamp, plan |-> plan]

\* apply_subscription_event: the newest event wins, and may be applied again.
Applied(stamp, plan) ==
    subscription' = IF stamp >= subscription.stamp
                    THEN [stamp |-> stamp, plan |-> plan]
                    ELSE subscription

\* ... and the row with that plan are two transactions.
Apply(r) ==
    LET e == requests[r].event
    IN  /\ requests[r].stage = "apply"
        /\ Applied(2 * e, IF e \in PlanEvents THEN e ELSE requests[r].plan)
        /\ requests' = [requests EXCEPT ![r] = GoneTo(r, "complete")]
        /\ UNCHANGED <<created, remote, answer, events, stale, syncs>>

\* Mutant: the event is completed although its effect failed.
RaiseSwallowed(r) ==
    /\ requests[r].stage \in {"read", "apply"}
    /\ requests' = [requests EXCEPT ![r] = GoneTo(r, "complete")]
    /\ UNCHANGED <<created, remote, answer, events, stale, subscription, syncs>>

\* _process_claimed_stripe_event raises: a lookup finds nothing, or the store fails.
Raise(r) ==
    /\ requests[r].stage \in {"read", "apply"}
    /\ requests' = [requests EXCEPT ![r] = GoneTo(r, "fail")]
    /\ UNCHANGED <<created, remote, answer, events, stale, subscription, syncs>>

\* The condition of both closing UPDATEs.
OwnsClaim(r) == Row(r).status = "processing" /\ Row(r).token = requests[r].token

Close(r, status) ==
    LET e == requests[r].event
    IN  /\ events' = [events EXCEPT ![e] = [status |-> status, attempts |-> @.attempts, token |-> 0]]
        /\ stale' = stale \ {e}

\* Mutant: the answer is 200 although the claim was lost.
CompleteUnchecked(r) ==
    /\ requests[r].stage = "complete"
    /\ IF OwnsClaim(r) THEN Close(r, "processed") ELSE UNCHANGED <<events, stale>>
    /\ Answer(r, "processed")
    /\ UNCHANGED <<created, remote, subscription, syncs>>

\* complete_stripe_event; the answer is 503 when the claim is another's.
Complete(r) ==
    /\ requests[r].stage = "complete"
    /\ IF OwnsClaim(r)
       THEN Close(r, "processed") /\ Answer(r, "processed")
       ELSE /\ requests' = [requests EXCEPT ![r] = Idle]
            /\ UNCHANGED <<events, stale, answer>>
    /\ UNCHANGED <<created, remote, subscription, syncs>>

\* fail_stripe_event; the answer is 503.
Fail(r) ==
    /\ requests[r].stage = "fail"
    /\ IF OwnsClaim(r) THEN Close(r, "failed") ELSE UNCHANGED <<events, stale>>
    /\ requests' = [requests EXCEPT ![r] = Idle]
    /\ UNCHANGED <<created, remote, answer, subscription, syncs>>

\* The process dies, or the store raises outside the try block: no answer of 200.
\* Before its claim a request that dies has changed nothing, like one not made.
Crash(r) ==
    /\ requests[r].stage \in {"read", "apply", "complete", "fail"}
    /\ requests' = [requests EXCEPT ![r] = Idle]
    /\ UNCHANGED <<created, remote, answer, events, stale, subscription, syncs>>

\* A claim gets older than stale_after_seconds.
ClaimAges(e) ==
    /\ events[e].status = "processing" /\ e \notin stale
    /\ stale' = stale \cup {e}
    /\ UNCHANGED <<created, remote, answer, events, subscription, requests, syncs>>

-----------------------------------------------------------------------------
(* sync_subscription.                                                        *)

SyncFetch ==
    /\ Cardinality(syncs) < MaxSyncs
    /\ syncs' = syncs \cup {remote}
    /\ UNCHANGED <<created, remote, answer, events, stale, subscription, requests>>

\* Its row is stamped with the present time, and its id sorts after those of events.
SyncApply(p) ==
    /\ p \in syncs
    /\ Applied(2 * created + 1, p)
    /\ syncs' \in {syncs, syncs \ {p}}
    /\ UNCHANGED <<created, remote, answer, events, stale, requests>>

-----------------------------------------------------------------------------
Serve(r) == Claim(r) \/ Retry(r) \/ ReadPlan(r) \/ Apply(r) \/ Complete(r) \/ Fail(r)

Next ==
    \/ Create
    \/ \E r \in Requests : Serve(r) \/ Raise(r) \/ Crash(r)
    \/ \E r \in Requests, e \in Events : Deliver(r, e)
    \/ \E e \in Events : ClaimAges(e)
    \/ SyncFetch \/ \E p \in Plans : SyncApply(p)

Spec == Init /\ [][Next]_vars

\* Stripe redelivers, requests are served and time passes.
FairSpec ==
    /\ Spec
    /\ \A r \in Requests : WF_vars(Serve(r))
    /\ \A e \in Events : WF_vars(\E r \in Requests : Deliver(r, e)) /\ WF_vars(ClaimAges(e))

-----------------------------------------------------------------------------
\* A processed event is in the row of the workspace, or a newer one is: neither a crash
\* between the two tables nor a request whose claim was taken over loses its effect.
ProcessedIsApplied ==
    \A e \in Events : events[e].status = "processed" => subscription.stamp >= 2 * e

\* A request completes its event after it has applied it.
AppliesFirst ==
    \A r \in Requests :
        requests[r].stage = "complete" => subscription.stamp >= 2 * requests[r].event

\* A row read for a retry is at most as old as the present one; if that is the same
\* attempt, still processing, then it is stale.
ReadsLag ==
    \A r \in Requests : requests[r].stage = "retry" =>
        /\ requests[r].row.status \in {"processing", "failed"}
        /\ requests[r].row.attempts < MaxAttempts
        /\ requests[r].row.attempts <= Row(r).attempts
        /\ /\ Row(r).status = "processing"
           /\ SameClaim(Row(r), requests[r].row)
           => requests[r].event \in stale

\* Requests are about events that Stripe has created.
EventsAreCreated == \A r \in Requests : requests[r].event <= created

\* An event without a row has no attempts.
AbsentIsUntried == \A e \in Events : events[e].status = "absent" => events[e] = NoEvent

\* An inductive invariant: a request applies before it completes, and reads for a retry
\* a row whose attempts only grow.
InductiveInvariant ==
    /\ TypeOK /\ ProcessedIsApplied /\ AppliesFirst /\ ReadsLag
    /\ EventsAreCreated /\ AbsentIsUntried

\* A request that lost its claim cannot reopen an event that its successor processed.
ProcessedIsFinal ==
    [][\A e \in Events : events[e].status = "processed" => events'[e] = events[e]]_vars

\* The request that holds the current claim of an event.
Holds(r, e) == requests[r].event = e /\ requests[r].token = events[e].token

\* A claim younger than stale_after_seconds is ended by its holder only, also when
\* several redeliveries have seen the claim before it go stale.
FreshClaimIsKept ==
    [][\A e \in Events :
           /\ events[e].status = "processing" /\ e \notin stale
           /\ events'[e] # events[e]
           => \E r \in Requests : Holds(r, e) /\ requests'[r].stage = "idle"]_vars

\* A plan that a sync has put right stays right until Stripe creates an event: the
\* requests in flight carry older stamps, whatever plan they have read.
SyncedPlanStays ==
    [][/\ subscription.stamp > 2 * created /\ subscription.plan = remote
       /\ syncs \subseteq {remote}
       => subscription'.plan = subscription.plan]_vars

Settled(e) == events[e].status = "processed" \/ answer[e] = "exhausted"

\* Every event is processed or uses up its attempts, unless Stripe was told, with status
\* 200, that another request was at work on it.
EventsSettleOrAreInProgress ==
    \A e \in Events : e <= created ~> Settled(e) \/ answer[e] = "in progress"

\* When all events are processed and the last write was of one of them, the workspace
\* has the plan it has at Stripe.
PlanIsSynchronized ==
    /\ \A e \in 1 .. created : events[e].status = "processed"
    /\ subscription.stamp \in {2 * e : e \in Events}
    => subscription.plan = remote
=============================================================================
