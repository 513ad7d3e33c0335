------------------------- MODULE StripeEventsProofs -------------------------
(***************************************************************************)
(* Proofs about StripeEvents, for any number of events, requests and       *)
(* attempts.                                                               *)
(***************************************************************************)
EXTENDS StripeEvents, TLAPS

\* What the type of the state says of one request.
LEMMA RequestTypes ==
    ASSUME TypeOK, NEW r \in Requests
    PROVE  /\ requests[r].stage \in Stages /\ requests[r].event \in 0 .. NumEvents
           /\ requests[r].row \in EventRows /\ requests[r].token \in 0 .. MaxAttempts
           /\ requests[r].plan \in Plans
           /\ requests[r].stage # "idle" => requests[r].event \in Events /\ Row(r) \in EventRows
  BY DEF TypeOK, Row, RequestStates

LEMMA IdleType ==
    /\ Idle \in RequestStates /\ Idle.stage = "idle" /\ Idle.event = 0
    /\ NoEvent \in EventRows
  BY SizesAssumption
     DEF Idle, Request, NoEvent, Stages, EventRows, Statuses, Plans, RequestStates

\* The records the actions put together.
LEMMA RequestType ==
    ASSUME NEW stage \in Stages, NEW e \in 0 .. NumEvents, NEW n \in 0 .. MaxAttempts
    PROVE  /\ Request(stage, e, n) \in RequestStates
           /\ Request(stage, e, n).stage = stage /\ Request(stage, e, n).event = e
           /\ Request(stage, e, n).token = n
           /\ \A row \in EventRows :
                  LET q == [Request(stage, e, n) EXCEPT !.row = row]
                  IN  q \in RequestStates /\ q.stage = stage /\ q.event = e /\ q.row = row
           /\ \A p \in Plans :
                  LET q == [Request(stage, e, n) EXCEPT !.plan = p]
                  IN  q \in RequestStates /\ q.stage = stage /\ q.event = e /\ q.token = n
  <1>1. NoEvent \in EventRows
    BY SizesAssumption DEF NoEvent, EventRows, Statuses
  <1> QED BY <1>1 DEF Request, RequestStates, Plans

\* The effect of the helpers on the tables.
LEMMA AnswerEffect ==
    ASSUME TypeOK, NEW r \in Requests, NEW what \in Answers, Answer(r, what),
           requests[r].stage # "idle"
    PROVE  /\ answer' \in [Events -> Answers]
           /\ requests' = [requests EXCEPT ![r] = Idle]
  BY RequestTypes DEF Answer, TypeOK

LEMMA StartWorkEffect ==
    ASSUME TypeOK, NEW r \in Requests, NEW n \in 1 .. MaxAttempts, StartWork(r, n),
           requests[r].stage # "idle"
    PROVE  /\ events' \in [Events -> EventRows] /\ stale' \subseteq Events
           /\ events'[requests[r].event] = [status |-> "processing", attempts |-> n, token |-> n]
           /\ \A e \in Events \ {requests[r].event} : events'[e] = events[e] /\ (e \in stale' <=> e \in stale)
           /\ requests'[r] \in RequestStates
           /\ requests'[r].stage \in {"read", "apply"} /\ requests'[r].event = requests[r].event
           /\ requests' = [requests EXCEPT ![r] = requests'[r]]
  <1> DEFINE e == requests[r].event
             row == [status |-> "processing", attempts |-> n, token |-> n]
             next == Request(FirstStage(e), e, n)
  <1>1. e \in Events /\ row \in EventRows
    BY RequestTypes, SizesAssumption DEF EventRows, Statuses
  <1>2. /\ next \in RequestStates
        /\ next.stage \in {"read", "apply"} /\ next.event = e
    <2>1. FirstStage(e) \in {"read", "apply"} /\ e \in 0 .. NumEvents /\ n \in 0 .. MaxAttempts
      BY <1>1, SizesAssumption DEF FirstStage, Events
    <2> QED BY <2>1, RequestType DEF Stages
  <1>3. /\ events' = [events EXCEPT ![e] = row] /\ stale' = stale \ {e}
        /\ requests' = [requests EXCEPT ![r] = next]
    BY DEF StartWork
  <1> HIDE DEF row, next
  <1>4. requests'[r] = next
    BY <1>3 DEF TypeOK
  <1> HIDE DEF e
  <1>5. events' \in [Events -> EventRows] /\ stale' \subseteq Events
    BY <1>1, <1>3 DEF TypeOK
  <1>6. events'[e] = row /\ \A f \in Events \ {e} : events'[f] = events[f] /\ (f \in stale' <=> f \in stale)
    BY <1>1, <1>3 DEF TypeOK
  <1> QED BY <1>2, <1>3, <1>4, <1>5, <1>6 DEF e, row

LEMMA CloseEffect ==
    ASSUME TypeOK, NEW r \in Requests, NEW status \in {"processed", "failed"}, Close(r, status),
           requests[r].stage # "idle"
    PROVE  /\ events' \in [Events -> EventRows] /\ stale' \subseteq Events
           /\ events'[requests[r].event].status = status
           /\ events'[requests[r].event].attempts = Row(r).attempts
           /\ \A e \in Events \ {requests[r].event} : events'[e] = events[e] /\ (e \in stale' <=> e \in stale)
  <1> DEFINE e == requests[r].event
             row == [status |-> status, attempts |-> events[e].attempts, token |-> 0]
  <1>1. e \in Events /\ events[e] \in EventRows
    BY RequestTypes DEF Row
  <1>2. row \in EventRows /\ row.status = status /\ row.attempts = events[e].attempts
    BY <1>1, SizesAssumption DEF EventRows, Statuses
  <1>3. events' = [events EXCEPT ![e] = row] /\ stale' = stale \ {e}
    BY DEF Close
  <1> HIDE DEF row
  <1> QED BY <1>1, <1>2, <1>3 DEF TypeOK, Row

-----------------------------------------------------------------------------
(* Type correctness.                                                         *)

LEMMA AppliedType ==
    ASSUME TypeOK, NEW stamp \in 0 .. 2 * NumEvents + 1, NEW plan \in Plans, Applied(stamp, plan)
    PROVE  /\ subscription' \in [stamp : 0 .. 2 * NumEvents + 1, plan : Plans]
           /\ subscription'.stamp >= subscription.stamp /\ subscription'.stamp >= stamp
           /\ \/ subscription' = subscription /\ stamp < subscription.stamp
              \/ subscription' = [stamp |-> stamp, plan |-> plan] /\ stamp >= subscription.stamp
  <1>1. subscription.stamp \in Nat /\ stamp \in Nat
    BY SizesAssumption DEF TypeOK
  <1>2. CASE stamp >= subscription.stamp
    BY <1>1, <1>2 DEF Applied
  <1>3. CASE ~(stamp >= subscription.stamp)
    BY <1>1, <1>3 DEF Applied, TypeOK
  <1> QED BY <1>2, <1>3

LEMMA SubscriptionType ==
    ASSUME TypeOK
    PROVE  /\ subscription.stamp \in 0 .. 2 * NumEvents + 1 /\ subscription.plan \in Plans
           /\ NumEvents \in Nat /\ created \in 0 .. NumEvents /\ Events \subseteq Nat
  BY SizesAssumption DEF TypeOK, Events

\* One request changes.
LEMMA RequestsType ==
    ASSUME TypeOK, NEW r \in Requests,
           NEW q \in RequestStates,
           q.stage # "idle" => q.event \in Events,
           requests' = [requests EXCEPT ![r] = q]
    PROVE  /\ requests' \in [Requests -> RequestStates]
           /\ \A s \in Requests : requests'[s].stage # "idle" => requests'[s].event \in Events
           /\ requests'[r] = q
           /\ \A s \in Requests \ {r} : requests'[s] = requests[s]
  BY DEF TypeOK

-----------------------------------------------------------------------------
(* What a step does to a request, to an event and to the workspace.          *)

\* A request goes on with its event: only a transaction that applied the event leads to
\* the completion, only a retryable row to a retry.
RequestMove(r) ==
    \/ requests'[r] = requests[r]
    \/ /\ requests'[r].stage \notin {"complete", "retry"}
       /\ requests'[r].event = requests[r].event \/ requests'[r].event <= created
    \/ /\ requests'[r].stage = "complete"
       /\ requests'[r].event = requests[r].event
       /\ subscription'.stamp >= 2 * requests[r].event
    \/ /\ requests'[r].stage = "retry"
       /\ requests'[r].event = requests[r].event
       /\ requests'[r].row = Row(r)
       /\ Row(r).status \in {"processing", "failed"} /\ Row(r).attempts < MaxAttempts
       /\ Row(r).status = "processing" => requests[r].event \in stale
       /\ events' = events /\ stale' = stale

\* An attempt starts or is closed by the request that holds it.
EventMove(e) ==
    \/ events'[e] = events[e] /\ (e \in stale => e \in stale')
    \/ /\ events[e].status # "processed"
       /\ events[e].status = "processing" => e \in stale
       /\ events'[e].status = "processing" /\ events'[e].attempts > events[e].attempts
    \/ /\ events[e].status = "processing"
       /\ events'[e].status \in {"processed", "failed"}
       /\ events'[e].attempts = events[e].attempts
       /\ \E r \in Requests :
              /\ Holds(r, e) /\ requests'[r].stage = "idle"
              /\ events'[e].status = "processed" => requests[r].stage = "complete"

\* The stamp of the workspace does not decrease, and while it is a sync's, no event
\* that Stripe had created by then changes the plan.
SubscriptionMove ==
    /\ subscription'.stamp >= subscription.stamp
    /\ /\ subscription.stamp > 2 * created
       /\ syncs \subseteq {subscription.plan}
       => subscription'.plan = subscription.plan

Moves ==
    /\ TypeOK'
    /\ created <= created'
    /\ \A r \in Requests : RequestMove(r)
    /\ \A e \in Events : EventMove(e)
    /\ SubscriptionMove

\* One request changes, and the tables as told.
LEMMA RequestMoves ==
    ASSUME TypeOK, NEW r \in Requests, NEW q \in RequestStates,
           q.stage # "idle" => q.event \in Events,
           requests' = [requests EXCEPT ![r] = q],
           q = requests'[r] => RequestMove(r),
           answer' \in [Events -> Answers], events' \in [Events -> EventRows],
           stale' \subseteq Events,
           subscription' \in [stamp : 0 .. 2 * NumEvents + 1, plan : Plans],
           \A e \in Events : EventMove(e), SubscriptionMove,
           UNCHANGED <<created, remote, syncs>>
    PROVE  Moves
  <1>1. requests'[r] = q /\ \A s \in Requests \ {r} : requests'[s] = requests[s]
    BY RequestsType
  <1>2. \A s \in Requests : RequestMove(s)
    BY <1>1 DEF RequestMove
  <1>3. TypeOK'
    BY RequestsType DEF TypeOK
  <1>4. created <= created'
    BY SubscriptionType
  <1> QED BY <1>2, <1>3, <1>4 DEF Moves

\* Nothing happens to the events, or to the workspace.
LEMMA EventsStay ==
    ASSUME UNCHANGED <<events, stale>>
    PROVE  \A e \in Events : EventMove(e)
  BY DEF EventMove

LEMMA SubscriptionStays ==
    ASSUME TypeOK, UNCHANGED subscription
    PROVE  /\ SubscriptionMove
           /\ subscription' \in [stamp : 0 .. 2 * NumEvents + 1, plan : Plans]
  BY SubscriptionType DEF SubscriptionMove, TypeOK

-----------------------------------------------------------------------------
(* The steps of a request.                                                   *)

\* A request that does nothing but to go on to a stage other than the completion.
LEMMA QuietMoves ==
    ASSUME TypeOK, NEW r \in Requests, NEW q \in RequestStates,
           requests[r].stage # "idle",
           q.stage \notin {"complete", "retry"},
           q.event \in {0, requests[r].event}, q.event = 0 => q.stage = "idle",
           requests' = [requests EXCEPT ![r] = q],
           answer' \in [Events -> Answers],
           UNCHANGED <<created, remote, events, stale, subscription, syncs>>
    PROVE  Moves
  <1>1. q.event \in 0 .. NumEvents /\ 0 <= created /\ requests[r].event \in Events
    BY RequestTypes, SubscriptionType
  <1>2. q.stage # "idle" => q.event \in Events
    BY <1>1
  <1>3. q = requests'[r] => RequestMove(r)
    BY <1>1 DEF RequestMove
  <1>4. events' \in [Events -> EventRows] /\ stale' \subseteq Events
    BY DEF TypeOK
  <1> QED BY <1>2, <1>3, <1>4, EventsStay, SubscriptionStays, RequestMoves

LEMMA AnswerMoves ==
    ASSUME TypeOK, NEW r \in Requests, NEW what \in Answers, Answer(r, what),
           requests[r].stage # "idle",
           UNCHANGED <<created, remote, events, stale, subscription, syncs>>
    PROVE  Moves
  BY AnswerEffect, IdleType, QuietMoves

\* A new attempt of an event that is absent, or retryable when its claim is made.
LEMMA StartMoves ==
    ASSUME TypeOK, NEW r \in Requests, requests[r].stage # "idle",
           Row(r).status # "processed", Row(r).attempts < MaxAttempts,
           Row(r).status = "processing" => requests[r].event \in stale,
           StartWork(r, Row(r).attempts + 1),
           UNCHANGED <<created, remote, answer, subscription, syncs>>
    PROVE  Moves
  <1> DEFINE n == Row(r).attempts + 1
             event == requests[r].event
  <1>1. n \in 1 .. MaxAttempts /\ Row(r).attempts \in Nat /\ event \in Events
    BY RequestTypes, SizesAssumption DEF EventRows
  <1>2. /\ events' \in [Events -> EventRows] /\ stale' \subseteq Events
        /\ events'[event] = [status |-> "processing", attempts |-> n, token |-> n]
        /\ \A e \in Events \ {event} : events'[e] = events[e] /\ (e \in stale' <=> e \in stale)
        /\ requests'[r] \in RequestStates
        /\ requests'[r].stage \in {"read", "apply"} /\ requests'[r].event = event
        /\ requests' = [requests EXCEPT ![r] = requests'[r]]
    BY <1>1, StartWorkEffect
  <1>3. events'[event].status = "processing" /\ events'[event].attempts > events[event].attempts
    BY <1>1, <1>2 DEF Row
  <1>4. \A e \in Events : EventMove(e)
    BY <1>2, <1>3 DEF EventMove, Row
  <1>5. RequestMove(r)
    BY <1>2 DEF RequestMove
  <1>6. answer' \in [Events -> Answers]
    BY DEF TypeOK
  <1> QED BY <1>1, <1>2, <1>4, <1>5, <1>6, SubscriptionStays, RequestMoves

LEMMA ClaimMoves ==
    ASSUME TypeOK, AbsentIsUntried, NEW r \in Requests, Claim(r)
    PROVE  Moves
  <1> DEFINE event == requests[r].event
  <1>1. requests[r].stage = "claim" /\ event \in Events /\ Row(r) \in EventRows
    BY RequestTypes DEF Claim
  <1>2. UNCHANGED <<created, remote, subscription, syncs>>
    BY DEF Claim
  <1>3. CASE Row(r).status = "absent" /\ StartWork(r, 1) /\ UNCHANGED answer
    <2>1. Row(r).attempts = 0
      BY <1>1, <1>3 DEF AbsentIsUntried, Row, NoEvent
    <2> QED BY <1>1, <1>2, <1>3, <2>1, StartMoves, SizesAssumption
  <1>4. CASE /\ \E what \in Answers : Answer(r, what)
             /\ UNCHANGED <<events, stale>>
    BY <1>1, <1>2, <1>4, AnswerMoves
  <1>5. CASE /\ Row(r).status \in {"processing", "failed"}
             /\ ~Exhausted(Row(r)) /\ Retryable(event)
             /\ requests' = [requests EXCEPT ![r] = [Request("retry", event, 0) EXCEPT !.row = Row(r)]]
             /\ UNCHANGED <<answer, events, stale>>
    <2> DEFINE q == [Request("retry", event, 0) EXCEPT !.row = Row(r)]
    <2>1. q \in RequestStates /\ q.stage = "retry" /\ q.event = event /\ q.row = Row(r)
      BY <1>1, RequestType, SizesAssumption DEF Stages, Events
    <2>2. Row(r).attempts < MaxAttempts /\ (Row(r).status = "processing" => event \in stale)
      BY <1>1, <1>5, SizesAssumption DEF Exhausted, Retryable, Row, EventRows
    <2> HIDE DEF q
    <2>3. q = requests'[r] => RequestMove(r)
      BY <1>1, <1>5, <2>1, <2>2 DEF RequestMove
    <2>4. requests' = [requests EXCEPT ![r] = q]
      BY <1>5 DEF q
    <2>5. answer' \in [Events -> Answers] /\ events' \in [Events -> EventRows] /\ stale' \subseteq Events
      BY <1>5 DEF TypeOK
    <2> QED
      BY <1>1, <1>2, <1>5, <2>1, <2>3, <2>4, <2>5, EventsStay, SubscriptionStays, RequestMoves
  <1> QED
    BY <1>1, <1>3, <1>4, <1>5 DEF Claim, Answers

LEMMA RetryMoves ==
    ASSUME TypeOK, ReadsLag, NEW r \in Requests, Retry(r)
    PROVE  Moves
  <1>1. /\ requests[r].stage = "retry"
        /\ requests[r].row.status \in {"processing", "failed"}
        /\ requests[r].row.attempts < MaxAttempts
        /\ UNCHANGED <<created, remote, subscription, syncs>>
    BY DEF Retry, ReadsLag
  <1>2. CASE SameClaim(Row(r), requests[r].row)
    <2>1. StartWork(r, Row(r).attempts + 1) /\ UNCHANGED answer
      BY <1>2 DEF Retry
    <2>2. /\ Row(r).status # "processed" /\ Row(r).attempts < MaxAttempts
          /\ Row(r).status = "processing" => requests[r].event \in stale
      BY <1>1, <1>2 DEF SameClaim, ReadsLag
    <2> QED BY <1>1, <2>1, <2>2, StartMoves
  <1>3. CASE ~SameClaim(Row(r), requests[r].row)
    <2>1. Answer(r, "in progress") /\ UNCHANGED <<events, stale>> /\ "in progress" \in Answers
      BY <1>3 DEF Retry, Answers
    <2> QED BY <1>1, <2>1, AnswerMoves
  <1> QED BY <1>2, <1>3

LEMMA GoneToType ==
    ASSUME TypeOK, NEW r \in Requests, NEW stage \in Stages
    PROVE  /\ GoneTo(r, stage) \in RequestStates
           /\ GoneTo(r, stage).stage = stage /\ GoneTo(r, stage).event = requests[r].event
  BY RequestTypes, RequestType DEF GoneTo

LEMMA ReadPlanMoves ==
    ASSUME TypeOK, NEW r \in Requests, ReadPlan(r)
    PROVE  Moves
  <1> DEFINE q == [GoneTo(r, "apply") EXCEPT !.plan = subscription.plan]
  <1>1. q \in RequestStates /\ q.stage = "apply" /\ q.event = requests[r].event
    BY RequestTypes, RequestType, SubscriptionType DEF GoneTo, Stages
  <1>2. requests[r].stage = "read" /\ requests[r].event \in Events /\ requests[r].event # 0
    BY RequestTypes, SubscriptionType, SizesAssumption DEF ReadPlan, Events
  <1>3. requests' = [requests EXCEPT ![r] = q]
    BY DEF ReadPlan
  <1>4. answer' \in [Events -> Answers] /\ UNCHANGED <<created, remote, events, stale, subscription, syncs>>
    BY DEF ReadPlan, TypeOK
  <1> HIDE DEF q
  <1> QED BY <1>1, <1>2, <1>3, <1>4, QuietMoves

LEMMA RaiseMoves ==
    ASSUME TypeOK, NEW r \in Requests, Raise(r)
    PROVE  Moves
  <1> DEFINE q == GoneTo(r, "fail")
  <1>1. q \in RequestStates /\ q.stage = "fail" /\ q.event = requests[r].event
    BY GoneToType DEF Stages
  <1>2. requests[r].stage # "idle" /\ requests[r].event \in Events /\ requests[r].event # 0
    BY RequestTypes, SizesAssumption DEF Raise, Events
  <1>3. /\ requests' = [requests EXCEPT ![r] = q] /\ answer' \in [Events -> Answers]
        /\ UNCHANGED <<created, remote, events, stale, subscription, syncs>>
    BY DEF Raise, TypeOK
  <1> HIDE DEF q
  <1> QED BY <1>1, <1>2, <1>3, QuietMoves

LEMMA CrashMoves ==
    ASSUME TypeOK, NEW r \in Requests, Crash(r)
    PROVE  Moves
  <1>1. answer' \in [Events -> Answers] /\ requests[r].stage # "idle"
    BY DEF Crash, TypeOK
  <1> QED BY <1>1, IdleType, QuietMoves DEF Crash

\* The stamp of an event is at most twice the number of events, and an older one than
\* that of a sync made since the event was created.
LEMMA ApplyMoves ==
    ASSUME TypeOK, EventsAreCreated, NEW r \in Requests, Apply(r)
    PROVE  Moves
  <1> DEFINE event == requests[r].event
             plan == IF event \in PlanEvents THEN event ELSE requests[r].plan
  <1>1. /\ requests[r].stage = "apply" /\ event \in Events /\ event <= created
        /\ plan \in Plans /\ requests' = [requests EXCEPT ![r] = GoneTo(r, "complete")]
        /\ Applied(2 * event, plan)
        /\ UNCHANGED <<created, remote, answer, events, stale, syncs>>
    BY RequestTypes DEF Apply, EventsAreCreated, Plans
  <1> HIDE DEF event, plan
  <1>2. 2 * event \in 0 .. 2 * NumEvents + 1 /\ 2 * event <= 2 * created
    BY <1>1, SubscriptionType DEF Events
  <1>3. /\ subscription' \in [stamp : 0 .. 2 * NumEvents + 1, plan : Plans]
        /\ subscription'.stamp >= subscription.stamp /\ subscription'.stamp >= 2 * event
        /\ \/ subscription' = subscription
           \/ 2 * event >= subscription.stamp
    BY <1>1, <1>2, AppliedType
  <1>4. SubscriptionMove
    BY <1>2, <1>3, SubscriptionType, <1>1 DEF SubscriptionMove, Events
  <1>5. GoneTo(r, "complete") = requests'[r] => RequestMove(r)
    BY <1>3, GoneToType DEF RequestMove, Stages, event
  <1>6. answer' \in [Events -> Answers] /\ events' \in [Events -> EventRows] /\ stale' \subseteq Events
    BY <1>1 DEF TypeOK
  <1>7. /\ GoneTo(r, "complete") \in RequestStates
        /\ GoneTo(r, "complete").event \in Events
    BY <1>1, GoneToType DEF Stages, event
  <1> QED BY <1>1, <1>3, <1>4, <1>5, <1>6, <1>7, EventsStay, RequestMoves

\* Closing an attempt takes the token of its claim.
LEMMA CloseMoves ==
    ASSUME TypeOK, NEW r \in Requests, NEW status \in {"processed", "failed"},
           requests[r].stage # "idle", OwnsClaim(r), Close(r, status),
           status = "processed" => requests[r].stage = "complete",
           requests' = [requests EXCEPT ![r] = Idle],
           answer' \in [Events -> Answers],
           UNCHANGED <<created, remote, subscription, syncs>>
    PROVE  Moves
  <1> DEFINE event == requests[r].event
  <1>1. requests'[r] = Idle /\ requests'[r].stage = "idle" /\ requests'[r].event = 0
    BY IdleType DEF TypeOK
  <1>2. 0 <= created
    BY SubscriptionType
  <1>3. RequestMove(r)
    BY <1>1, <1>2 DEF RequestMove
  <1>4. Holds(r, event) /\ events[event].status = "processing"
    BY DEF OwnsClaim, Holds, Row
  <1>5. /\ events' \in [Events -> EventRows] /\ stale' \subseteq Events
        /\ events'[event].status = status /\ events'[event].attempts = events[event].attempts
        /\ \A e \in Events \ {event} : events'[e] = events[e] /\ (e \in stale' <=> e \in stale)
    BY CloseEffect DEF Row
  <1> HIDE DEF event
  <1>6. \A e \in Events : EventMove(e)
    <2> TAKE e \in Events
    <2>1. CASE e = event
      BY <1>1, <1>4, <1>5, <2>1 DEF EventMove
    <2>2. CASE e # event
      BY <1>5, <2>2 DEF EventMove
    <2> QED BY <2>1, <2>2
  <1> QED BY <1>1, <1>3, <1>5, <1>6, IdleType, SubscriptionStays, RequestMoves

LEMMA CompleteMoves ==
    ASSUME TypeOK, NEW r \in Requests, Complete(r)
    PROVE  Moves
  <1>1. requests[r].stage = "complete" /\ UNCHANGED <<created, remote, subscription, syncs>>
    BY DEF Complete
  <1>2. CASE OwnsClaim(r)
    <2>1. Close(r, "processed") /\ Answer(r, "processed") /\ "processed" \in Answers
      BY <1>2 DEF Complete, Answers
    <2> QED BY <1>1, <1>2, <2>1, AnswerEffect, CloseMoves
  <1>3. CASE ~OwnsClaim(r)
    <2>1. /\ requests' = [requests EXCEPT ![r] = Idle] /\ UNCHANGED <<events, stale, answer>>
          /\ answer' \in [Events -> Answers]
      BY <1>3 DEF Complete, TypeOK
    <2> QED BY <1>1, <2>1, IdleType, QuietMoves
  <1> QED BY <1>2, <1>3

LEMMA FailMoves ==
    ASSUME TypeOK, NEW r \in Requests, Fail(r)
    PROVE  Moves
  <1>1. /\ requests[r].stage = "fail" /\ UNCHANGED <<created, remote, answer, subscription, syncs>>
        /\ requests' = [requests EXCEPT ![r] = Idle] /\ answer' \in [Events -> Answers]
    BY DEF Fail, TypeOK
  <1>2. CASE OwnsClaim(r)
    BY <1>1, <1>2, CloseMoves DEF Fail
  <1>3. CASE ~OwnsClaim(r)
    BY <1>1, <1>3, IdleType, QuietMoves DEF Fail
  <1> QED BY <1>2, <1>3

-----------------------------------------------------------------------------
(* The other steps.                                                          *)

LEMMA DeliverMoves ==
    ASSUME TypeOK, NEW r \in Requests, NEW e \in Events, Deliver(r, e)
    PROVE  Moves
  <1> DEFINE q == Request("claim", e, 0)
  <1>1. q \in RequestStates /\ q.stage = "claim" /\ q.event = e
    BY RequestType, SizesAssumption DEF Stages, Events
  <1>2. /\ e <= created /\ requests' = [requests EXCEPT ![r] = q]
        /\ UNCHANGED <<created, remote, answer, events, stale, subscription, syncs>>
    BY DEF Deliver
  <1> HIDE DEF q
  <1>3. q = requests'[r] => RequestMove(r)
    BY <1>1, <1>2 DEF RequestMove
  <1>4. answer' \in [Events -> Answers] /\ events' \in [Events -> EventRows] /\ stale' \subseteq Events
    BY <1>2 DEF TypeOK
  <1> QED BY <1>1, <1>2, <1>3, <1>4, EventsStay, SubscriptionStays, RequestMoves

\* The steps that leave the requests alone.
LEMMA RequestsStay ==
    ASSUME TypeOK, UNCHANGED <<answer, requests>>,
           created' \in 0 .. NumEvents, created <= created', remote' \in Plans, syncs' \subseteq Plans,
           events' = events, stale' \subseteq Events, \A e \in Events : EventMove(e),
           SubscriptionMove, subscription' \in [stamp : 0 .. 2 * NumEvents + 1, plan : Plans]
    PROVE  Moves
  <1>1. TypeOK'
    BY DEF TypeOK
  <1>2. \A r \in Requests : RequestMove(r)
    BY DEF RequestMove
  <1> QED BY <1>1, <1>2 DEF Moves

LEMMA CreateMoves ==
    ASSUME TypeOK, Create
    PROVE  Moves
  <1>1. /\ created' \in 0 .. NumEvents /\ created <= created' /\ created' \in Events
        /\ remote' \in Plans
    BY SubscriptionType DEF Create, Events, Plans, TypeOK
  <1>2. UNCHANGED <<answer, requests, events, stale, subscription, syncs>>
        /\ stale' \subseteq Events /\ syncs' \subseteq Plans
    BY DEF Create, TypeOK
  <1> QED BY <1>1, <1>2, EventsStay, SubscriptionStays, RequestsStay

LEMMA ClaimAgesMoves ==
    ASSUME TypeOK, NEW e \in Events, ClaimAges(e)
    PROVE  Moves
  <1>1. /\ UNCHANGED <<created, remote, answer, requests, events, subscription, syncs>>
        /\ stale' = stale \cup {e}
    BY DEF ClaimAges
  <1>2. \A f \in Events : EventMove(f)
    BY <1>1 DEF EventMove
  <1>3. /\ created' \in 0 .. NumEvents /\ created <= created' /\ remote' \in Plans
        /\ syncs' \subseteq Plans /\ stale' \subseteq Events
    BY <1>1, SubscriptionType DEF TypeOK
  <1> QED BY <1>1, <1>2, <1>3, SubscriptionStays, RequestsStay

LEMMA SyncFetchMoves ==
    ASSUME TypeOK, SyncFetch
    PROVE  Moves
  <1>1. /\ UNCHANGED <<created, remote, answer, requests, events, stale, subscription>>
        /\ syncs' = syncs \cup {remote}
    BY DEF SyncFetch
  <1>2. /\ created' \in 0 .. NumEvents /\ created <= created' /\ remote' \in Plans
        /\ syncs' \subseteq Plans /\ stale' \subseteq Events
    BY <1>1, SubscriptionType DEF TypeOK
  <1> QED BY <1>1, <1>2, EventsStay, SubscriptionStays, RequestsStay

LEMMA SyncApplyMoves ==
    ASSUME TypeOK, NEW p \in Plans, SyncApply(p)
    PROVE  Moves
  <1>1. /\ UNCHANGED <<created, remote, answer, requests, events, stale>>
        /\ p \in syncs /\ syncs' \subseteq syncs /\ Applied(2 * created + 1, p)
    BY DEF SyncApply
  <1>2. 2 * created + 1 \in 0 .. 2 * NumEvents + 1
    BY SubscriptionType
  <1>3. /\ subscription' \in [stamp : 0 .. 2 * NumEvents + 1, plan : Plans]
        /\ subscription'.stamp >= subscription.stamp
        /\ subscription' = subscription \/ subscription'.plan = p
    BY <1>1, <1>2, AppliedType
  <1>4. SubscriptionMove
    BY <1>1, <1>3 DEF SubscriptionMove
  <1>5. /\ created' \in 0 .. NumEvents /\ created <= created' /\ remote' \in Plans
        /\ syncs' \subseteq Plans /\ stale' \subseteq Events
    BY <1>1, SubscriptionType DEF TypeOK
  <1> QED BY <1>1, <1>3, <1>4, <1>5, EventsStay, RequestsStay

\* Every step of the system is such a move.
LEMMA NextMoves ==
    ASSUME InductiveInvariant, [Next]_vars
    PROVE  Moves
  <1>1. TypeOK /\ ReadsLag /\ EventsAreCreated /\ AbsentIsUntried
    BY DEF InductiveInvariant
  <1>2. ASSUME NEW r \in Requests, Serve(r) PROVE Moves
    BY <1>1, <1>2, ClaimMoves, RetryMoves, ReadPlanMoves, ApplyMoves, CompleteMoves, FailMoves
       DEF Serve
  <1>3. ASSUME UNCHANGED vars PROVE Moves
    <2>1. /\ UNCHANGED <<created, remote, answer, requests, events, stale, subscription, syncs>>
          /\ created' \in 0 .. NumEvents /\ created <= created' /\ remote' \in Plans
          /\ syncs' \subseteq Plans /\ stale' \subseteq Events
      BY <1>1, <1>3, SubscriptionType DEF vars, TypeOK
    <2> QED BY <1>1, <2>1, EventsStay, SubscriptionStays, RequestsStay
  <1> QED
    BY <1>1, <1>2, <1>3, RaiseMoves, CrashMoves, DeliverMoves, ClaimAgesMoves, CreateMoves,
       SyncFetchMoves, SyncApplyMoves DEF Next

-----------------------------------------------------------------------------
(* The invariant.                                                            *)

LEMMA InitInvariant == Init => InductiveInvariant
  <1> SUFFICES ASSUME Init PROVE InductiveInvariant
    OBVIOUS
  <1>1. TypeOK
    BY IdleType, SizesAssumption DEF Init, TypeOK, Answers, Plans
  <1>2. \A r \in Requests : requests[r].stage = "idle" /\ requests[r].event = 0
    BY IdleType DEF Init
  <1>3. \A e \in Events : events[e].status = "absent" /\ events[e] = NoEvent
    BY DEF Init, NoEvent
  <1> QED
    BY <1>1, <1>2, <1>3
       DEF InductiveInvariant, ProcessedIsApplied, AppliesFirst, ReadsLag, EventsAreCreated,
           AbsentIsUntried, Init

LEMMA StepInvariant == InductiveInvariant /\ [Next]_vars => InductiveInvariant'
  <1> SUFFICES ASSUME InductiveInvariant, [Next]_vars PROVE InductiveInvariant'
    OBVIOUS
  <1>1. Moves /\ TypeOK /\ TypeOK'
    BY NextMoves DEF Moves, InductiveInvariant
  <1>2. /\ subscription'.stamp >= subscription.stamp
        /\ subscription.stamp \in Nat /\ subscription'.stamp \in Nat
    BY <1>1, SizesAssumption DEF Moves, SubscriptionMove, TypeOK
  <1>3. \A r \in Requests : requests[r].event \in Nat /\ requests'[r].event \in Nat
    BY <1>1, SizesAssumption DEF TypeOK, RequestStates
  <1>4. ProcessedIsApplied'
    <2> SUFFICES ASSUME NEW e \in Events, events'[e].status = "processed"
                 PROVE  subscription'.stamp >= 2 * e
      BY DEF ProcessedIsApplied
    <2>1. subscription.stamp >= 2 * e
      <3>1. CASE events[e].status = "processed"
        BY <3>1 DEF InductiveInvariant, ProcessedIsApplied
      <3>2. CASE events[e].status # "processed"
        <4>1. PICK r \in Requests : Holds(r, e) /\ requests[r].stage = "complete"
          BY <1>1, <3>2 DEF Moves, EventMove
        <4> QED BY <4>1 DEF InductiveInvariant, AppliesFirst, Holds
      <3> QED BY <3>1, <3>2
    <2> QED BY <1>2, <2>1, SizesAssumption DEF Events
  <1>5. AppliesFirst'
    <2> SUFFICES ASSUME NEW r \in Requests, requests'[r].stage = "complete"
                 PROVE  subscription'.stamp >= 2 * requests'[r].event
      BY DEF AppliesFirst
    <2>1. RequestMove(r)
      BY <1>1 DEF Moves
    <2>2. CASE requests'[r] = requests[r]
      BY <1>2, <1>3, <2>2 DEF InductiveInvariant, AppliesFirst
    <2> QED BY <2>1, <2>2 DEF RequestMove
  <1>6. ReadsLag'
    <2> SUFFICES ASSUME NEW r \in Requests, requests'[r].stage = "retry"
                 PROVE  /\ requests'[r].row.status \in {"processing", "failed"}
                        /\ requests'[r].row.attempts < MaxAttempts
                        /\ requests'[r].row.attempts <= events'[requests'[r].event].attempts
                        /\ /\ events'[requests'[r].event].status = "processing"
                           /\ SameClaim(events'[requests'[r].event], requests'[r].row)
                           => requests'[r].event \in stale'
      BY DEF ReadsLag, Row
    <2>1. RequestMove(r)
      BY <1>1 DEF Moves
    <2>2. CASE requests'[r] = requests[r]
      <3> DEFINE e == requests[r].event
                 row == requests[r].row
      <3>1. /\ e \in Events /\ row.status \in {"processing", "failed"}
            /\ row.attempts < MaxAttempts /\ row.attempts <= events[e].attempts
            /\ events[e].status = "processing" /\ SameClaim(events[e], row) => e \in stale
        BY <1>1, <2>2 DEF InductiveInvariant, ReadsLag, Row, TypeOK
      <3>2. /\ events[e].attempts \in Nat /\ events'[e].attempts \in Nat /\ row.attempts \in Nat
        BY <1>1, <3>1, RequestTypes, SizesAssumption DEF TypeOK, EventRows
      <3>3. EventMove(e)
        BY <1>1, <3>1 DEF Moves
      <3> HIDE DEF e, row
      <3>4. row.attempts <= events'[e].attempts
        BY <3>1, <3>2, <3>3 DEF EventMove
      <3>5. events'[e].status = "processing" /\ SameClaim(events'[e], row) => e \in stale'
        BY <3>1, <3>2, <3>3 DEF EventMove, SameClaim
      <3> QED BY <2>2, <3>1, <3>4, <3>5 DEF e, row
    <2>3. CASE /\ requests'[r].event = requests[r].event /\ requests'[r].row = Row(r)
               /\ Row(r).status \in {"processing", "failed"} /\ Row(r).attempts < MaxAttempts
               /\ Row(r).status = "processing" => requests[r].event \in stale
               /\ events' = events /\ stale' = stale
      <3>1. Row(r).attempts \in Nat
        BY <1>1, <2>3, SizesAssumption DEF TypeOK, EventRows, Row
      <3> QED BY <2>3, <3>1 DEF Row, SameClaim
    <2> QED BY <2>1, <2>2, <2>3 DEF RequestMove
  <1>7. EventsAreCreated'
    <2> SUFFICES ASSUME NEW r \in Requests PROVE requests'[r].event <= created'
      BY DEF EventsAreCreated
    <2>1. RequestMove(r) /\ created <= created' /\ created \in Nat /\ created' \in Nat
      BY <1>1, SizesAssumption DEF Moves, TypeOK
    <2>2. requests[r].event <= created
      BY DEF InductiveInvariant, EventsAreCreated
    <2>3. requests'[r].event = requests[r].event \/ requests'[r].event <= created
      BY <2>1 DEF RequestMove
    <2> QED BY <1>3, <2>1, <2>2, <2>3
  <1>8. AbsentIsUntried'
    <2> SUFFICES ASSUME NEW e \in Events, events'[e].status = "absent"
                 PROVE  events'[e] = NoEvent
      BY DEF AbsentIsUntried
    <2>1. events'[e] = events[e]
      BY <1>1 DEF Moves, EventMove
    <2> QED BY <2>1 DEF InductiveInvariant, AbsentIsUntried
  <1> QED BY <1>1, <1>4, <1>5, <1>6, <1>7, <1>8 DEF InductiveInvariant

-----------------------------------------------------------------------------
(* The theorems.                                                             *)

\* The inductive invariant holds in every reachable state, for any number of redeliveries
\* of any number of events.
THEOREM Invariance == Spec => []InductiveInvariant
  BY InitInvariant, StepInvariant, PTL DEF Spec

\* The tables and the requests stay in their types: no event gets more attempts than
\* claim_stripe_event allows.
THEOREM TypeCorrect == Spec => []TypeOK
  <1>1. InductiveInvariant => TypeOK
    BY DEF InductiveInvariant
  <1> QED BY <1>1, Invariance, PTL

\* A processed event has reached the subscription, or a newer one has, however often
\* requests died between the two tables or lost their claims.
THEOREM ProcessedEventsAreApplied == Spec => []ProcessedIsApplied
  <1>1. InductiveInvariant => ProcessedIsApplied
    BY DEF InductiveInvariant
  <1> QED BY <1>1, Invariance, PTL

\* No request, stale or retrying, changes the row of a processed event.
THEOREM ProcessingIsFinal == Spec => ProcessedIsFinal
  <1>1. ASSUME InductiveInvariant, [Next]_vars
        PROVE  \A e \in Events : events[e].status = "processed" => events'[e] = events[e]
    <2> SUFFICES ASSUME NEW e \in Events, events[e].status = "processed"
                 PROVE  events'[e] = events[e]
      OBVIOUS
    <2>1. EventMove(e)
      BY <1>1, NextMoves DEF Moves
    <2> QED BY <2>1 DEF EventMove
  <1> QED BY <1>1, Invariance, PTL DEF Spec, ProcessedIsFinal

\* A claim that is not stale is ended by the request that holds it.
THEOREM FreshClaimsAreKept == Spec => FreshClaimIsKept
  <1>1. ASSUME InductiveInvariant, [Next]_vars
        PROVE  \A e \in Events :
                   /\ events[e].status = "processing" /\ e \notin stale
                   /\ events'[e] # events[e]
                   => \E r \in Requests : Holds(r, e) /\ requests'[r].stage = "idle"
    <2> SUFFICES ASSUME NEW e \in Events, events[e].status = "processing", e \notin stale,
                        events'[e] # events[e]
                 PROVE  \E r \in Requests : Holds(r, e) /\ requests'[r].stage = "idle"
      OBVIOUS
    <2>1. EventMove(e)
      BY <1>1, NextMoves DEF Moves
    <2> QED BY <2>1 DEF EventMove
  <1> QED BY <1>1, Invariance, PTL DEF Spec, FreshClaimIsKept

\* No request in flight undoes what sync_subscription put right.
THEOREM SyncsLast == Spec => SyncedPlanStays
  <1>1. ASSUME InductiveInvariant, [Next]_vars
        PROVE  /\ subscription.stamp > 2 * created /\ subscription.plan = remote
               /\ syncs \subseteq {remote}
               => subscription'.plan = subscription.plan
    BY <1>1, NextMoves DEF Moves, SubscriptionMove
  <1> QED BY <1>1, Invariance, PTL DEF Spec, SyncedPlanStays
=============================================================================
