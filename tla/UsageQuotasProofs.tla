------------------------- MODULE UsageQuotasProofs -------------------------
(***************************************************************************)
(* What UsageQuotas promises for any number of features, days, keys and    *)
(* calls.                                                                  *)
(***************************************************************************)
EXTENDS UsageQuotas, TLAPS

LEMMA SomeRequestType == AnyRequest \in Requests
  <1>1. (CHOOSE k \in Keys : TRUE) \in Keys /\ (CHOOSE p \in Payloads : TRUE) \in Payloads
    BY SomeAssumption
  <1>. QED BY <1>1, NumbersAssumption DEF AnyRequest, Request, Requests, Days

LEMMA QuantityType ==
    ASSUME TypeOK, NEW c \in Calls, NEW f \in Features
    PROVE  Quantity(c, f) \in Nat
  BY WantedAssumption DEF TypeOK, Quantity, Requests

LEMMA EndsType ==
    ASSUME TypeOK, NEW c \in Calls, NEW at \in Stages, Ends(c, at)
    PROVE  /\ stage' \in [Calls -> Stages] /\ request' \in [Calls -> Requests]
           /\ feature' \in [Calls -> 0 .. NumFeatures] /\ todo' \in [Calls -> SUBSET Features]
           /\ sum' \in [Calls -> Nat] /\ inserted' \in [Calls -> SUBSET Features]
           /\ drafts' \in [Calls -> [Features -> CounterRows]]
  <1>1. 0 \in 0 .. NumFeatures
    BY NumbersAssumption
  <1>2. [f \in Features |-> NoCounter] \in [Features -> CounterRows]
    BY DEF NoCounter, CounterRows
  <1>. QED BY <1>1, <1>2, SomeRequestType DEF TypeOK, Ends

LEMMA GoesOnType ==
    ASSUME TypeOK, NEW c \in Calls, NEW features \in SUBSET Features, GoesOn(c, features)
    PROVE  /\ stage' \in [Calls -> Stages] /\ feature' \in [Calls -> 0 .. NumFeatures]
           /\ todo' \in [Calls -> SUBSET Features]
  <1>1. 0 \in 0 .. NumFeatures /\ Features \subseteq 0 .. NumFeatures
    BY NumbersAssumption DEF Features
  <1>2. CASE /\ stage' = [stage EXCEPT ![c] = "commit"]
             /\ todo' = [todo EXCEPT ![c] = {}]
             /\ feature' = [feature EXCEPT ![c] = 0]
    BY <1>1, <1>2 DEF TypeOK, Stages
  <1>3. ASSUME NEW f \in NextFeatures(features),
               stage' = [stage EXCEPT ![c] = "event"],
               todo' = [todo EXCEPT ![c] = features \ {f}],
               feature' = [feature EXCEPT ![c] = f]
        PROVE  /\ stage' \in [Calls -> Stages] /\ feature' \in [Calls -> 0 .. NumFeatures]
               /\ todo' \in [Calls -> SUBSET Features]
    <2>1. f \in Features
      BY DEF NextFeatures
    <2>. QED BY <1>1, <1>3, <2>1 DEF TypeOK, Stages
  <1>. QED BY <1>2, <1>3 DEF GoesOn

LEMMA CommittedType ==
    ASSUME TypeOK, NEW c \in Calls, Committed(c)
    PROVE  /\ events' \in [Features -> [Keys -> EventRows]]
           /\ used' \in [Features -> [Days -> Nat]]
           /\ counters' \in [Features -> [Days -> CounterRows]]
  <1>1. Key(c) \in Keys /\ Day(c) \in Days
    BY DEF TypeOK, Key, Day, Requests
  <1>2. \A f \in Features : Quantity(c, f) \in Nat
    BY QuantityType
  <1>3. \A f \in Features : [day |-> Day(c), quantity |-> Quantity(c, f)] \in EventRows
    BY <1>1, <1>2, NumbersAssumption DEF EventRows, Days
  <1>. QED BY <1>1, <1>2, <1>3 DEF TypeOK, Committed

LEMMA TypeCorrectStep ==
    ASSUME TypeOK, LoopIsSorted, [Next]_vars
    PROVE  TypeOK'
  <1>1. ASSUME NEW c \in Calls, NEW k \in Keys, NEW p \in Payloads, NEW admin \in BOOLEAN,
               Submit(c, k, p, admin)
        PROVE  TypeOK'
    <2>1. Request(k, p, admin, [f \in Features |-> 0], 1) \in Requests
      BY NumbersAssumption DEF Request, Requests, Days
    <2>. QED BY <1>1, <2>1 DEF Submit, TypeOK, tables, progress, Stages
  <1>2. ASSUME NEW c \in Calls, ReadQuotas(c)
        PROVE  TypeOK'
    <2>1. Request(request[c].key, request[c].payload, request[c].admin, quotas, 1) \in Requests
      BY NumbersAssumption DEF Request, Requests, Days, TypeOK
    <2>. QED BY <1>2, <2>1 DEF ReadQuotas, TypeOK, tables, progress, Stages
  <1>3. ASSUME NEW c \in Calls, Begin(c)
        PROVE  TypeOK'
    <2>1. Request(request[c].key, request[c].payload, request[c].admin,
                  request[c].limits, today) \in Requests
      BY DEF Request, Requests, TypeOK
    <2>2. /\ stage' \in [Calls -> Stages] /\ feature' \in [Calls -> 0 .. NumFeatures]
          /\ todo' \in [Calls -> SUBSET Features]
      <3>. DEFINE R == {f \in Features : Quantity(c, f) > 0}
      <3>1. R \in SUBSET Features /\ GoesOn(c, R)
        BY <1>3 DEF Begin
      <3>. HIDE DEF R
      <3>. QED BY <3>1, GoesOnType
    <2>3. request' \in [Calls -> Requests]
      BY <1>3, <2>1 DEF Begin, TypeOK
    <2>. QED BY <1>3, <2>2, <2>3 DEF Begin, TypeOK, tables
  <1>4. ASSUME NEW c \in Calls, RollsBack(c), UNCHANGED today
        PROVE  TypeOK'
    BY <1>4, EndsType DEF RollsBack, TypeOK, tables, Stages
  <1>5. ASSUME NEW c \in Calls, InsertEvent(c)
        PROVE  TypeOK'
    <2>1. CASE /\ events[feature[c]][Key(c)] = NoEvent
               /\ inserted' = [inserted EXCEPT ![c] = @ \cup {feature[c]}]
               /\ stage' = [stage EXCEPT ![c] = "sum"]
               /\ UNCHANGED <<tables, request, feature, todo, sum, drafts>>
      <3>1. feature[c] \in Features
        BY <1>5 DEF InsertEvent, LoopIsSorted, AtFeature
      <3>. QED BY <1>5, <2>1, <3>1 DEF InsertEvent, TypeOK, tables, Stages
    <2>2. CASE GoesOn(c, todo[c]) /\ UNCHANGED <<tables, request, sum, inserted, drafts>>
      <3>1. todo[c] \in SUBSET Features
        BY DEF TypeOK
      <3>2. /\ stage' \in [Calls -> Stages] /\ feature' \in [Calls -> 0 .. NumFeatures]
            /\ todo' \in [Calls -> SUBSET Features]
        BY <2>2, <3>1, GoesOnType
      <3>. QED BY <1>5, <2>2, <3>2 DEF InsertEvent, TypeOK, tables
    <2>3. CASE RollsBack(c)
      BY <1>4, <1>5, <2>3 DEF InsertEvent
    <2>. QED BY <1>5, <2>1, <2>2, <2>3 DEF InsertEvent
  <1>6. ASSUME NEW c \in Calls, ReadSum(c)
        PROVE  TypeOK'
    <2>1. feature[c] \in Features /\ Day(c) \in Days
      BY <1>6 DEF TypeOK, Day, Requests, ReadSum, LoopIsSorted, AtFeature
    <2>2. used[feature[c]][Day(c)] \in Nat
      BY <2>1 DEF TypeOK
    <2>. QED BY <1>6, <2>2 DEF ReadSum, TypeOK, tables, Stages
  <1>7. ASSUME NEW c \in Calls, InsertCounter(c)
        PROVE  TypeOK'
    <2>1. Counter(sum[c]) \in CounterRows
      BY DEF Counter, CounterRows, TypeOK
    <2>2. drafts' \in [Calls -> [Features -> CounterRows]]
      BY <1>7, <2>1 DEF InsertCounter, TypeOK
    <2>. QED BY <1>7, <2>2 DEF InsertCounter, TypeOK, tables, Stages
  <1>8. ASSUME NEW c \in Calls, UpdateCounter(c)
        PROVE  TypeOK'
    <2>1. CASE RollsBack(c)
      BY <1>4, <1>8, <2>1 DEF UpdateCounter
    <2>2. CASE /\ drafts' = [drafts EXCEPT ![c] = [@ EXCEPT ![feature[c]] =
                      Counter(Seen(c, feature[c]).quantity + Quantity(c, feature[c]))]]
               /\ GoesOn(c, todo[c])
               /\ UNCHANGED <<tables, request, sum, inserted>>
      <3>1. todo[c] \in SUBSET Features /\ feature[c] \in Features /\ Day(c) \in Days
        BY <1>8 DEF TypeOK, Day, Requests, UpdateCounter, LoopIsSorted, AtFeature
      <3>2. /\ stage' \in [Calls -> Stages] /\ feature' \in [Calls -> 0 .. NumFeatures]
            /\ todo' \in [Calls -> SUBSET Features]
        BY <2>2, <3>1, GoesOnType
      <3>3. Seen(c, feature[c]).quantity \in Nat
        BY <3>1 DEF Seen, TypeOK, CounterRows
      <3>4. Counter(Seen(c, feature[c]).quantity + Quantity(c, feature[c])) \in CounterRows
        BY <3>1, <3>3, QuantityType DEF Counter, CounterRows
      <3>5. drafts' \in [Calls -> [Features -> CounterRows]]
        BY <2>2, <3>4 DEF TypeOK
      <3>. QED BY <1>8, <2>2, <3>2, <3>5 DEF UpdateCounter, TypeOK, tables
    <2>. QED BY <1>8, <2>1, <2>2 DEF UpdateCounter
  <1>9. ASSUME NEW c \in Calls, Commit(c)
        PROVE  TypeOK'
    BY <1>9, EndsType, CommittedType DEF Commit, TypeOK, tables, Stages
  <1>10. ASSUME NEW c \in Calls, CreateJob(c)
         PROVE  TypeOK'
    <2>1. jobs' \in [Keys -> Jobs]
      BY <1>10 DEF CreateJob, Created, TypeOK, Jobs, Key, Requests
    <2>. QED BY <1>10, <2>1, EndsType DEF CreateJob, TypeOK, Stages
  <1>11. CASE Midnight
    BY <1>11, NumbersAssumption DEF Midnight, TypeOK, tables, progress, Days
  <1>12. ASSUME NEW limits \in Limits, SetQuotas(limits)
         PROVE  TypeOK'
    BY <1>12, LimitsAssumption DEF SetQuotas, TypeOK, progress
  <1>13. CASE UNCHANGED vars
    BY <1>13 DEF vars, tables, progress, TypeOK
  <1>. QED BY <1>1, <1>2, <1>3, <1>4, <1>5, <1>6, <1>7, <1>8, <1>9, <1>10, <1>11, <1>12, <1>13
           DEF Next, Step, Reserve, Crash

-----------------------------------------------------------------------------
(* The parts of the invariant, action by action.                             *)

Parts == /\ LoopIsSorted /\ WritesAreOpen /\ LocksAreExclusive /\ DraftsAreExact
         /\ SumsAreFresh /\ EventsAreThere /\ CountersAreExact /\ JobsArePaid

\* Only the call c makes a step.
OnlyMoves(c) ==
    \A d \in Calls \ {c} :
        /\ stage'[d] = stage[d] /\ request'[d] = request[d] /\ feature'[d] = feature[d]
        /\ todo'[d] = todo[d] /\ sum'[d] = sum[d] /\ inserted'[d] = inserted[d]
        /\ drafts'[d] = drafts[d]

\* A call that ends and leaves the tables alone.
LEMMA RollsBackStep ==
    ASSUME InductiveInvariant, NEW c \in Calls, RollsBack(c)
    PROVE  Parts'
  <1>1. /\ OnlyMoves(c) /\ stage'[c] = "idle"
        /\ inserted'[c] = {} /\ \A f \in Features : ~drafts'[c][f].exists
        /\ UNCHANGED <<events, used, counters, jobs>>
    BY DEF RollsBack, Ends, tables, InductiveInvariant, TypeOK, NoCounter, OnlyMoves
  <1>2. LoopIsSorted'
    BY <1>1 DEF OnlyMoves, InductiveInvariant, LoopIsSorted, AtFeature, InTransaction, Quantity
  <1>3. WritesAreOpen'
    BY <1>1 DEF OnlyMoves, InductiveInvariant, WritesAreOpen, AtFeature, InTransaction, Quantity, Done
  <1>4. LocksAreExclusive'
    BY <1>1 DEF OnlyMoves, InductiveInvariant, LocksAreExclusive, Key, Day
  <1>5. DraftsAreExact'
    BY <1>1 DEF OnlyMoves, InductiveInvariant, DraftsAreExact, Day, Quantity
  <1>6. SumsAreFresh'
    BY <1>1 DEF OnlyMoves, InductiveInvariant, SumsAreFresh, Day
  <1>7. EventsAreThere'
    BY <1>1 DEF OnlyMoves, InductiveInvariant, EventsAreThere, Key, Quantity, HasEvent, InTransaction, AtFeature, Done
  <1>8. CountersAreExact' /\ JobsArePaid'
    BY <1>1 DEF OnlyMoves, InductiveInvariant, CountersAreExact, JobsArePaid
  <1>. QED BY <1>2, <1>3, <1>4, <1>5, <1>6, <1>7, <1>8 DEF Parts
\* A call outside a transaction has written nothing.
LEMMA OutsideStep ==
    ASSUME InductiveInvariant, NEW c \in Calls, OnlyMoves(c),
           stage[c] \in {"idle", "quotas"},
           stage'[c] \in {"quotas", "begin"} \/ (stage'[c] = "create" /\ request'[c].admin),
           stage'[c] = "begin" => ~request'[c].admin,
           UNCHANGED <<events, used, counters, jobs, feature, todo, sum, inserted, drafts>>
    PROVE  Parts'
  <1>1. /\ \A f \in Features : f \notin inserted[c] /\ ~drafts[c][f].exists
        /\ inserted[c] = {}
    BY DEF InductiveInvariant, WritesAreOpen, InTransaction, AtFeature, TypeOK
  <1>2. LoopIsSorted'
    BY <1>1 DEF OnlyMoves, InductiveInvariant, LoopIsSorted, AtFeature, InTransaction, Quantity
  <1>3. WritesAreOpen'
    BY <1>1 DEF OnlyMoves, InductiveInvariant, WritesAreOpen, AtFeature, InTransaction, Quantity, Done
  <1>4. LocksAreExclusive'
    BY <1>1 DEF OnlyMoves, InductiveInvariant, LocksAreExclusive, Key, Day
  <1>5. DraftsAreExact'
    BY <1>1 DEF OnlyMoves, InductiveInvariant, DraftsAreExact, Day, Quantity
  <1>6. SumsAreFresh'
    BY <1>1 DEF OnlyMoves, InductiveInvariant, SumsAreFresh, Day
  <1>7. EventsAreThere'
    BY <1>1 DEF OnlyMoves, InductiveInvariant, EventsAreThere, Key, Quantity, HasEvent, InTransaction,
                AtFeature, Done
  <1>8. CountersAreExact' /\ JobsArePaid'
    BY <1>1 DEF InductiveInvariant, CountersAreExact, JobsArePaid
  <1>. QED BY <1>2, <1>3, <1>4, <1>5, <1>6, <1>7, <1>8 DEF Parts

LEMMA GoesOnResult ==
    ASSUME TypeOK, NEW c \in Calls, NEW features \in SUBSET Features, GoesOn(c, features)
    PROVE  /\ \/ /\ features = {} /\ stage'[c] = "commit"
                 /\ todo'[c] = {} /\ feature'[c] = 0
              \/ /\ stage'[c] = "event" /\ feature'[c] \in features
                 /\ todo'[c] = features \ {feature'[c]}
                 /\ \A g \in todo'[c] : feature'[c] < g
           /\ \A d \in Calls \ {c} :
                  stage'[d] = stage[d] /\ feature'[d] = feature[d] /\ todo'[d] = todo[d]
  <1>1. Features \subseteq Nat
    BY NumbersAssumption DEF Features
  <1>2. CASE /\ features = {}
             /\ stage' = [stage EXCEPT ![c] = "commit"]
             /\ todo' = [todo EXCEPT ![c] = {}]
             /\ feature' = [feature EXCEPT ![c] = 0]
    BY <1>2 DEF TypeOK
  <1>3. ASSUME NEW f \in NextFeatures(features),
               stage' = [stage EXCEPT ![c] = "event"],
               todo' = [todo EXCEPT ![c] = features \ {f}],
               feature' = [feature EXCEPT ![c] = f]
        PROVE  /\ stage'[c] = "event" /\ feature'[c] \in features
               /\ todo'[c] = features \ {feature'[c]}
               /\ \A g \in todo'[c] : feature'[c] < g
               /\ \A d \in Calls \ {c} :
                      stage'[d] = stage[d] /\ feature'[d] = feature[d] /\ todo'[d] = todo[d]
    <2>1. f \in features /\ \A g \in features : f <= g
      BY DEF NextFeatures
    <2>2. \A g \in features \ {f} : f < g
      BY <1>1, <2>1
    <2>3. stage'[c] = "event" /\ feature'[c] = f /\ todo'[c] = features \ {f}
      BY <1>3 DEF TypeOK
    <2>. QED BY <1>3, <2>1, <2>2, <2>3 DEF TypeOK
  <1>. QED BY <1>2, <1>3 DEF GoesOn

LEMMA BeginStep ==
    ASSUME InductiveInvariant, NEW c \in Calls, Begin(c)
    PROVE  Parts'
  <1>1. /\ \A f \in Features : f \notin inserted[c] /\ ~drafts[c][f].exists
        /\ inserted[c] = {} /\ stage[c] = "begin" /\ ~request[c].admin
    BY DEF InductiveInvariant, WritesAreOpen, InTransaction, AtFeature, TypeOK, Begin, LoopIsSorted
  <1>. DEFINE R == {f \in Features : Quantity(c, f) > 0}
  <1>2. R \in SUBSET Features /\ GoesOn(c, R) /\ \A f \in Features : f \in R <=> Quantity(c, f) > 0
    BY DEF Begin
  <1>. HIDE DEF R
  <1>3. /\ \/ R = {} /\ stage'[c] = "commit" /\ todo'[c] = {} /\ feature'[c] = 0
           \/ /\ stage'[c] = "event" /\ feature'[c] \in R /\ todo'[c] = R \ {feature'[c]}
              /\ \A g \in todo'[c] : feature'[c] < g
        /\ OnlyMoves(c)
        /\ request'[c].key = request[c].key /\ request'[c].payload = request[c].payload
        /\ request'[c].admin = request[c].admin
        /\ UNCHANGED <<events, used, counters, jobs, sum, inserted, drafts>>
    BY <1>2, GoesOnResult DEF Begin, tables, InductiveInvariant, TypeOK, OnlyMoves, Request
  <1>4. LoopIsSorted'
    BY <1>1, <1>2, <1>3
    DEF OnlyMoves, InductiveInvariant, LoopIsSorted, AtFeature, InTransaction, Quantity
  <1>5. WritesAreOpen'
    BY <1>1, <1>2, <1>3
    DEF OnlyMoves, InductiveInvariant, WritesAreOpen, AtFeature, InTransaction, Quantity, Done
  <1>6. LocksAreExclusive'
    BY <1>1, <1>2, <1>3
    DEF OnlyMoves, InductiveInvariant, LocksAreExclusive, Key, Day
  <1>7. DraftsAreExact'
    BY <1>1, <1>2, <1>3
    DEF OnlyMoves, InductiveInvariant, DraftsAreExact, Day, Quantity
  <1>8. SumsAreFresh'
    BY <1>1, <1>2, <1>3
    DEF OnlyMoves, InductiveInvariant, SumsAreFresh, Day
  <1>9. EventsAreThere'
    BY <1>1, <1>2, <1>3
    DEF OnlyMoves, InductiveInvariant, EventsAreThere, Key, Quantity, HasEvent, InTransaction, AtFeature, Done
  <1>10. CountersAreExact'
    BY <1>1, <1>2, <1>3
    DEF OnlyMoves, InductiveInvariant, CountersAreExact
  <1>11. JobsArePaid'
    BY <1>1, <1>2, <1>3
    DEF OnlyMoves, InductiveInvariant, JobsArePaid
  <1>. QED BY <1>4, <1>5, <1>6, <1>7, <1>8, <1>9, <1>10, <1>11 DEF Parts

LEMMA FeaturesAreNumbers == Features \subseteq Nat /\ 0 \notin Features
  BY NumbersAssumption DEF Features

LEMMA EventInserted ==
    ASSUME InductiveInvariant, NEW c \in Calls, NEW f \in Features, f = feature[c],
           stage[c] = "event", ~EventIsHeld(c, f), events[f][Key(c)] = NoEvent,
           inserted' = [inserted EXCEPT ![c] = @ \cup {f}],
           stage' = [stage EXCEPT ![c] = "sum"],
           UNCHANGED <<tables, request, feature, todo, sum, drafts>>
    PROVE  Parts'
  <1>1. /\ OnlyMoves(c) /\ stage'[c] = "sum" /\ inserted'[c] = inserted[c] \cup {f}
        /\ UNCHANGED <<events, used, counters, jobs, request, feature, todo, sum, drafts>>
    BY DEF tables, InductiveInvariant, TypeOK, OnlyMoves
  <1>2. /\ Quantity(c, f) > 0 /\ f \notin todo[c] /\ f \notin inserted[c] /\ ~drafts[c][f].exists
    BY FeaturesAreNumbers DEF InductiveInvariant, LoopIsSorted, WritesAreOpen, AtFeature, Done
  <1>3. LoopIsSorted'
    BY <1>1, <1>2
    DEF OnlyMoves, InductiveInvariant, LoopIsSorted, AtFeature, InTransaction, Quantity
  <1>4. WritesAreOpen'
    BY <1>1, <1>2
    DEF OnlyMoves, InductiveInvariant, WritesAreOpen, AtFeature, InTransaction, Quantity, Done
  <1>5. LocksAreExclusive'
    BY <1>1, <1>2
    DEF OnlyMoves, InductiveInvariant, LocksAreExclusive, Key, Day, EventIsHeld
  <1>6. DraftsAreExact'
    BY <1>1, <1>2
    DEF OnlyMoves, InductiveInvariant, DraftsAreExact, Day, Quantity
  <1>7. SumsAreFresh'
    BY <1>1, <1>2
    DEF OnlyMoves, InductiveInvariant, SumsAreFresh, Day
  <1>8. EventsAreThere'
    BY <1>1, <1>2
    DEF OnlyMoves, InductiveInvariant, EventsAreThere, Key, Quantity, HasEvent, InTransaction, AtFeature, Done, NoEvent
  <1>9. CountersAreExact'
    BY <1>1, <1>2
    DEF OnlyMoves, InductiveInvariant, CountersAreExact
  <1>10. JobsArePaid'
    BY <1>1, <1>2
    DEF OnlyMoves, InductiveInvariant, JobsArePaid
  <1>. QED BY <1>3, <1>4, <1>5, <1>6, <1>7, <1>8, <1>9, <1>10 DEF Parts

LEMMA EventReplayed ==
    ASSUME InductiveInvariant, NEW c \in Calls, NEW f \in Features, f = feature[c],
           stage[c] = "event",
           events[f][Key(c)] # NoEvent, events[f][Key(c)].quantity = Quantity(c, f),
           GoesOn(c, todo[c]), UNCHANGED <<tables, request, sum, inserted, drafts>>
    PROVE  Parts'
  <1>1. /\ \/ todo[c] = {} /\ stage'[c] = "commit" /\ todo'[c] = {} /\ feature'[c] = 0
           \/ /\ stage'[c] = "event" /\ feature'[c] \in todo[c]
              /\ todo'[c] = todo[c] \ {feature'[c]}
              /\ \A g \in todo'[c] : feature'[c] < g
        /\ OnlyMoves(c) /\ todo[c] \in SUBSET Features
        /\ UNCHANGED <<events, used, counters, jobs, request, sum, inserted, drafts>>
    <2>1. TypeOK /\ todo[c] \in SUBSET Features
      BY DEF InductiveInvariant, TypeOK
    <2>. QED BY <2>1, GoesOnResult DEF tables, OnlyMoves
  <1>2. /\ Quantity(c, f) > 0 /\ f \notin todo[c] /\ f \notin inserted[c] /\ ~drafts[c][f].exists
        /\ \A g \in todo[c] : f < g /\ Quantity(c, g) > 0
        /\ \A g \in inserted[c] : g < f
        /\ \A g \in Features : drafts[c][g].exists => g \in inserted[c]
    BY FeaturesAreNumbers DEF InductiveInvariant, LoopIsSorted, WritesAreOpen, AtFeature, Done, TypeOK
  <1>3. inserted[c] \subseteq Features /\ \A g \in inserted[c] : g # feature[c] /\ g # feature'[c] /\ g \notin todo[c]
    BY <1>1, <1>2, FeaturesAreNumbers DEF InductiveInvariant, TypeOK
  <1>4. stage'[c] = "event" => \A g \in inserted[c] : g < feature'[c]
    BY <1>1, <1>2, <1>3, FeaturesAreNumbers
  <1>5. LoopIsSorted'
    BY <1>1, <1>2, <1>3, <1>4, FeaturesAreNumbers
    DEF OnlyMoves, InductiveInvariant, LoopIsSorted, AtFeature, InTransaction, Quantity
  <1>6. WritesAreOpen'
    BY <1>1, <1>2, <1>3, <1>4, FeaturesAreNumbers
    DEF OnlyMoves, InductiveInvariant, WritesAreOpen, AtFeature, InTransaction, Quantity, Done
  <1>7. LocksAreExclusive'
    BY <1>1, <1>2, <1>3, <1>4, FeaturesAreNumbers
    DEF OnlyMoves, InductiveInvariant, LocksAreExclusive, Key, Day
  <1>8. DraftsAreExact'
    BY <1>1, <1>2, <1>3, <1>4, FeaturesAreNumbers
    DEF OnlyMoves, InductiveInvariant, DraftsAreExact, Day, Quantity
  <1>9. SumsAreFresh'
    BY <1>1, <1>2, <1>3, <1>4, FeaturesAreNumbers
    DEF OnlyMoves, InductiveInvariant, SumsAreFresh, Day
  <1>10. EventsAreThere'
    BY <1>1, <1>2, <1>3, <1>4, FeaturesAreNumbers
    DEF OnlyMoves, InductiveInvariant, EventsAreThere, Key, Quantity, HasEvent, InTransaction, AtFeature, Done
  <1>11. CountersAreExact'
    BY <1>1, <1>2, <1>3, <1>4, FeaturesAreNumbers
    DEF OnlyMoves, InductiveInvariant, CountersAreExact
  <1>12. JobsArePaid'
    BY <1>1, <1>2, <1>3, <1>4, FeaturesAreNumbers
    DEF OnlyMoves, InductiveInvariant, JobsArePaid
  <1>. QED BY <1>5, <1>6, <1>7, <1>8, <1>9, <1>10, <1>11, <1>12 DEF Parts

LEMMA EventStep ==
    ASSUME InductiveInvariant, NEW c \in Calls, InsertEvent(c)
    PROVE  Parts'
  <1>1. feature[c] \in Features
    BY DEF InductiveInvariant, InsertEvent, LoopIsSorted, AtFeature
  <1>. QED BY <1>1, EventInserted, EventReplayed, RollsBackStep DEF InsertEvent

LEMMA SumStep ==
    ASSUME InductiveInvariant, NEW c \in Calls, ReadSum(c)
    PROVE  Parts'
  <1>1. /\ OnlyMoves(c) /\ stage[c] = "sum" /\ stage'[c] = "counter"
        /\ sum'[c] = used[feature[c]][Day(c)]
        /\ UNCHANGED <<events, used, counters, jobs, request, feature, todo, inserted, drafts>>
    BY DEF ReadSum, tables, InductiveInvariant, TypeOK, OnlyMoves
  <1>2. LoopIsSorted'
    BY <1>1
    DEF OnlyMoves, InductiveInvariant, LoopIsSorted, AtFeature, InTransaction, Quantity
  <1>3. WritesAreOpen'
    BY <1>1
    DEF OnlyMoves, InductiveInvariant, WritesAreOpen, AtFeature, InTransaction, Quantity, Done
  <1>4. LocksAreExclusive'
    BY <1>1
    DEF OnlyMoves, InductiveInvariant, LocksAreExclusive, Key, Day
  <1>5. DraftsAreExact'
    BY <1>1
    DEF OnlyMoves, InductiveInvariant, DraftsAreExact, Day, Quantity
  <1>6. SumsAreFresh'
    BY <1>1
    DEF OnlyMoves, InductiveInvariant, SumsAreFresh, Day
  <1>7. EventsAreThere'
    BY <1>1
    DEF OnlyMoves, InductiveInvariant, EventsAreThere, Key, Quantity, HasEvent, InTransaction, AtFeature, Done
  <1>8. CountersAreExact'
    BY <1>1
    DEF OnlyMoves, InductiveInvariant, CountersAreExact
  <1>9. JobsArePaid'
    BY <1>1
    DEF OnlyMoves, InductiveInvariant, JobsArePaid
  <1>. QED BY <1>2, <1>3, <1>4, <1>5, <1>6, <1>7, <1>8, <1>9 DEF Parts

LEMMA CounterStep ==
    ASSUME InductiveInvariant, NEW c \in Calls, InsertCounter(c)
    PROVE  Parts'
  <1>. DEFINE f == feature[c]
  <1>1. /\ OnlyMoves(c) /\ stage[c] = "counter" /\ stage'[c] = "update"
        /\ UNCHANGED <<events, used, counters, jobs, request, feature, todo, sum, inserted>>
    BY DEF InsertCounter, tables, InductiveInvariant, TypeOK, OnlyMoves
  <1>2. /\ f \in Features /\ f \in inserted[c] /\ ~drafts[c][f].exists /\ ~CounterIsHeld(c, f)
    BY DEF InsertCounter, InductiveInvariant, LoopIsSorted, WritesAreOpen, AtFeature
  <1>3. /\ \A g \in Features \ {f} : drafts'[c][g] = drafts[c][g]
        /\ \/ counters[f][Day(c)].exists /\ drafts'[c][f] = drafts[c][f]
           \/ /\ ~counters[f][Day(c)].exists
              /\ drafts'[c][f].exists /\ drafts'[c][f].quantity = sum[c]
    BY <1>2 DEF InsertCounter, InductiveInvariant, TypeOK, Counter
  <1>4. ~counters[f][Day(c)].exists => sum[c] = used[f][Day(c)]
    BY <1>1 DEF InductiveInvariant, SumsAreFresh
  <1>5. used[f][Day(c)] \in Nat
    BY <1>2 DEF InductiveInvariant, TypeOK, Day, Requests
  <1>6. LoopIsSorted'
    BY <1>1, <1>2, <1>3, <1>4, <1>5
    DEF OnlyMoves, InductiveInvariant, LoopIsSorted, AtFeature, InTransaction, Quantity
  <1>7. WritesAreOpen'
    BY <1>1, <1>2, <1>3, <1>4, <1>5
    DEF OnlyMoves, InductiveInvariant, WritesAreOpen, AtFeature, InTransaction, Quantity, Done
  <1>8. LocksAreExclusive'
    BY <1>1, <1>2, <1>3, <1>4, <1>5
    DEF OnlyMoves, InductiveInvariant, LocksAreExclusive, Key, Day, CounterIsHeld
  <1>9. DraftsAreExact'
    BY <1>1, <1>2, <1>3, <1>4, <1>5
    DEF OnlyMoves, InductiveInvariant, DraftsAreExact, Day, Quantity
  <1>10. SumsAreFresh'
    BY <1>1, <1>2, <1>3, <1>4, <1>5
    DEF OnlyMoves, InductiveInvariant, SumsAreFresh, Day
  <1>11. EventsAreThere'
    BY <1>1, <1>2, <1>3, <1>4, <1>5
    DEF OnlyMoves, InductiveInvariant, EventsAreThere, Key, Quantity, HasEvent, InTransaction, AtFeature, Done
  <1>12. CountersAreExact'
    BY <1>1, <1>2, <1>3, <1>4, <1>5
    DEF OnlyMoves, InductiveInvariant, CountersAreExact
  <1>13. JobsArePaid'
    BY <1>1, <1>2, <1>3, <1>4, <1>5
    DEF OnlyMoves, InductiveInvariant, JobsArePaid
  <1>. QED BY <1>6, <1>7, <1>8, <1>9, <1>10, <1>11, <1>12, <1>13 DEF Parts

LEMMA Charged ==
    ASSUME InductiveInvariant, NEW c \in Calls, NEW f \in Features, f = feature[c],
           stage[c] = "update", ~CounterIsHeld(c, f),
           drafts' = [drafts EXCEPT ![c] =
                         [@ EXCEPT ![f] = Counter(Seen(c, f).quantity + Quantity(c, f))]],
           GoesOn(c, todo[c]), UNCHANGED <<tables, request, sum, inserted>>
    PROVE  Parts'
  <1>1. /\ \/ todo[c] = {} /\ stage'[c] = "commit" /\ todo'[c] = {} /\ feature'[c] = 0
           \/ /\ stage'[c] = "event" /\ feature'[c] \in todo[c]
              /\ todo'[c] = todo[c] \ {feature'[c]}
              /\ \A g \in todo'[c] : feature'[c] < g
        /\ OnlyMoves(c) /\ todo[c] \in SUBSET Features
        /\ UNCHANGED <<events, used, counters, jobs, request, sum, inserted>>
    <2>1. TypeOK /\ todo[c] \in SUBSET Features
      BY DEF InductiveInvariant, TypeOK
    <2>2. \A d \in Calls \ {c} : drafts'[d] = drafts[d]
      BY DEF InductiveInvariant, TypeOK
    <2>. QED BY <2>1, <2>2, GoesOnResult DEF tables, OnlyMoves
  <1>2. /\ Quantity(c, f) > 0 /\ f \notin todo[c] /\ f \in inserted[c]
        /\ \A g \in todo[c] : f < g /\ Quantity(c, g) > 0
        /\ \A g \in inserted[c] : g <= f
        /\ \A g \in Features : drafts[c][g].exists => g \in inserted[c]
    <2>1. /\ Quantity(c, f) > 0
          /\ \A g \in todo[c] : f < g /\ Quantity(c, g) > 0
      BY DEF InductiveInvariant, LoopIsSorted, AtFeature
    <2>2. f \notin todo[c]
      BY <2>1, FeaturesAreNumbers
    <2>3. /\ f \in inserted[c]
          /\ \A g \in Features : drafts[c][g].exists => g \in inserted[c]
      BY DEF InductiveInvariant, WritesAreOpen
    <2>4. \A g \in Features : g \in inserted[c] => g < f \/ g = f
      BY DEF InductiveInvariant, WritesAreOpen
    <2>5. inserted[c] \subseteq Features
      BY DEF InductiveInvariant, TypeOK
    <2>. QED BY <2>1, <2>2, <2>3, <2>4, <2>5, FeaturesAreNumbers
  <1>3. /\ inserted[c] \subseteq Features /\ \A g \in inserted[c] : g # feature'[c] /\ g \notin todo[c]
        /\ stage'[c] = "event" => \A g \in inserted[c] : g < feature'[c]
        /\ f # feature'[c]
    <2>1. inserted[c] \subseteq Features
      BY DEF InductiveInvariant, TypeOK
    <2>2. \A g \in inserted[c], h \in todo[c] : g < h
      BY <1>1, <1>2, <2>1, FeaturesAreNumbers
    <2>3. \A g \in inserted[c] : g \notin todo[c]
      BY <1>1, <2>1, <2>2, FeaturesAreNumbers
    <2>. QED BY <1>1, <1>2, <2>1, <2>2, <2>3, FeaturesAreNumbers
  <1>4. Seen(c, f).quantity = used[f][Day(c)]
    <2>1. Day(c) \in Days /\ used[f][Day(c)] \in Nat
      BY DEF InductiveInvariant, TypeOK, Day, Requests
    <2>2. CASE drafts[c][f].exists
      BY <2>1, <2>2 DEF Seen, InductiveInvariant, DraftsAreExact
    <2>3. CASE ~drafts[c][f].exists
      BY <2>1, <2>3 DEF Seen, InductiveInvariant, SumsAreFresh, CountersAreExact
    <2>. QED BY <2>2, <2>3
  <1>5. /\ \A g \in Features \ {f} : drafts'[c][g] = drafts[c][g]
        /\ drafts'[c][f].exists
        /\ drafts'[c][f].quantity = used[f][Day(c)] + Quantity(c, f)
    BY <1>4 DEF InductiveInvariant, TypeOK, Counter
  <1>6. LoopIsSorted'
    BY <1>1, <1>2, <1>3, <1>5, FeaturesAreNumbers
    DEF OnlyMoves, InductiveInvariant, LoopIsSorted, AtFeature, InTransaction, Quantity
  <1>7. WritesAreOpen'
    BY <1>1, <1>2, <1>3, <1>5, FeaturesAreNumbers
    DEF OnlyMoves, InductiveInvariant, WritesAreOpen, AtFeature, InTransaction, Quantity, Done
  <1>8. LocksAreExclusive'
    BY <1>1, <1>2, <1>3, <1>5, FeaturesAreNumbers
    DEF OnlyMoves, InductiveInvariant, LocksAreExclusive, Key, Day, CounterIsHeld
  <1>9. DraftsAreExact'
    BY <1>1, <1>2, <1>3, <1>5, FeaturesAreNumbers
    DEF OnlyMoves, InductiveInvariant, DraftsAreExact, Day, Quantity
  <1>10. SumsAreFresh'
    BY <1>1, <1>2, <1>3, <1>5, FeaturesAreNumbers
    DEF OnlyMoves, InductiveInvariant, SumsAreFresh, Day
  <1>11. EventsAreThere'
    BY <1>1, <1>2, <1>3, <1>5, FeaturesAreNumbers
    DEF OnlyMoves, InductiveInvariant, EventsAreThere, Key, Quantity, HasEvent, InTransaction, AtFeature, Done
  <1>12. CountersAreExact'
    BY <1>1, <1>2, <1>3, <1>5, FeaturesAreNumbers
    DEF OnlyMoves, InductiveInvariant, CountersAreExact
  <1>13. JobsArePaid'
    BY <1>1, <1>2, <1>3, <1>5, FeaturesAreNumbers
    DEF OnlyMoves, InductiveInvariant, JobsArePaid
  <1>. QED BY <1>6, <1>7, <1>8, <1>9, <1>10, <1>11, <1>12, <1>13 DEF Parts

LEMMA UpdateStep ==
    ASSUME InductiveInvariant, NEW c \in Calls, UpdateCounter(c)
    PROVE  Parts'
  <1>1. feature[c] \in Features
    BY DEF InductiveInvariant, UpdateCounter, LoopIsSorted, AtFeature
  <1>. QED BY <1>1, Charged, RollsBackStep DEF UpdateCounter
LEMMA CommitStep ==
    ASSUME InductiveInvariant, NEW c \in Calls, Commit(c)
    PROVE  Parts'
  <1>1. /\ OnlyMoves(c) /\ stage[c] = "commit" /\ stage'[c] = "create"
        /\ request'[c] = request[c] /\ jobs' = jobs
        /\ inserted'[c] = {} /\ \A f \in Features : ~drafts'[c][f].exists
    BY DEF Commit, Ends, tables, InductiveInvariant, TypeOK, NoCounter, OnlyMoves
  <1>2. /\ todo[c] = {} /\ feature[c] = 0 /\ ~request[c].admin
        /\ \A f \in Features : f \in inserted[c] <=> drafts[c][f].exists
        /\ \A f \in Features : f \in inserted[c] =>
               drafts[c][f].quantity = used[f][Day(c)] + Quantity(c, f)
    BY <1>1, FeaturesAreNumbers
    DEF InductiveInvariant, LoopIsSorted, WritesAreOpen, DraftsAreExact, InTransaction
  <1>3. Key(c) \in Keys /\ Day(c) \in Days /\ Day(c) # 0
    BY NumbersAssumption DEF InductiveInvariant, TypeOK, Key, Day, Requests, Days
  <1>4. \A f \in Features, k \in Keys :
            \/ events'[f][k] = events[f][k] /\ ~(f \in inserted[c] /\ k = Key(c))
            \/ /\ f \in inserted[c] /\ k = Key(c) /\ events[f][k] = NoEvent
               /\ HasEvent(f, k, Quantity(c, f))'
    <2>. SUFFICES ASSUME NEW f \in Features, NEW k \in Keys
                  PROVE  \/ events'[f][k] = events[f][k] /\ ~(f \in inserted[c] /\ k = Key(c))
                         \/ /\ f \in inserted[c] /\ k = Key(c) /\ events[f][k] = NoEvent
                            /\ events'[f][k] # NoEvent
                            /\ events'[f][k].quantity = Quantity(c, f)
      BY <1>1 DEF HasEvent, Quantity
    <2>. QED BY <1>3 DEF Commit, Committed, InductiveInvariant, TypeOK, EventsAreThere, NoEvent
  <1>5. \A f \in Features, d \in Days :
            /\ f \in inserted[c] /\ d = Day(c) =>
                   /\ used'[f][d] = used[f][d] + Quantity(c, f)
                   /\ counters'[f][d] = drafts[c][f]
            /\ ~(f \in inserted[c] /\ d = Day(c)) =>
                   used'[f][d] = used[f][d] /\ counters'[f][d] = counters[f][d]
    BY <1>2, <1>3 DEF Commit, Committed, InductiveInvariant, TypeOK
  <1>6. \A d \in Calls : Key(d) \in Keys /\ Day(d) \in Days
    BY DEF InductiveInvariant, TypeOK, Key, Day, Requests
  <1>7. \A f \in Features, d \in Calls \ {c} :
            drafts[d][f].exists /\ Day(d) = Day(c) => f \notin inserted[c]
    BY <1>2 DEF InductiveInvariant, LocksAreExclusive
  <1>8. LoopIsSorted'
    BY <1>1, <1>2
    DEF OnlyMoves, InductiveInvariant, LoopIsSorted, AtFeature, InTransaction, Quantity
  <1>9. WritesAreOpen'
    BY <1>1, <1>2
    DEF OnlyMoves, InductiveInvariant, WritesAreOpen, AtFeature, InTransaction, Quantity, Done
  <1>10. LocksAreExclusive'
    BY <1>1, <1>2
    DEF OnlyMoves, InductiveInvariant, LocksAreExclusive, Key, Day
  <1>11. DraftsAreExact'
    BY <1>1, <1>2, <1>5, <1>6, <1>7
    DEF OnlyMoves, InductiveInvariant, DraftsAreExact, Day, Quantity
  <1>12. SumsAreFresh'
    <2>. SUFFICES ASSUME NEW d \in Calls
                  PROVE  LET f == feature'[d]
                         IN  /\ stage'[d] = "counter" /\ ~counters'[f][Day(d)'].exists =>
                                    sum'[d] = used'[f][Day(d)']
                             /\ stage'[d] = "update" =>
                                    drafts'[d][f].exists \/ counters'[f][Day(d)'].exists
      BY DEF SumsAreFresh
    <2>1. CASE d = c
      BY <1>1, <2>1
    <2>2. CASE d # c /\ AtFeature(d)
      <3>1. feature[d] \in Features
        BY <2>2 DEF InductiveInvariant, LoopIsSorted
      <3>. QED BY <1>1, <1>2, <1>5, <1>6, <2>2, <3>1
               DEF OnlyMoves, InductiveInvariant, SumsAreFresh, Day, AtFeature
    <2>3. CASE d # c /\ ~AtFeature(d)
      BY <1>1, <2>3 DEF OnlyMoves, AtFeature
    <2>. QED BY <2>1, <2>2, <2>3
  <1>13. EventsAreThere'
    <2>. SUFFICES ASSUME NEW d \in Calls, NEW f \in Features
                  PROVE  /\ f \in inserted'[d] => events'[f][Key(d)'] = NoEvent
                         /\ (InTransaction(d) /\ Done(d, f))' /\ f \notin inserted'[d] =>
                                HasEvent(f, Key(d), Quantity(d, f))'
                         /\ stage'[d] = "create" /\ ~request'[d].admin /\ Quantity(d, f)' > 0 =>
                                HasEvent(f, Key(d), Quantity(d, f))'
      BY DEF EventsAreThere
    <2>1. Key(d)' = Key(d) /\ Quantity(d, f)' = Quantity(d, f) /\ Key(d) \in Keys
      BY <1>1, <1>6 DEF OnlyMoves, Key, Quantity
    <2>2. ASSUME HasEvent(f, Key(d), Quantity(d, f))
          PROVE  HasEvent(f, Key(d), Quantity(d, f))'
      BY <1>4, <2>1, <2>2 DEF HasEvent
    <2>3. CASE d = c
      <3>1. CASE f \in inserted[c]
        BY <1>1, <1>4, <2>1, <2>3, <3>1 DEF InTransaction, AtFeature
      <3>2. CASE f \notin inserted[c]
        <4>1. Quantity(c, f) > 0 => Done(c, f) /\ InTransaction(c)
          BY <1>1, <1>2, FeaturesAreNumbers DEF Done, InTransaction
        <4>2. Quantity(c, f) > 0 => HasEvent(f, Key(c), Quantity(c, f))
          BY <3>2, <4>1 DEF InductiveInvariant, EventsAreThere
        <4>. QED BY <1>1, <2>1, <2>2, <2>3, <4>2 DEF InTransaction, AtFeature
      <3>. QED BY <3>1, <3>2
    <2>4. CASE d # c
      <3>1. /\ inserted'[d] = inserted[d] /\ stage'[d] = stage[d] /\ request'[d] = request[d]
            /\ InTransaction(d)' = InTransaction(d) /\ Done(d, f)' = Done(d, f)
        BY <1>1, <2>4 DEF OnlyMoves, InTransaction, AtFeature, Done, Quantity
      <3>2. ASSUME f \in inserted[d]
            PROVE  events'[f][Key(d)] = NoEvent
        <4>1. events[f][Key(d)] = NoEvent /\ ~(f \in inserted[c] /\ Key(d) = Key(c))
          BY <2>4, <3>2 DEF InductiveInvariant, EventsAreThere, LocksAreExclusive
        <4>. QED BY <1>4, <2>1, <4>1
      <3>3. /\ InTransaction(d) /\ Done(d, f) /\ f \notin inserted[d] =>
                   HasEvent(f, Key(d), Quantity(d, f))
            /\ stage[d] = "create" /\ ~request[d].admin /\ Quantity(d, f) > 0 =>
                   HasEvent(f, Key(d), Quantity(d, f))
        BY DEF InductiveInvariant, EventsAreThere
      <3>. QED BY <2>1, <2>2, <3>1, <3>2, <3>3
    <2>. QED BY <2>3, <2>4
  <1>14. CountersAreExact'
    BY <1>1, <1>2, <1>5
    DEF OnlyMoves, InductiveInvariant, CountersAreExact
  <1>15. JobsArePaid'
    BY <1>1, <1>2, <1>4
    DEF OnlyMoves, InductiveInvariant, JobsArePaid, HasEvent
  <1>. QED BY <1>8, <1>9, <1>10, <1>11, <1>12, <1>13, <1>14, <1>15 DEF Parts

LEMMA JobStep ==
    ASSUME InductiveInvariant, NEW c \in Calls, CreateJob(c)
    PROVE  Parts'
  <1>1. /\ OnlyMoves(c) /\ stage'[c] = "idle"
        /\ inserted'[c] = {} /\ \A f \in Features : ~drafts'[c][f].exists
        /\ UNCHANGED <<events, used, counters>>
    BY DEF CreateJob, Ends, tables, InductiveInvariant, TypeOK, NoCounter, OnlyMoves
  <1>2. \A k \in Keys : jobs'[k] = jobs[k] \/
            /\ k = Key(c) /\ jobs'[k].payload = request[c].payload
            /\ jobs'[k].admin = request[c].admin
    BY DEF CreateJob, Created, InductiveInvariant, TypeOK
  <1>3. ~request[c].admin => \A f \in Features : Quantity(c, f) > 0 =>
            HasEvent(f, Key(c), Quantity(c, f))
    BY DEF CreateJob, InductiveInvariant, EventsAreThere
  <1>4. LoopIsSorted'
    BY <1>1
    DEF OnlyMoves, InductiveInvariant, LoopIsSorted, AtFeature, InTransaction, Quantity
  <1>5. WritesAreOpen'
    BY <1>1
    DEF OnlyMoves, InductiveInvariant, WritesAreOpen, AtFeature, InTransaction, Quantity, Done
  <1>6. LocksAreExclusive'
    BY <1>1
    DEF OnlyMoves, InductiveInvariant, LocksAreExclusive, Key, Day
  <1>7. DraftsAreExact'
    BY <1>1
    DEF OnlyMoves, InductiveInvariant, DraftsAreExact, Day, Quantity
  <1>8. SumsAreFresh'
    BY <1>1
    DEF OnlyMoves, InductiveInvariant, SumsAreFresh, Day
  <1>9. EventsAreThere'
    BY <1>1
    DEF OnlyMoves, InductiveInvariant, EventsAreThere, Key, Quantity, HasEvent, InTransaction, AtFeature, Done
  <1>10. CountersAreExact'
    BY <1>1
    DEF OnlyMoves, InductiveInvariant, CountersAreExact
  <1>11. JobsArePaid'
    BY <1>1, <1>2, <1>3
    DEF OnlyMoves, InductiveInvariant, JobsArePaid, HasEvent, Quantity
  <1>. QED BY <1>4, <1>5, <1>6, <1>7, <1>8, <1>9, <1>10, <1>11 DEF Parts

\* The clock and the quotas are no part of what the calls have written.
LEMMA IdleStep ==
    ASSUME InductiveInvariant,
           UNCHANGED <<events, used, counters, jobs, stage, request,
                       feature, todo, sum, inserted, drafts>>
    PROVE  Parts'
  <1>1. LoopIsSorted' /\ WritesAreOpen' /\ LocksAreExclusive' /\ DraftsAreExact'
    BY DEF InductiveInvariant, LoopIsSorted, WritesAreOpen, LocksAreExclusive,
           DraftsAreExact, AtFeature, InTransaction, Quantity, Done, Key, Day
  <1>2. SumsAreFresh' /\ EventsAreThere' /\ CountersAreExact' /\ JobsArePaid'
    BY DEF InductiveInvariant, SumsAreFresh, EventsAreThere, CountersAreExact,
           JobsArePaid, AtFeature, InTransaction, Quantity, Done, Key, Day, HasEvent
  <1>. QED BY <1>1, <1>2 DEF Parts

-----------------------------------------------------------------------------
\* UsageQuotas.InductiveInvariant is an invariant of the quotas.
THEOREM Invariance == Spec => []InductiveInvariant
  <1>1. Init => InductiveInvariant
    <2>. SUFFICES ASSUME Init PROVE InductiveInvariant
      OBVIOUS
    <2>1. TypeOK
      <3>1. /\ 0 \in 0 .. NumFeatures /\ 1 \in Days /\ 0 \in 0 .. NumDays
        BY NumbersAssumption DEF Days
      <3>2. quotas \in [Features -> Nat]
        BY LimitsAssumption DEF Init
      <3>3. used \in [Features -> [Days -> Nat]]
        BY LegacyAssumption DEF Init
      <3>. QED BY <3>1, <3>2, <3>3, SomeRequestType
               DEF Init, TypeOK, EventRows, CounterRows, NoEvent, NoCounter, Jobs, Stages
    <2>2. \A c \in Calls : /\ stage[c] = "idle" /\ inserted[c] = {}
                           /\ \A f \in Features : ~drafts[c][f].exists
      BY DEF Init, NoCounter
    <2>3. LoopIsSorted /\ WritesAreOpen /\ LocksAreExclusive /\ DraftsAreExact
      BY <2>2 DEF LoopIsSorted, WritesAreOpen, LocksAreExclusive, DraftsAreExact,
                  AtFeature, InTransaction
    <2>4. SumsAreFresh /\ EventsAreThere
      BY <2>2 DEF SumsAreFresh, EventsAreThere, AtFeature, InTransaction
    <2>5. CountersAreExact /\ JobsArePaid
      BY DEF Init, CountersAreExact, JobsArePaid, NoCounter
    <2>. QED BY <2>1, <2>3, <2>4, <2>5 DEF InductiveInvariant
  <1>2. InductiveInvariant /\ [Next]_vars => InductiveInvariant'
    <2>. SUFFICES ASSUME InductiveInvariant, [Next]_vars PROVE InductiveInvariant'
      OBVIOUS
    <2>1. TypeOK'
      BY TypeCorrectStep DEF InductiveInvariant
    <2>2. ASSUME NEW c \in Calls, NEW k \in Keys, NEW p \in Payloads, NEW admin \in BOOLEAN,
                 Submit(c, k, p, admin)
          PROVE  Parts'
      <3>1. /\ OnlyMoves(c) /\ stage[c] = "idle" /\ stage'[c] = "quotas"
            /\ UNCHANGED <<events, used, counters, jobs, feature, todo, sum, inserted, drafts>>
        BY <2>2 DEF Submit, tables, progress, OnlyMoves, InductiveInvariant, TypeOK
      <3>. QED BY <3>1, OutsideStep
    <2>3. ASSUME NEW c \in Calls, ReadQuotas(c)
          PROVE  Parts'
      <3>1. /\ OnlyMoves(c) /\ stage[c] = "quotas"
            /\ stage'[c] = IF request[c].admin THEN "create" ELSE "begin"
            /\ request'[c].admin = request[c].admin
            /\ UNCHANGED <<events, used, counters, jobs, feature, todo, sum, inserted, drafts>>
        BY <2>3 DEF ReadQuotas, tables, progress, OnlyMoves, InductiveInvariant, TypeOK, Request
      <3>. QED BY <3>1, OutsideStep
    <2>4. ASSUME Midnight \/ (\E limits \in Limits : SetQuotas(limits)) \/ UNCHANGED vars
          PROVE  Parts'
      <3>1. UNCHANGED <<events, used, counters, jobs, stage, request,
                        feature, todo, sum, inserted, drafts>>
        <4>1. CASE Midnight
          BY <4>1 DEF Midnight, tables, progress
        <4>2. ASSUME NEW limits \in Limits, SetQuotas(limits)
              PROVE  UNCHANGED <<events, used, counters, jobs, stage, request,
                                 feature, todo, sum, inserted, drafts>>
          BY <4>2 DEF SetQuotas, progress
        <4>3. CASE UNCHANGED vars
          BY <4>3 DEF vars, tables, progress
        <4>. QED BY <2>4, <4>1, <4>2, <4>3
      <3>. QED BY <3>1, IdleStep
    <2>5. ASSUME NEW c \in Calls, Step(c) \/ Crash(c)
          PROVE  Parts'
      BY <2>3, <2>5, BeginStep, EventStep, SumStep, CounterStep, UpdateStep, CommitStep,
         JobStep, RollsBackStep DEF Step, Reserve, Crash
    <2>6. Parts'
      BY <2>2, <2>4, <2>5 DEF Next
    <2>. QED BY <2>1, <2>6 DEF Parts, InductiveInvariant
  <1>. QED BY <1>1, <1>2, PTL DEF Spec

\* CountersAreExact: a counter is the sum of the committed reservations.
THEOREM ExactCounters == Spec => []CountersAreExact
  BY Invariance, PTL DEF InductiveInvariant

\* JobsArePaid: no job without the reservations of its request.
THEOREM PaidJobs == Spec => []JobsArePaid
  BY Invariance, PTL DEF InductiveInvariant

LEMMA WaitsForward ==
    ASSUME InductiveInvariant
    PROVE  WaitsAreInOrder
  <1>. SUFFICES ASSUME NEW c \in Calls, NEW d \in Calls, WaitsFor(c, d)
                PROVE  Position(c) < Position(d)
    BY DEF WaitsAreInOrder
  <1>1. AtFeature(c) /\ feature[c] \in Features /\ feature[c] \in inserted[d]
    BY DEF WaitsFor, InductiveInvariant, LoopIsSorted, WritesAreOpen, AtFeature
  <1>2. /\ feature[c] \in Nat /\ NumFeatures \in Nat /\ feature[d] \in Nat
        /\ feature[c] <= NumFeatures
    BY <1>1, NumbersAssumption DEF Features, InductiveInvariant, TypeOK
  <1>3. CASE stage[c] = "event"
    <2>1. Position(c) = 3 * feature[c]
      BY <1>3 DEF Position
    <2>2. CASE AtFeature(d)
      <3>1. \/ feature[c] < feature[d]
            \/ feature[c] = feature[d] /\ stage[d] \in {"sum", "counter", "update"}
        BY <1>1, <2>2 DEF InductiveInvariant, WritesAreOpen, AtFeature
      <3>2. Position(d) \in {3 * feature[d], 3 * feature[d] + 1, 3 * feature[d] + 2}
        BY <2>2, <1>2 DEF AtFeature, Position
      <3>3. stage[d] \in {"sum", "counter", "update"} =>
                Position(d) \in {3 * feature[d] + 1, 3 * feature[d] + 2}
        BY <1>2 DEF Position
      <3>. QED BY <1>2, <2>1, <3>1, <3>2, <3>3
    <2>3. CASE stage[d] = "commit"
      BY <1>2, <2>1, <2>3 DEF Position
    <2>. QED BY <1>1, <2>2, <2>3 DEF InductiveInvariant, WritesAreOpen, InTransaction
  <1>4. CASE stage[c] \in {"counter", "update"}
    <2>1. /\ c # d /\ Day(c) = Day(d) /\ drafts[d][feature[c]].exists
          /\ ~drafts[c][feature[c]].exists
      BY <1>1, <1>4 DEF WaitsFor, InductiveInvariant, LocksAreExclusive
    <2>2. Position(c) = 3 * feature[c] + 1
      BY <1>2, <1>4, <2>1 DEF Position
    <2>3. CASE AtFeature(d)
      <3>1. \/ feature[c] < feature[d]
            \/ feature[c] = feature[d] /\ stage[d] = "update" /\ drafts[d][feature[d]].exists
        BY <1>1, <2>1, <2>3 DEF InductiveInvariant, WritesAreOpen, AtFeature
      <3>2. Position(d) \in {3 * feature[d], 3 * feature[d] + 1, 3 * feature[d] + 2}
        BY <2>3, <1>2 DEF AtFeature, Position
      <3>3. stage[d] = "update" /\ drafts[d][feature[d]].exists =>
                Position(d) = 3 * feature[d] + 2
        BY <1>2 DEF Position
      <3>. QED BY <1>2, <2>2, <3>1, <3>2, <3>3
    <2>4. CASE stage[d] = "commit"
      BY <1>2, <2>2, <2>4 DEF Position
    <2>. QED BY <1>1, <2>3, <2>4 DEF InductiveInvariant, WritesAreOpen, InTransaction
  <1>. QED BY <1>3, <1>4 DEF WaitsFor

\* WaitsAreInOrder: transactions never wait for each other in a circle.
THEOREM OrderedWaits == Spec => []WaitsAreInOrder
  BY Invariance, WaitsForward, PTL

-----------------------------------------------------------------------------
\* What a transaction has charged is within the limits it has read.
WithinLimits ==
    \A c \in Calls, f \in Features :
        f \in inserted[c] /\ f # feature[c] => drafts[c][f].quantity <= request[c].limits[f]

LEMMA EndsMoves ==
    ASSUME TypeOK, NEW c \in Calls, NEW at, Ends(c, at)
    PROVE  OnlyMoves(c) /\ inserted'[c] = {}
  BY DEF Ends, TypeOK, OnlyMoves

LEMMA WithinLimitsStep ==
    ASSUME InductiveInvariant, WithinLimits, [Next]_vars
    PROVE  WithinLimits'
  <1>. TypeOK
    BY DEF InductiveInvariant
  <1>1. ASSUME NEW c \in Calls, OnlyMoves(c), inserted'[c] = {}
        PROVE  WithinLimits'
    BY <1>1 DEF OnlyMoves, WithinLimits
  <1>2. ASSUME NEW c \in Calls, UNCHANGED <<inserted, drafts, request, feature>>
        PROVE  WithinLimits'
    BY <1>2 DEF WithinLimits
  <1>3. ASSUME NEW c \in Calls, stage[c] \in {"idle", "quotas", "begin"}
        PROVE  inserted[c] = {}
    BY <1>3 DEF InductiveInvariant, WritesAreOpen, InTransaction, AtFeature, TypeOK
  <1>4. ASSUME NEW c \in Calls, Step(c) \/ Crash(c)
        PROVE  WithinLimits'
    <2>1. CASE ReadQuotas(c)
      <3>1. OnlyMoves(c) /\ inserted'[c] = {}
        BY <1>3, <2>1 DEF ReadQuotas, progress, OnlyMoves, TypeOK
      <3>. QED BY <1>1, <3>1
    <2>2. CASE Begin(c)
      <3>. DEFINE R == {f \in Features : Quantity(c, f) > 0}
      <3>1. R \in SUBSET Features /\ GoesOn(c, R)
        BY <2>2 DEF Begin
      <3>. HIDE DEF R
      <3>2. \A d \in Calls \ {c} :
                stage'[d] = stage[d] /\ feature'[d] = feature[d] /\ todo'[d] = todo[d]
        BY <3>1, GoesOnResult
      <3>3. \A d \in Calls \ {c} : request'[d] = request[d]
        BY <2>2 DEF Begin, TypeOK
      <3>4. OnlyMoves(c) /\ inserted'[c] = {}
        BY <1>3, <2>2, <3>2, <3>3 DEF Begin, OnlyMoves
      <3>. QED BY <1>1, <3>4
    <2>3. CASE ReadSum(c)
      BY <1>2, <2>3 DEF ReadSum
    <2>4. ASSUME RollsBack(c) \/ Commit(c) \/ CreateJob(c)
          PROVE  WithinLimits'
      BY <1>1, <2>4, EndsMoves DEF RollsBack, Commit, CreateJob
    <2>5. CASE InsertEvent(c) /\ ~RollsBack(c)
      <3>. DEFINE f == feature[c]
      <3>1. f \in Features /\ f \notin inserted[c]
        BY <2>5 DEF InsertEvent, InductiveInvariant, LoopIsSorted, WritesAreOpen, AtFeature, Done
      <3>2. CASE /\ inserted' = [inserted EXCEPT ![c] = @ \cup {f}]
                 /\ UNCHANGED <<tables, request, feature, todo, sum, drafts>>
        BY <3>1, <3>2 DEF WithinLimits, TypeOK
      <3>3. CASE GoesOn(c, todo[c]) /\ UNCHANGED <<tables, request, sum, inserted, drafts>>
        <4>1. todo[c] \in SUBSET Features
          BY DEF TypeOK
        <4>2. \A d \in Calls \ {c} : feature'[d] = feature[d]
          BY <3>3, <4>1, GoesOnResult
        <4>. QED BY <3>1, <3>3, <4>2 DEF WithinLimits
      <3>. QED BY <2>5, <3>2, <3>3 DEF InsertEvent
    <2>6. CASE InsertCounter(c)
      <3>1. \A d \in Calls, f \in Features :
                d # c \/ f # feature[c] => drafts'[d][f] = drafts[d][f]
        BY <2>6 DEF InsertCounter, TypeOK
      <3>. QED BY <2>6, <3>1 DEF InsertCounter, WithinLimits
    <2>7. CASE UpdateCounter(c) /\ ~RollsBack(c)
      <3>. DEFINE f == feature[c]
      <3>1. /\ Fits(c, f) /\ GoesOn(c, todo[c]) /\ UNCHANGED <<tables, request, sum, inserted>>
            /\ drafts' = [drafts EXCEPT ![c] =
                             [@ EXCEPT ![f] = Counter(Seen(c, f).quantity + Quantity(c, f))]]
            /\ todo[c] \in SUBSET Features /\ f \in Features
        BY <2>7 DEF UpdateCounter, InductiveInvariant, LoopIsSorted, AtFeature, TypeOK
      <3>2. \A d \in Calls \ {c} : feature'[d] = feature[d]
        BY <3>1, GoesOnResult
      <3>3. /\ \A d \in Calls, g \in Features : d # c \/ g # f => drafts'[d][g] = drafts[d][g]
            /\ drafts'[c][f].quantity <= request[c].limits[f]
        BY <3>1 DEF TypeOK, Counter, Fits
      <3>. QED BY <3>1, <3>2, <3>3 DEF WithinLimits
    <2>. QED BY <1>4, <2>1, <2>2, <2>3, <2>4, <2>5, <2>6, <2>7 DEF Step, Reserve, Crash
  <1>5. ASSUME NEW c \in Calls, NEW k \in Keys, NEW p \in Payloads, NEW admin \in BOOLEAN,
               Submit(c, k, p, admin)
        PROVE  WithinLimits'
    <2>1. OnlyMoves(c) /\ inserted'[c] = {}
      BY <1>3, <1>5 DEF Submit, progress, OnlyMoves, TypeOK
    <2>. QED BY <1>1, <2>1
  <1>6. ASSUME Midnight \/ (\E limits \in Limits : SetQuotas(limits)) \/ UNCHANGED vars
        PROVE  WithinLimits'
    <2>1. UNCHANGED <<inserted, drafts, request, feature>>
      <3>1. CASE Midnight
        BY <3>1 DEF Midnight, progress
      <3>2. ASSUME NEW limits \in Limits, SetQuotas(limits)
            PROVE  UNCHANGED <<inserted, drafts, request, feature>>
        BY <3>2 DEF SetQuotas, progress
      <3>3. CASE UNCHANGED vars
        BY <3>3 DEF vars, progress
      <3>. QED BY <1>6, <3>1, <3>2, <3>3
    <2>. QED BY <2>1 DEF WithinLimits
  <1>. QED BY <1>4, <1>5, <1>6 DEF Next

\* Only a commit changes what is used, and within the limits of its call.
LEMMA UsedStep ==
    ASSUME InductiveInvariant, WithinLimits, [Next]_vars,
           NEW f \in Features, NEW d \in Days, used'[f][d] # used[f][d]
    PROVE  \E c \in Calls : /\ stage[c] = "commit" /\ stage'[c] # "commit"
                            /\ Day(c) = d /\ used'[f][d] <= request[c].limits[f]
  <1>1. PICK c \in Calls : Commit(c)
    <2>1. ASSUME NEW c \in Calls, Step(c) \/ Crash(c), ~Commit(c)
          PROVE  used' = used
      BY <2>1 DEF Step, Reserve, Crash, ReadQuotas, Begin, InsertEvent, ReadSum, InsertCounter,
                  UpdateCounter, CreateJob, RollsBack, tables
    <2>2. ASSUME NEW c \in Calls, NEW k \in Keys, NEW p \in Payloads, NEW admin \in BOOLEAN,
                 Submit(c, k, p, admin)
          PROVE  used' = used
      BY <2>2 DEF Submit, tables
    <2>3. ASSUME NEW limits \in Limits, SetQuotas(limits)
          PROVE  used' = used
      BY <2>3 DEF SetQuotas
    <2>4. Midnight \/ UNCHANGED vars => used' = used
      BY DEF Midnight, vars, tables
    <2>. QED BY <2>1, <2>2, <2>3, <2>4 DEF Next
  <1>2. Day(c) \in Days
    BY DEF InductiveInvariant, TypeOK, Day, Requests
  <1>3. /\ f \in inserted[c] /\ d = Day(c)
        /\ used'[f][d] = used[f][d] + Quantity(c, f)
    BY <1>1, <1>2 DEF Commit, Committed, InductiveInvariant, TypeOK
  <1>4. feature[c] = 0 /\ f # 0 /\ drafts[c][f].exists
    BY <1>1, <1>3, FeaturesAreNumbers
    DEF Commit, InductiveInvariant, LoopIsSorted, WritesAreOpen
  <1>5. /\ drafts[c][f].quantity = used[f][d] + Quantity(c, f)
        /\ drafts[c][f].quantity <= request[c].limits[f]
    BY <1>3, <1>4 DEF InductiveInvariant, DraftsAreExact, WithinLimits
  <1>6. stage[c] = "commit" /\ stage'[c] = "create"
    BY <1>1 DEF Commit, Ends, InductiveInvariant, TypeOK
  <1>. QED BY <1>3, <1>5, <1>6

\* LimitsAreKept: no interleaving charges more than the limit a call has read.
THEOREM KeptLimits == Spec => LimitsAreKept
  <1>1. Init => WithinLimits
    BY DEF Init, WithinLimits
  <1>2. Spec => [](InductiveInvariant /\ WithinLimits)
    BY <1>1, Invariance, WithinLimitsStep, PTL DEF Spec
  <1>3. InductiveInvariant /\ WithinLimits /\ [Next]_vars =>
            [\A f \in Features, d \in Days :
                used'[f][d] # used[f][d] =>
                    \E c \in Calls : /\ stage[c] = "commit" /\ stage'[c] # "commit"
                                     /\ Day(c) = d /\ used'[f][d] <= request[c].limits[f]]_vars
    BY UsedStep
  <1>. QED BY <1>2, <1>3, PTL DEF Spec, LimitsAreKept

\* Only a commit makes events: those its call reserves and has not found.
LEMMA EventsStep ==
    ASSUME InductiveInvariant, [Next]_vars, NEW k \in Keys, NEW g \in Features,
           events'[g][k] # events[g][k]
    PROVE  \E p \in Payloads : \A f \in Features :
               /\ Wanted[p][f] > 0 => events'[f][k].quantity = Wanted[p][f]
               /\ events[f][k] # NoEvent => events'[f][k] = events[f][k]
  <1>1. PICK c \in Calls : Commit(c)
    <2>1. ASSUME NEW c \in Calls, Step(c) \/ Crash(c), ~Commit(c)
          PROVE  events' = events
      BY <2>1 DEF Step, Reserve, Crash, ReadQuotas, Begin, InsertEvent, ReadSum, InsertCounter,
                  UpdateCounter, CreateJob, RollsBack, tables
    <2>2. ASSUME NEW c \in Calls, NEW l \in Keys, NEW p \in Payloads, NEW admin \in BOOLEAN,
                 Submit(c, l, p, admin)
          PROVE  events' = events
      BY <2>2 DEF Submit, tables
    <2>3. ASSUME NEW limits \in Limits, SetQuotas(limits)
          PROVE  events' = events
      BY <2>3 DEF SetQuotas
    <2>4. Midnight \/ UNCHANGED vars => events' = events
      BY DEF Midnight, vars, tables
    <2>. QED BY <2>1, <2>2, <2>3, <2>4 DEF Next
  <1>2. \A f \in Features :
            events'[f][k] = IF f \in inserted[c] /\ k = Key(c)
                            THEN [day |-> Day(c), quantity |-> Quantity(c, f)]
                            ELSE events[f][k]
    BY <1>1 DEF Commit, Committed, InductiveInvariant, TypeOK
  <1>3. k = Key(c) /\ request[c].payload \in Payloads
    BY <1>2 DEF InductiveInvariant, TypeOK, Requests
  <1>4. ASSUME NEW f \in Features
        PROVE  /\ Quantity(c, f) > 0 => events'[f][k].quantity = Quantity(c, f)
               /\ events[f][k] # NoEvent => events'[f][k] = events[f][k]
    <2>1. f \in inserted[c] => events[f][k] = NoEvent
      BY <1>3 DEF InductiveInvariant, EventsAreThere
    <2>2. Quantity(c, f) > 0 => Done(c, f) /\ InTransaction(c)
      BY <1>1, FeaturesAreNumbers
      DEF Commit, InductiveInvariant, LoopIsSorted, Done, InTransaction
    <2>3. Quantity(c, f) > 0 /\ f \notin inserted[c] => events[f][k].quantity = Quantity(c, f)
      BY <1>3, <2>2 DEF InductiveInvariant, EventsAreThere, HasEvent
    <2>4. events[f][k] # NoEvent => events'[f][k] = events[f][k]
      BY <1>2, <2>1
    <2>5. CASE f \in inserted[c]
      <3>1. events'[f][k] = [day |-> Day(c), quantity |-> Quantity(c, f)]
        BY <1>2, <1>3, <2>5
      <3>. QED BY <3>1, <2>4
    <2>6. CASE f \notin inserted[c]
      <3>1. events'[f][k] = events[f][k]
        BY <1>2, <2>6
      <3>. QED BY <3>1, <2>3, <2>6
    <2>. QED BY <2>5, <2>6
  <1>5. \A f \in Features :
            /\ Wanted[request[c].payload][f] > 0 =>
                   events'[f][k].quantity = Wanted[request[c].payload][f]
            /\ events[f][k] # NoEvent => events'[f][k] = events[f][k]
    BY <1>4 DEF Quantity
  <1>. QED BY <1>3, <1>5

\* ChargedTogetherAndOnce: a request's reservations are made together, a key's once.
THEOREM ChargesAreAtomic == Spec => ChargedTogetherAndOnce
  <1>1. InductiveInvariant /\ [Next]_vars =>
            [\A k \in Keys :
                (\E f \in Features : events'[f][k] # events[f][k]) =>
                    \E p \in Payloads : \A f \in Features :
                        /\ Wanted[p][f] > 0 => events'[f][k].quantity = Wanted[p][f]
                        /\ events[f][k] # NoEvent => events'[f][k] = events[f][k]]_vars
    BY EventsStep
  <1>. QED BY <1>1, Invariance, PTL DEF Spec, ChargedTogetherAndOnce
=============================================================================
