------------------------- MODULE DataConnectLaneProofs -------------------------
(***************************************************************************)
(* Safety of the Data Connect lane for every set of datasets, every        *)
(* priority and cadence, and every number of loop() calls.                 *)
(***************************************************************************)
EXTENDS DataConnectLane, FiniteSetTheorems, TLAPS

--------------------------------------------------------------------------------
(* The queue *)

\* put() appends one item of the given name.
LEMMA PutFacts ==
  ASSUME NEW q \in Seq(Item), NEW n \in Lane \cup {Sentinel}
  PROVE  /\ Put(q, n) \in Seq(Item)
         /\ Len(Put(q, n)) = Len(q) + 1
         /\ \A i \in 1..Len(q) : Put(q, n)[i] = q[i]
         /\ Put(q, n)[Len(q) + 1].name = n
  <1>1. [name |-> n, age |-> 0] \in Item
    BY QueueConstants DEF Item
  <1> QED BY <1>1 DEF Put

\* pop(k) removes exactly the item at position k.
LEMMA PopFacts ==
  ASSUME NEW q \in Seq(Item), NEW k \in DOMAIN q
  PROVE  /\ PopAt(q, k) \in Seq(Item)
         /\ Len(PopAt(q, k)) = Len(q) - 1
         /\ \A i \in 1..(Len(q) - 1) :
              PopAt(q, k)[i] = IF i < k THEN q[i] ELSE q[i + 1]
  <1>1. Len(q) \in Nat /\ DOMAIN q = 1..Len(q)
    OBVIOUS
  <1>2. Len(q) - 1 \in Nat
    BY <1>1
  <1>3. \A i \in 1..(Len(q) - 1) : (IF i < k THEN q[i] ELSE q[i + 1]) \in Item
    BY <1>1
  <1> QED BY <1>2, <1>3 DEF PopAt

\* Ageing changes no name.
LEMMA AgedFacts ==
  ASSUME NEW q \in Seq(Item)
  PROVE  /\ Aged(q) \in Seq(Item)
         /\ Len(Aged(q)) = Len(q)
         /\ \A i \in 1..Len(q) : Aged(q)[i].name = q[i].name
  <1>1. Len(q) \in Nat /\ DOMAIN q = 1..Len(q)
    OBVIOUS
  <1>2. ASSUME NEW i \in 1..Len(q)
        PROVE  [name |-> q[i].name, age |-> Older(q[i].age)] \in Item
    <2>1. q[i] \in Item
      BY <1>1
    <2>2. q[i].name \in Lane \cup {Sentinel} /\ q[i].age \in 0..AgeCap
      BY <2>1 DEF Item
    <2>3. Older(q[i].age) \in 0..AgeCap
      BY <2>2, QueueConstants DEF Older
    <2> QED BY <2>2, <2>3 DEF Item
  <1> QED BY <1>1, <1>2 DEF Aged

--------------------------------------------------------------------------------
(* Type correctness *)

\* The constants' facts in the form the steps need.
LEMMA OrderFacts ==
  /\ Len(Order) \in Nat /\ Len(Order) > 0 /\ 1 \in 1..Len(Order)
  /\ \A i \in 1..Len(Order) : Order[i] \in Lane
  <1>1. Order \in Seq(Lane) /\ Len(Order) > 0
    BY LaneConstants
  <1> QED BY <1>1

\* The numeric constants are naturals, and cadences are positive.
LEMMA NumberFacts ==
  /\ SlowInterval \in Nat /\ MinRetry \in Nat /\ SchemaRetryMax \in Nat
  /\ Skew \in Nat /\ MaxFailures \in Nat /\ MaxFailures > 0 /\ MaxLoops \in Nat
  /\ MaxService \in Nat
  /\ \A d \in Lane : Interval[d] \in Nat /\ Interval[d] > 0
  BY LaneConstants

\* The delay scheduled after a failure is at least what the failure earned.
LEMMA RetryFacts ==
  ASSUME NEW d \in Lane, NEW n \in 0..MaxFailures
  PROVE  /\ Bump(n) \in 0..MaxFailures
         /\ Retry(d, n) \in Nat
         /\ Earned(d, FALSE, n) \in Nat /\ Earned(d, FALSE, n) <= Retry(d, n)
  <1>1. Interval[d] \in Nat /\ Interval[d] > 0
    BY NumberFacts
  <1>2. /\ SlowInterval \in Nat /\ MinRetry \in Nat /\ SchemaRetryMax \in Nat
        /\ MaxFailures \in Nat
    BY NumberFacts
  <1>3. Bump(n) \in 0..MaxFailures
    BY <1>2 DEF Bump, Least
  <1>4. CASE n < MaxFailures
    <2> DEFINE top == IF d = Schema THEN SchemaRetryMax ELSE SlowInterval
               cap == Least(Interval[d], top)
    <2>1. cap \in Nat
      BY <1>1, <1>2 DEF Least
    <2>2. Retry(d, n) = Greatest(MinRetry, cap)
      BY <1>2, <1>4 DEF Retry
    <2> HIDE DEF cap
    <2>3. Greatest(MinRetry, cap) \in Nat /\ Greatest(MinRetry, cap) >= MinRetry
      BY <1>2, <2>1 DEF Greatest
    <2>4. Earned(d, FALSE, n) = MinRetry
      BY <1>2, <1>4 DEF Earned
    <2> QED BY <1>2, <1>3, <2>2, <2>3, <2>4
  <1>5. CASE n >= MaxFailures
    <2> DEFINE g == Greatest(SlowInterval, Interval[d])
    <2>1. Retry(d, n) = g
      BY <1>5 DEF Retry
    <2>2. g \in Nat /\ Interval[d] <= g
      BY <1>1, <1>2 DEF Greatest
    <2>3. Earned(d, FALSE, n) = Interval[d]
      BY <1>5 DEF Earned
    <2> HIDE DEF g
    <2> QED BY <1>1, <1>3, <2>1, <2>2, <2>3
  <1>6. n < MaxFailures \/ n >= MaxFailures
    BY <1>2
  <1> QED BY <1>4, <1>5, <1>6

\* Rescheduling a dataset touches no other and keeps the earned rest behind the
\* deadline.
LEMMA ScheduleFacts ==
  ASSUME TypeOK, NEW d \in Lane, NEW ok \in BOOLEAN, NEW n \in 0..MaxFailures,
         Reschedule(d, ok, n)
  PROVE  /\ due' \in [Lane -> Nat] /\ delay' \in [Lane -> Nat]
         /\ rest' \in [Lane -> Nat]
         /\ rest'[d] <= due'[d] /\ due'[d] = delay'[d]
         /\ \A e \in Lane : e # d => /\ due'[e] = due[e] /\ delay'[e] = delay[e]
                                     /\ rest'[e] = rest[e]
  <1> DEFINE k == IF ok THEN Interval[d] ELSE Retry(d, n)
             r == Earned(d, ok, n)
  <1>1. k \in Nat /\ r \in Nat /\ r <= k
    <2>1. CASE ok
      BY <2>1, NumberFacts DEF Earned
    <2>2. CASE ~ok
      <3>1. r = Earned(d, FALSE, n)
        BY <2>2 DEF Earned
      <3> QED BY <2>2, <3>1, RetryFacts
    <2> QED BY <2>1, <2>2
  <1>2. /\ due' = [due EXCEPT ![d] = k] /\ delay' = [delay EXCEPT ![d] = k]
        /\ rest' = [rest EXCEPT ![d] = r]
    BY DEF Reschedule
  <1> HIDE DEF k, r
  <1> QED BY <1>1, <1>2 DEF TypeOK

\* task_done() and the discarding of the queue keep a natural count.
LEMMA CountFacts ==
  ASSUME NEW u \in Nat, NEW n \in Nat
  PROVE  Greatest(0, u - n) \in Nat
  BY DEF Greatest

\* The constructed scheduler is well typed.
LEMMA TypeInit == Init => TypeOK
  <1> SUFFICES ASSUME Init PROVE TypeOK
    OBVIOUS
  <1>1. mi \in 1..Len(Order) /\ loops \in 0..MaxLoops /\ last \in 0..MaxLoops
    BY OrderFacts, NumberFacts DEF Init
  <1>2. queue \in Seq(Item) /\ unfinished \in Nat /\ svc \in Nat
    BY DEF Init
  <1>3. /\ due \in [Lane -> Nat] /\ delay \in [Lane -> Nat]
        /\ fails \in [Lane -> 0..MaxFailures] /\ rest \in [Lane -> Nat]
    <2>1. Interval \in [Lane -> Nat]
      BY LaneConstants
    <2> QED BY <2>1, NumberFacts DEF Init
  <1>4. /\ wpc \in [Workers -> Holding \cup {"dead", "get"}]
        /\ wcur \in [Workers -> Lane] /\ wok \in [Workers -> BOOLEAN]
    BY LaneConstants DEF Init
  <1>5. inflight \subseteq Lane /\ queuedAt \subseteq Lane
        /\ failures \subseteq Reporting
    BY DEF Init
  <1> QED BY <1>1, <1>2, <1>3, <1>4, <1>5 DEF Init, TypeOK

\* TypeOK by what changes together.
LoopTypes ==
  /\ mpc \in {"off", "bind", "check", "put", "sleep", "stop", "join"}
  /\ mi \in 1..Len(Order) /\ loops \in 0..MaxLoops
  /\ evt \in BOOLEAN /\ bound \in BOOLEAN /\ torn \in BOOLEAN /\ closed \in BOOLEAN
QueueTypes ==
  /\ queue \in Seq(Item) /\ unfinished \in Nat
  /\ inflight \subseteq Lane /\ queuedAt \subseteq Lane /\ busy \in BOOLEAN
FlagTypes ==
  /\ async \in BOOLEAN /\ stopping \in BOOLEAN /\ last \in 0..MaxLoops
  /\ ready \in BOOLEAN /\ failures \subseteq Reporting
Where == Holding \cup {"dead", "get"}
WorkerTypes ==
  /\ wpc \in [Workers -> Where]
  /\ wcur \in [Workers -> Lane] /\ wok \in [Workers -> BOOLEAN]
  /\ svc \in Nat
ScheduleTypes ==
  /\ due \in [Lane -> Nat] /\ delay \in [Lane -> Nat]
  /\ fails \in [Lane -> 0..MaxFailures] /\ rest \in [Lane -> Nat]

LEMMA TypeParts ==
  /\ TypeOK => LoopTypes /\ QueueTypes /\ FlagTypes /\ WorkerTypes /\ ScheduleTypes
  /\ LoopTypes' /\ QueueTypes' /\ FlagTypes' /\ WorkerTypes' /\ ScheduleTypes' => TypeOK'
  <1>1. TypeOK => LoopTypes /\ QueueTypes /\ FlagTypes /\ WorkerTypes /\ ScheduleTypes
    BY Zenon DEF TypeOK, Where, LoopTypes, QueueTypes, FlagTypes, WorkerTypes, ScheduleTypes
  <1>2. LoopTypes' /\ QueueTypes' /\ FlagTypes' /\ WorkerTypes' /\ ScheduleTypes' => TypeOK'
    BY Zenon DEF TypeOK, Where, LoopTypes, QueueTypes, FlagTypes, WorkerTypes, ScheduleTypes
  <1> QED BY <1>1, <1>2

\* A part of which nothing changes keeps its types.
LEMMA PartsKept ==
  ASSUME TypeOK
  PROVE  /\ UNCHANGED loopVars => LoopTypes'
         /\ UNCHANGED queueVars => QueueTypes'
         /\ UNCHANGED <<async, stopping, last>> /\ UNCHANGED schemaVars => FlagTypes'
         /\ UNCHANGED workerVars => WorkerTypes'
         /\ UNCHANGED scheduleVars => ScheduleTypes'
  <1> USE TypeParts
  <1>1. UNCHANGED loopVars => LoopTypes'
    BY DEF LoopTypes, loopVars
  <1>2. UNCHANGED queueVars => QueueTypes'
    BY DEF QueueTypes, queueVars
  <1>3. UNCHANGED <<async, stopping, last>> /\ UNCHANGED schemaVars => FlagTypes'
    BY DEF FlagTypes, schemaVars
  <1>4. UNCHANGED workerVars => WorkerTypes'
    BY DEF WorkerTypes, workerVars
  <1>5. UNCHANGED scheduleVars => ScheduleTypes'
    BY DEF ScheduleTypes, scheduleVars
  <1> QED BY <1>1, <1>2, <1>3, <1>4, <1>5

\* The steps of the scheduler thread that neither queue nor drop anything.
MovesOnly == \/ MainCheck \/ LoopBind \/ LoopWake \/ LoopExit \/ JoinTimeout
             \/ LoopRaise \/ Signal \/ Teardown

LEMMA MovesTypes ==
  ASSUME TypeOK, MovesOnly
  PROVE  TypeOK'
  <1>1. /\ UNCHANGED queueVars /\ UNCHANGED <<async, stopping, last>> /\ UNCHANGED schemaVars
        /\ UNCHANGED workerVars /\ UNCHANGED scheduleVars /\ UNCHANGED loops
    BY DEF MovesOnly, MainCheck, LoopBind, LoopWake, LoopExit, JoinTimeout, LoopRaise, Signal,
           Teardown
  <1>2. LoopTypes /\ Len(Order) \in Nat /\ 1 \in 1..Len(Order)
    BY TypeParts, OrderFacts
  <1>3. mpc' \in {"off", "bind", "check", "put", "sleep", "stop", "join"}
    BY <1>2 DEF MovesOnly, MainCheck, NextDataset, LoopBind, LoopWake, LoopExit, JoinTimeout,
                LoopRaise, Signal, Teardown, LoopTypes
  <1>4. mi' \in 1..Len(Order)
    BY <1>2 DEF MovesOnly, MainCheck, NextDataset, LoopBind, LoopWake, LoopExit, JoinTimeout,
                LoopRaise, Signal, Teardown, LoopTypes
  <1>5. evt' \in BOOLEAN /\ bound' \in BOOLEAN /\ torn' \in BOOLEAN
    BY <1>2 DEF MovesOnly, MainCheck, LoopBind, LoopWake, LoopExit, JoinTimeout, LoopRaise,
                Signal, Teardown, LoopTypes
  <1>6. closed' \in BOOLEAN
    <2>1. closed' = closed \/ closed' = ~Alive
      BY DEF MovesOnly, MainCheck, LoopBind, LoopWake, LoopExit, JoinTimeout, LoopRaise, Signal,
             Teardown
    <2> HIDE DEF Alive
    <2> QED BY <1>2, <2>1 DEF LoopTypes
  <1>7. LoopTypes'
    BY <1>1, <1>2, <1>3, <1>4, <1>5, <1>6 DEF LoopTypes
  <1> QED BY <1>1, <1>7, PartsKept, TypeParts

\* Discarding empties the queue and its books.
LEMMA DiscardTypes == ASSUME TypeOK, Discard PROVE QueueTypes'
  <1>1. unfinished \in Nat /\ Len(queue) \in Nat
    BY TypeParts DEF QueueTypes
  <1>2. unfinished' \in Nat
    <2>1. unfinished' = Greatest(0, unfinished - Len(queue))
      BY DEF Discard
    <2> QED BY Zenon, <1>1, <2>1, CountFacts
  <1>3. <<>> \in Seq(Item)
    OBVIOUS
  <1>4. queue' = <<>> /\ inflight' = {} /\ queuedAt' = {} /\ busy' = FALSE
    BY DEF Discard
  <1>5. queue' \in Seq(Item)
    BY <1>3, <1>4
  <1> QED BY <1>2, <1>4, <1>5 DEF QueueTypes

\* The steps of the scheduler thread that queue or drop something.
LEMMA QueuesTypes ==
  ASSUME TypeOK, MainPut \/ StopPut \/ JoinDone
  PROVE  TypeOK'
  <1>0. LoopTypes /\ QueueTypes /\ FlagTypes
    BY TypeParts
  <1>1. /\ UNCHANGED <<loops, evt, bound, torn, closed, last>> /\ UNCHANGED schemaVars
        /\ UNCHANGED workerVars /\ UNCHANGED scheduleVars
    BY DEF MainPut, StopPut, JoinDone
  <1>2. mi' \in 1..Len(Order) /\ mpc' \in {"off", "check", "sleep", "join"}
    BY <1>0, OrderFacts DEF MainPut, StopPut, JoinDone, NextDataset, LoopTypes
  <1>3. LoopTypes'
    BY <1>0, <1>1, <1>2 DEF LoopTypes
  <1>4. async' \in BOOLEAN /\ stopping' \in BOOLEAN
    BY <1>0 DEF MainPut, StopPut, JoinDone, FlagTypes
  <1>5. FlagTypes'
    BY <1>0, <1>1, <1>4 DEF FlagTypes, schemaVars
  <1>6. QueueTypes'
    <2>1. CASE MainPut
      <3>1. Order[mi] \in Lane
        BY <1>0, OrderFacts DEF LoopTypes
      <3>2. Put(queue, Order[mi]) \in Seq(Item)
        BY <1>0, <3>1, PutFacts DEF QueueTypes
      <3>3. /\ queue' \in {queue, Put(queue, Order[mi])} /\ unfinished' \in {unfinished, unfinished + 1}
            /\ inflight' \subseteq inflight \cup {Order[mi]}
            /\ queuedAt' \subseteq queuedAt \cup {Order[mi]} /\ busy' = busy
        BY <2>1 DEF MainPut
      <3> QED BY <1>0, <3>1, <3>2, <3>3 DEF QueueTypes
    <2>2. CASE StopPut
      <3>1. Put(queue, Sentinel) \in Seq(Item)
        BY <1>0, PutFacts DEF QueueTypes
      <3>2. /\ queue' = Put(queue, Sentinel) /\ unfinished' = unfinished + 1
            /\ UNCHANGED <<inflight, queuedAt, busy>>
        BY <2>2 DEF StopPut
      <3> QED BY <1>0, <3>1, <3>2 DEF QueueTypes
    <2>3. CASE JoinDone
      BY <2>3, DiscardTypes DEF JoinDone
    <2> QED BY <2>1, <2>2, <2>3
  <1> QED BY <1>1, <1>3, <1>5, <1>6, PartsKept, TypeParts

\* A new call of loop().
LEMMA StartTypes == ASSUME TypeOK, LoopStart PROVE TypeOK'
  <1>0. LoopTypes /\ QueueTypes /\ FlagTypes /\ WorkerTypes
    BY TypeParts
  <1>1. loops + 1 \in 0..MaxLoops
    BY <1>0, NumberFacts DEF LoopStart, LoopTypes
  <1>2. UNCHANGED scheduleVars /\ UNCHANGED schemaVars
    BY DEF LoopStart
  <1>3. LoopTypes'
    <2>1. /\ mpc' = "bind" /\ loops' = loops + 1 /\ evt' = FALSE /\ bound' \in BOOLEAN
          /\ UNCHANGED <<mi, torn, closed>>
      BY DEF LoopStart
    <2> QED BY <1>0, <1>1, <2>1 DEF LoopTypes
  <1>4. FlagTypes'
    <2>1. /\ async' \in {async, TRUE} /\ stopping' \in {stopping, FALSE}
          /\ last' \in {last, loops + 1}
      BY DEF LoopStart
    <2> QED BY <1>0, <1>1, <1>2, <2>1 DEF FlagTypes, schemaVars
  <1>5. QueueTypes'
    <2>1. Discard \/ UNCHANGED queueVars
      BY DEF LoopStart
    <2> QED BY <2>1, DiscardTypes, PartsKept
  <1>6. WorkerTypes'
    <2>1. /\ wpc' = wpc \/ wpc' = [wpc EXCEPT ![loops + 1] = "get"]
          /\ UNCHANGED <<wcur, wok, svc>>
      BY DEF LoopStart
    <2> QED BY <1>0, <2>1 DEF WorkerTypes, Where
  <1> QED BY <1>2, <1>3, <1>4, <1>5, <1>6, PartsKept, TypeParts

\* The passing of time.
LEMMA TickTypes == ASSUME TypeOK, Tick PROVE TypeOK'
  <1>0. QueueTypes /\ WorkerTypes /\ ScheduleTypes
    BY TypeParts
  <1>1. /\ UNCHANGED loopVars /\ UNCHANGED <<unfinished, inflight, queuedAt, busy>>
        /\ UNCHANGED <<async, stopping, last>> /\ UNCHANGED schemaVars
        /\ UNCHANGED <<wpc, wcur, wok, delay, fails>>
    BY DEF Tick
  <1>2. QueueTypes'
    <2>1. queue' = Aged(queue) /\ queue \in Seq(Item)
      BY <1>0 DEF Tick, QueueTypes
    <2>2. queue' \in Seq(Item)
      BY <2>1, AgedFacts
    <2> QED BY <1>0, <1>1, <2>2 DEF QueueTypes
  <1>3. WorkerTypes'
    <2>1. svc' \in {svc, svc + 1}
      BY DEF Tick
    <2> QED BY <1>0, <1>1, <2>1 DEF WorkerTypes
  <1>4. ScheduleTypes'
    <2>1. due' \in [Lane -> Nat] /\ rest' \in [Lane -> Nat]
      BY <1>0 DEF Tick, Countdown, ScheduleTypes
    <2> QED BY <1>0, <1>1, <2>1 DEF ScheduleTypes
  <1> QED BY <1>1, <1>2, <1>3, <1>4, PartsKept, TypeParts

\* A worker moves, and holds a dataset of the lane.
LEMMA WorkersMove == ASSUME TypeOK, NEW w \in Workers, Worker(w) PROVE WorkerTypes'
  <1>0. WorkerTypes /\ queue \in Seq(Item)
    BY TypeParts DEF QueueTypes
  <1>1. wpc' \in [Workers -> Where]
    <2>1. \E l \in Where : wpc' = [wpc EXCEPT ![w] = l]
      BY DEF Worker, WorkerExit, WorkerGet, WorkerRecheck, WorkerSkip, WorkerStart, WorkerCallback,
             WorkerApplySchema, WorkerRestore, WorkerBook, WorkerRecover, WorkerFinish, Goto,
             Where, Holding
    <2>2. PICK l \in Where : wpc' = [wpc EXCEPT ![w] = l]
      BY <2>1
    <2> HIDE DEF Where
    <2> QED BY <1>0, <2>2 DEF WorkerTypes
  <1>2. wcur' \in [Workers -> Lane]
    <2>1. CASE WorkerGet(w)
      <3>1. PICK k \in DOMAIN queue : /\ queue[k].name # Sentinel
                                      /\ wcur' = [wcur EXCEPT ![w] = queue[k].name]
        BY <2>1 DEF WorkerGet
      <3>2. queue[k] \in Item
        BY <1>0
      <3>3. queue[k].name \in Lane
        BY <3>1, <3>2 DEF Item
      <3> QED BY <1>0, <3>1, <3>3 DEF WorkerTypes
    <2>2. CASE ~WorkerGet(w)
      <3>1. wcur' = wcur
        BY <2>2 DEF Worker, WorkerExit, WorkerRecheck, WorkerSkip, WorkerStart, WorkerCallback,
               WorkerApplySchema, WorkerRestore, WorkerBook, WorkerRecover, WorkerFinish
      <3> QED BY <1>0, <3>1 DEF WorkerTypes
    <2> QED BY <2>1, <2>2
  <1>3. wok' \in [Workers -> BOOLEAN]
    <2>1. wok' = wok \/ \E ok \in BOOLEAN : wok' = [wok EXCEPT ![w] = ok]
      BY DEF Worker, WorkerExit, WorkerGet, WorkerRecheck, WorkerSkip, WorkerStart, WorkerCallback,
             WorkerApplySchema, WorkerRestore, WorkerBook, WorkerRecover, WorkerFinish, Outcome
    <2> QED BY <1>0, <2>1 DEF WorkerTypes
  <1>4. svc' \in {svc, 0}
    BY DEF Worker, WorkerExit, WorkerGet, WorkerRecheck, WorkerSkip, WorkerStart, WorkerCallback,
           WorkerApplySchema, WorkerRestore, WorkerBook, WorkerRecover, WorkerFinish
  <1> QED BY <1>0, <1>1, <1>2, <1>3, <1>4 DEF WorkerTypes

\* What a worker takes from the queue and its books.
LEMMA WorkersTake == ASSUME TypeOK, NEW w \in Workers, Worker(w) PROVE QueueTypes'
  <1>0. QueueTypes
    BY TypeParts
  <1>1. queue' \in Seq(Item)
    <2>1. queue' = queue \/ \E k \in DOMAIN queue : queue' = PopAt(queue, k)
      BY DEF Worker, WorkerExit, WorkerGet, WorkerRecheck, WorkerSkip, WorkerStart, WorkerCallback,
             WorkerApplySchema, WorkerRestore, WorkerBook, WorkerRecover, WorkerFinish, queueVars
    <2> QED BY <1>0, <2>1, PopFacts DEF QueueTypes
  <1>2. unfinished' \in Nat
    <2>1. unfinished' = unfinished \/ TaskDone
      BY DEF Worker, WorkerExit, WorkerGet, WorkerRecheck, WorkerSkip, WorkerStart, WorkerCallback,
             WorkerApplySchema, WorkerRestore, WorkerBook, WorkerRecover, WorkerFinish, queueVars
    <2> QED BY <1>0, <2>1, CountFacts DEF QueueTypes, TaskDone
  <1>3. inflight' \subseteq inflight /\ queuedAt' \subseteq queuedAt
    BY DEF Worker, WorkerExit, WorkerGet, WorkerRecheck, WorkerSkip, WorkerStart, WorkerCallback,
           WorkerApplySchema, WorkerRestore, WorkerBook, WorkerRecover, WorkerFinish, queueVars
  <1>4. busy' \in {busy, TRUE, FALSE}
    BY DEF Worker, WorkerExit, WorkerGet, WorkerRecheck, WorkerSkip, WorkerStart, WorkerCallback,
           WorkerApplySchema, WorkerRestore, WorkerBook, WorkerRecover, WorkerFinish, queueVars
  <1> QED BY <1>0, <1>1, <1>2, <1>3, <1>4 DEF QueueTypes

\* What a worker schedules.
LEMMA WorkersSchedule == ASSUME TypeOK, NEW w \in Workers, Worker(w) PROVE ScheduleTypes'
  <1> DEFINE d == wcur[w]
             n == fails[d]
  <1>0. /\ ScheduleTypes /\ d \in Lane /\ wok[w] \in BOOLEAN /\ n \in 0..MaxFailures
        /\ Bump(n) \in 0..MaxFailures /\ MaxFailures \in Nat
    BY TypeParts, RetryFacts, NumberFacts DEF WorkerTypes, ScheduleTypes
  <1>1. CASE WorkerCallback(w) \/ WorkerApplySchema(w)
    <2>1. /\ \E ok \in BOOLEAN : fails' = [fails EXCEPT ![d] = IF ok THEN 0 ELSE Bump(n)]
          /\ UNCHANGED <<due, delay, rest>>
      BY <1>1 DEF WorkerCallback, WorkerApplySchema, Outcome
    <2> HIDE DEF d, n
    <2>2. PICK b \in {0, Bump(n)} : fails' = [fails EXCEPT ![d] = b]
      BY <2>1
    <2>3. b \in 0..MaxFailures
      BY <1>0
    <2> QED BY <1>0, <2>1, <2>2, <2>3 DEF ScheduleTypes
  <1>2. CASE WorkerRestore(w)
    <2>0. UNCHANGED <<fails, rest>>
      BY <1>2 DEF WorkerRestore
    <2>1. PICK R \in SUBSET (Reporting \ failures) :
            \E left \in [R -> UNION {Remaining(e) : e \in R}] :
              /\ \A e \in R : left[e] \in Remaining(e)
              /\ due' = [e \in Lane |-> IF e \in R THEN left[e] ELSE due[e]]
              /\ delay' = [e \in Lane |-> IF e \in R THEN Interval[e] ELSE delay[e]]
      BY <1>2 DEF WorkerRestore
    <2>2. PICK left \in [R -> UNION {Remaining(e) : e \in R}] :
            /\ \A e \in R : left[e] \in Remaining(e)
            /\ due' = [e \in Lane |-> IF e \in R THEN left[e] ELSE due[e]]
            /\ delay' = [e \in Lane |-> IF e \in R THEN Interval[e] ELSE delay[e]]
      BY <2>1
    <2>3. ASSUME NEW e \in R
          PROVE  e \in Lane /\ left[e] \in Nat /\ Interval[e] \in Nat
      <3>1. e \in Lane /\ Interval[e] \in Nat /\ Skew \in Nat
        BY NumberFacts DEF Reporting
      <3>2. left[e] \in 0..(Interval[e] + Skew)
        BY <2>2 DEF Remaining
      <3> QED BY <3>1, <3>2
    <2>4. due' \in [Lane -> Nat]
      BY <1>0, <2>2, <2>3 DEF ScheduleTypes
    <2>5. delay' \in [Lane -> Nat]
      BY <1>0, <2>2, <2>3 DEF ScheduleTypes
    <2> QED BY <1>0, <2>0, <2>4, <2>5 DEF ScheduleTypes
  <1>3. CASE WorkerBook(w)
    <2>1. Reschedule(d, wok[w], n) /\ UNCHANGED fails
      BY <1>3 DEF WorkerBook
    <2> HIDE DEF d, n
    <2>2. due' \in [Lane -> Nat] /\ delay' \in [Lane -> Nat] /\ rest' \in [Lane -> Nat]
      BY <1>0, <2>1, ScheduleFacts
    <2> QED BY <1>0, <2>1, <2>2 DEF ScheduleTypes
  <1>4. CASE WorkerRecover(w)
    <2>1. /\ Reschedule(d, FALSE, Bump(n))
          /\ fails' = [fails EXCEPT ![d] = Bump(n)]
      BY <1>4 DEF WorkerRecover
    <2> HIDE DEF d, n
    <2>2. due' \in [Lane -> Nat] /\ delay' \in [Lane -> Nat] /\ rest' \in [Lane -> Nat]
      BY <1>0, <2>1, ScheduleFacts
    <2>3. fails' \in [Lane -> 0..MaxFailures]
      BY <1>0, <2>1 DEF ScheduleTypes
    <2> QED BY <2>2, <2>3 DEF ScheduleTypes
  <1>5. CASE \/ WorkerExit(w) \/ WorkerGet(w) \/ WorkerRecheck(w) \/ WorkerSkip(w)
             \/ WorkerStart(w) \/ WorkerFinish(w)
    <2>1. UNCHANGED scheduleVars
      BY <1>5 DEF WorkerExit, WorkerGet, WorkerRecheck, WorkerSkip, WorkerStart, WorkerFinish
    <2> QED BY <2>1, PartsKept
  <1> QED BY <1>1, <1>2, <1>3, <1>4, <1>5 DEF Worker

\* The steps of a worker.
LEMMA WorkersTypes == ASSUME TypeOK, NEW w \in Workers, Worker(w) PROVE TypeOK'
  <1>1. UNCHANGED loopVars /\ UNCHANGED <<async, stopping, last>>
    BY DEF Worker, WorkerExit, WorkerGet, WorkerRecheck, WorkerSkip, WorkerStart, WorkerCallback,
           WorkerApplySchema, WorkerRestore, WorkerBook, WorkerRecover, WorkerFinish
  <1>2. ready' \in {ready, TRUE} /\ (failures' = failures \/ failures' \subseteq Reporting)
    BY DEF Worker, WorkerExit, WorkerGet, WorkerRecheck, WorkerSkip, WorkerStart, WorkerCallback,
           WorkerApplySchema, WorkerRestore, WorkerBook, WorkerRecover, WorkerFinish,
           Incompatible, schemaVars
  <1>3. FlagTypes'
    BY <1>1, <1>2, TypeParts DEF FlagTypes
  <1> QED BY <1>1, <1>3, PartsKept, TypeParts, WorkersMove, WorkersTake, WorkersSchedule

\* Every step of either thread keeps the state well typed.
LEMMA TypeStep == TypeOK /\ [Next]_vars => TypeOK'
  <1> SUFFICES ASSUME TypeOK, [Next]_vars PROVE TypeOK'
    OBVIOUS
  <1>1. CASE UNCHANGED vars
    <2>1. /\ UNCHANGED loopVars /\ UNCHANGED queueVars /\ UNCHANGED <<async, stopping, last>>
          /\ UNCHANGED schemaVars /\ UNCHANGED workerVars /\ UNCHANGED scheduleVars
      BY <1>1 DEF vars
    <2> QED BY <2>1, PartsKept, TypeParts
  <1> QED BY <1>1, MovesTypes, QueuesTypes, StartTypes, TickTypes, WorkersTypes
          DEF Next, Main, Environment, MovesOnly

\* The lane's state is always well typed; in particular schema discovery itself
\* never becomes incompatible, so it can always be revalidated.
THEOREM TypeCorrect == Spec => []TypeOK
  BY TypeInit, TypeStep, PTL DEF Spec

--------------------------------------------------------------------------------
(* Names in the queue *)

Distinct(q) ==
  \A i, j \in DOMAIN q :
    i # j /\ q[i].name = q[j].name => q[i].name = Sentinel

\* put() adds one name; a name that was absent keeps the queue duplicate-free.
LEMMA PutNames ==
  ASSUME NEW q \in Seq(Item), NEW n \in Lane \cup {Sentinel},
         Distinct(q), n \notin Names(q)
  PROVE  /\ Distinct(Put(q, n))
         /\ Names(Put(q, n)) = (Names(q) \cup {n}) \ {Sentinel}
  <1> DEFINE p == Put(q, n)
  <1>1. /\ p \in Seq(Item) /\ Len(p) = Len(q) + 1 /\ p[Len(q) + 1].name = n
        /\ \A i \in 1..Len(q) : p[i] = q[i]
    BY PutFacts
  <1>2. Len(q) \in Nat /\ DOMAIN q = 1..Len(q) /\ DOMAIN p = 1..(Len(q) + 1)
    BY <1>1
  <1> HIDE DEF p
  <1>3. \A i \in DOMAIN p : i \in 1..Len(q) \/ i = Len(q) + 1
    BY <1>2
  <1>4. \A i \in 1..Len(q) : q[i].name # n \/ n = Sentinel
    BY <1>2 DEF Names
  <1>5. Distinct(p)
    BY <1>1, <1>2, <1>3, <1>4 DEF Distinct
  <1>6. Names(p) = (Names(q) \cup {n}) \ {Sentinel}
    BY <1>1, <1>2, <1>3 DEF Names
  <1> QED BY <1>5, <1>6 DEF p

\* pop(k) removes the name at k and no other.
LEMMA PopNames ==
  ASSUME NEW q \in Seq(Item), NEW k \in DOMAIN q, Distinct(q)
  PROVE  /\ Distinct(PopAt(q, k))
         /\ Names(PopAt(q, k)) = Names(q) \ {q[k].name}
  <1> DEFINE p == PopAt(q, k)
             m(i) == IF i < k THEN i ELSE i + 1
  <1>1. /\ p \in Seq(Item) /\ Len(p) = Len(q) - 1
        /\ \A i \in 1..(Len(q) - 1) :
             p[i] = IF i < k THEN q[i] ELSE q[i + 1]
    BY PopFacts
  <1>2. /\ Len(q) \in Nat /\ DOMAIN q = 1..Len(q) /\ k \in 1..Len(q)
        /\ DOMAIN p = 1..(Len(q) - 1)
    BY <1>1
  <1> HIDE DEF p
  <1>3. \A i \in DOMAIN p : m(i) \in DOMAIN q /\ m(i) # k /\ p[i] = q[m(i)]
    BY <1>1, <1>2
  <1>4. \A i, j \in DOMAIN p : i # j => m(i) # m(j)
    BY <1>2
  <1>5. \A i \in DOMAIN q : i # k => \E j \in DOMAIN p : m(j) = i
    <2> SUFFICES ASSUME NEW i \in DOMAIN q, i # k
                 PROVE  \E j \in DOMAIN p : m(j) = i
      OBVIOUS
    <2>1. CASE i < k
      BY <1>2, <2>1
    <2>2. CASE i > k
      <3>1. i - 1 \in DOMAIN p /\ m(i - 1) = i
        BY <1>2, <2>2
      <3> QED BY <3>1
    <2> QED BY <1>2, <2>1, <2>2
  <1> HIDE DEF m
  <1>6. Distinct(p)
    BY <1>3, <1>4 DEF Distinct
  <1>7. Names(p) \subseteq Names(q) \ {q[k].name}
    BY <1>3 DEF Names, Distinct
  <1>8. Names(q) \ {q[k].name} \subseteq Names(p)
    <2> SUFFICES ASSUME NEW i \in DOMAIN q, q[i].name # Sentinel,
                        q[i].name # q[k].name
                 PROVE  q[i].name \in Names(p)
      BY DEF Names
    <2>1. PICK j \in DOMAIN p : m(j) = i
      BY <1>5
    <2> QED BY <1>3, <2>1 DEF Names
  <1> QED BY <1>6, <1>7, <1>8 DEF p

\* Ageing neither adds, drops nor duplicates a name.
LEMMA AgedNames ==
  ASSUME NEW q \in Seq(Item), Distinct(q)
  PROVE  Distinct(Aged(q)) /\ Names(Aged(q)) = Names(q)
  <1>1. /\ DOMAIN Aged(q) = DOMAIN q
        /\ \A i \in DOMAIN q : Aged(q)[i].name = q[i].name
    BY AgedFacts DEF Aged
  <1> QED BY <1>1 DEF Distinct, Names

--------------------------------------------------------------------------------
(* The inductive invariant *)

\* Only the worker created last can be alive, and while it is the lane stays in
\* asynchronous mode: what makes StillOwned refuse a second worker.
Owned == \A w \in Workers : wpc[w] # "dead" => w = last /\ async

\* The schema proof behind an attempt holds from the recheck to its callback:
\* only the owner of the lane can publish another schema.
Proved == \A w \in Workers :
  wpc[w] \in {"start", "call"} /\ wcur[w] # Schema =>
    ready /\ wcur[w] \notin failures

TornDown ==
  /\ torn => mpc = "off"
  /\ closed => torn /\ \A w \in Workers : wpc[w] = "dead"

IInv == TypeOK /\ Owned /\ Proved /\ TornDown /\ InflightExact /\ TasksAccounted

\* With its owner dead the lane has no live worker at all.
LEMMA NoOwner ==
  ASSUME Owned, ~(async /\ Alive)
  PROVE  \A w \in Workers : wpc[w] = "dead"
  <1>1. \A w \in Workers : w # 0
    BY NumberFacts DEF Workers
  <1> QED BY <1>1 DEF Owned, Alive

\* What a step of a worker leaves alone.
LEMMA WorkerFrame ==
  ASSUME TypeOK, NEW w \in Workers, Worker(w)
  PROVE  /\ wpc[w] # "dead"
         /\ UNCHANGED <<loopVars, async, stopping, last>>
         /\ wpc' = [wpc EXCEPT ![w] = wpc'[w]]
         /\ \A v \in Workers : v # w => wpc'[v] = wpc[v]
  <1> USE DEF Goto, TypeOK
  <1>1. /\ wpc[w] # "dead"
        /\ UNCHANGED <<loopVars, async, stopping, last>>
        /\ \E l : wpc' = [wpc EXCEPT ![w] = l]
    BY DEF Worker, WorkerExit, WorkerGet, WorkerRecheck, WorkerSkip, WorkerStart,
           WorkerCallback, WorkerApplySchema, WorkerRestore, WorkerBook,
           WorkerRecover, WorkerFinish, Holding
  <1> QED BY <1>1

\* What every other step but the start of a worker leaves alone.
NotWorker == Main \/ LoopRaise \/ Signal \/ Teardown \/ Tick \/ UNCHANGED vars

\* Such steps change neither the schema nor any worker's position.
LEMMA OtherFrame ==
  ASSUME NotWorker
  PROVE  UNCHANGED <<schemaVars, last, wpc, wcur, loops>>
  BY DEF NotWorker, Main, MainCheck, MainPut, LoopBind, LoopWake, LoopExit,
         StopPut, JoinDone, JoinTimeout, LoopRaise, Signal, Teardown, Tick, vars,
         loopVars, workerVars, schemaVars

\* A step is a worker's, the start of a worker, or leaves the workers alone.
LEMMA StepCases ==
  [Next]_vars => NotWorker \/ LoopStart \/ \E w \in Workers : Worker(w)
  BY DEF Next, Environment, NotWorker

\* No step gives the lane a second live worker.
LEMMA OwnedStep == TypeOK /\ Owned /\ [Next]_vars => Owned'
  <1> SUFFICES ASSUME TypeOK, Owned, [Next]_vars PROVE Owned'
    OBVIOUS
  <1>1. CASE NotWorker
    <2>1. UNCHANGED <<last, wpc>>
      BY <1>1, OtherFrame
    <2>2. async' = async \/ \A w \in Workers : wpc[w] = "dead"
      <3>1. CASE JoinDone
        BY <3>1, NoOwner DEF JoinDone
      <3> QED BY <1>1, <3>1 DEF NotWorker, Main, MainCheck, MainPut, LoopBind,
                 LoopWake, LoopExit, StopPut, JoinTimeout, LoopRaise, Signal,
                 Teardown, Tick, vars
    <2> QED BY <2>1, <2>2 DEF Owned
  <1>2. CASE LoopStart
    <2>1. CASE StillOwned
      BY <1>2, <2>1 DEF LoopStart, Owned
    <2>2. CASE ~StillOwned
      <3>1. \A w \in Workers : wpc[w] = "dead"
        BY <2>2, NoOwner DEF StillOwned
      <3>2. /\ last' = loops + 1 /\ async' = TRUE
            /\ wpc' = [wpc EXCEPT ![loops + 1] = "get"]
        BY <1>2, <2>2 DEF LoopStart
      <3> QED BY <3>1, <3>2 DEF Owned, TypeOK
    <2> QED BY <2>1, <2>2
  <1>3. ASSUME NEW w \in Workers, Worker(w) PROVE Owned'
    BY <1>3, WorkerFrame DEF Owned
  <1> QED BY <1>1, <1>2, <1>3, StepCases

\* No step invalidates the schema proof under an attempt.
LEMMA ProvedStep ==
  TypeOK /\ Owned /\ Proved /\ [Next]_vars => Proved'
  <1> SUFFICES ASSUME TypeOK, Owned, Proved, [Next]_vars PROVE Proved'
    OBVIOUS
  <1>1. CASE NotWorker
    BY <1>1, OtherFrame DEF Proved, schemaVars
  <1>2. CASE LoopStart
    BY <1>2 DEF LoopStart, Proved, schemaVars, TypeOK, Workers
  <1>3. ASSUME NEW w \in Workers, Worker(w) PROVE Proved'
    <2> USE DEF Goto
    <2>1. \A v \in Workers : v # w => wpc[v] = "dead" /\ wpc'[v] = "dead"
      BY <1>3, WorkerFrame DEF Owned
    <2>2. SUFFICES wpc'[w] \in {"start", "call"} /\ wcur'[w] # Schema =>
                     ready' /\ wcur'[w] \notin failures'
      BY <2>1 DEF Proved
    <2>3. CASE WorkerRecheck(w)
      BY <2>3 DEF WorkerRecheck, Blocked, schemaVars, TypeOK
    <2>4. CASE WorkerStart(w)
      BY <2>4 DEF WorkerStart, Proved, schemaVars, TypeOK
    <2>5. CASE ~WorkerRecheck(w) /\ ~WorkerStart(w)
      <3>1. wpc'[w] \notin {"start", "call"}
        BY <1>3, <2>5 DEF Worker, WorkerExit, WorkerGet, WorkerSkip,
           WorkerCallback, WorkerApplySchema, WorkerRestore, WorkerBook,
           WorkerRecover, WorkerFinish, TypeOK
      <3> QED BY <3>1
    <2> QED BY <2>3, <2>4, <2>5
  <1> QED BY <1>1, <1>2, <1>3, StepCases

\* No step revives a worker after the client is closed.
LEMMA TornDownStep ==
  TypeOK /\ Owned /\ TornDown /\ [Next]_vars => TornDown'
  <1> SUFFICES ASSUME TypeOK, Owned, TornDown, [Next]_vars PROVE TornDown'
    OBVIOUS
  <1>1. CASE Teardown
    <2>1. Alive \/ \A w \in Workers : wpc[w] = "dead"
      BY NoOwner
    <2> QED BY <1>1, <2>1 DEF Teardown, TornDown, workerVars
  <1>2. CASE NotWorker /\ ~Teardown
    <2>1. UNCHANGED wpc
      BY <1>2, OtherFrame
    <2>2. UNCHANGED <<torn, closed>> /\ (mpc = "off" => mpc' = "off")
      BY <1>2 DEF NotWorker, Main, MainCheck, MainPut, LoopBind, LoopWake,
         LoopExit, StopPut, JoinDone, JoinTimeout, LoopRaise, Signal, Tick,
         vars, loopVars
    <2> QED BY <2>1, <2>2 DEF TornDown
  <1>3. CASE LoopStart
    BY <1>3 DEF LoopStart, TornDown
  <1>4. ASSUME NEW w \in Workers, Worker(w) PROVE TornDown'
    BY <1>4, WorkerFrame DEF TornDown, loopVars
  <1> QED BY <1>1, <1>2, <1>3, <1>4, StepCases

--------------------------------------------------------------------------------
(* The in-flight set and the task count *)

Rechecked == {wcur[w] : w \in {v \in Workers : wpc[v] = "recheck"}}

\* InflightExact and TasksAccounted as relations between a queue, its books and
\* the datasets in the workers' hands.
Exact(q, inf, qat, held, rechecked) ==
  /\ Distinct(q)
  /\ Names(q) \cap held = {}
  /\ inf = Names(q) \cup held
  /\ qat = Names(q) \cup rechecked

\* The books as relations, in the state before and after a step.
LEMMA ExactForm ==
  /\ InflightExact <=> Exact(queue, inflight, queuedAt, Held, Rechecked)
  /\ InflightExact' <=> Exact(queue', inflight', queuedAt', Held', Rechecked')
  BY DEF InflightExact, Exact, Distinct, Rechecked, Held, Names

\* With every other worker dead, what the workers hold is what one holds.
LEMMA OneHolder ==
  ASSUME NEW pc, NEW cur, NEW w \in Workers,
         \A v \in Workers : v # w => pc[v] = "dead"
  PROVE  /\ {cur[v] : v \in {u \in Workers : pc[u] \in Holding}} =
              IF pc[w] \in Holding THEN {cur[w]} ELSE {}
         /\ {cur[v] : v \in {u \in Workers : pc[u] = "recheck"}} =
              IF pc[w] = "recheck" THEN {cur[w]} ELSE {}
         /\ Cardinality({u \in Workers : pc[u] \in Holding}) =
              IF pc[w] \in Holding THEN 1 ELSE 0
  <1>1. "dead" \notin Holding
    BY DEF Holding
  <1>2. {u \in Workers : pc[u] \in Holding} = IF pc[w] \in Holding THEN {w} ELSE {}
    BY <1>1
  <1>3. {u \in Workers : pc[u] = "recheck"} =
          IF pc[w] = "recheck" THEN {w} ELSE {}
    OBVIOUS
  <1>4. Cardinality({w}) = 1 /\ Cardinality({}) = 0
    BY FS_Singleton, FS_EmptySet
  <1>5. Cardinality({u \in Workers : pc[u] \in Holding}) =
          IF pc[w] \in Holding THEN 1 ELSE 0
    BY <1>2, <1>4
  <1> QED BY <1>2, <1>3, <1>5

\* With every worker dead nothing is held.
LEMMA NoHolder ==
  ASSUME NEW pc, NEW cur, \A v \in Workers : pc[v] = "dead"
  PROVE  /\ {cur[v] : v \in {u \in Workers : pc[u] \in Holding}} = {}
         /\ {cur[v] : v \in {u \in Workers : pc[u] = "recheck"}} = {}
         /\ Cardinality({u \in Workers : pc[u] \in Holding}) = 0
  <1>1. {u \in Workers : pc[u] \in Holding} = {}
    BY DEF Holding
  <1>2. {u \in Workers : pc[u] = "recheck"} = {}
    OBVIOUS
  <1> QED BY <1>1, <1>2, FS_EmptySet

\* Every step keeps the in-flight set and the task count exact.
LEMMA BooksStep ==
  TypeOK /\ Owned /\ InflightExact /\ TasksAccounted /\ [Next]_vars
    => InflightExact' /\ TasksAccounted'
  <1> SUFFICES ASSUME TypeOK, Owned, InflightExact, TasksAccounted, [Next]_vars
               PROVE  InflightExact' /\ TasksAccounted'
    OBVIOUS
  <1> DEFINE load == Cardinality({w \in Workers : wpc[w] \in Holding})
  <1>0. load \in {0, 1}
    <2>1. CASE \A v \in Workers : wpc[v] = "dead"
      BY <2>1, NoHolder
    <2>2. CASE \E v \in Workers : wpc[v] # "dead"
      <3>1. last \in Workers /\ \A v \in Workers : v # last => wpc[v] = "dead"
        BY <2>2 DEF Owned
      <3> QED BY <3>1, OneHolder
    <2> QED BY <2>1, <2>2
  <1> HIDE DEF load
  <1>1. /\ Exact(queue, inflight, queuedAt, Held, Rechecked)
        /\ unfinished = Len(queue) + load
    BY ExactForm DEF TasksAccounted, load
  <1>2. /\ queue \in Seq(Item) /\ Len(queue) \in Nat /\ unfinished \in Nat
    BY DEF TypeOK
  \* Steps that leave the queue, its books and the workers alone.
  <1>3. ASSUME UNCHANGED <<queue, unfinished, inflight, queuedAt, wpc, wcur>>
        PROVE  InflightExact' /\ TasksAccounted'
    BY <1>3 DEF InflightExact, TasksAccounted, Held, Names
  \* Steps that change the queue while the workers stay where they are.
  <1>4. ASSUME UNCHANGED <<wpc, wcur>>,
               Exact(queue', inflight', queuedAt', Held, Rechecked),
               unfinished' = Len(queue') + load
        PROVE  InflightExact' /\ TasksAccounted'
    <2>1. Held' = Held /\ Rechecked' = Rechecked
      BY <1>4 DEF Held, Rechecked
    <2> QED BY <1>4, <2>1, ExactForm DEF TasksAccounted, load
  \* Discarding the queue with no worker holding anything.
  <1>6. ASSUME Discard, \A w \in Workers : wpc[w] = "dead",
               \A w \in Workers : wpc'[w] \notin Holding
        PROVE  InflightExact' /\ TasksAccounted'
    <2>1. load = 0
      BY <1>6, NoHolder DEF load
    <2>2. queue' = <<>> /\ inflight' = {} /\ queuedAt' = {} /\ unfinished' = 0
      BY <1>1, <1>2, <1>6, <2>1 DEF Discard, Greatest
    <2>3. /\ {w \in Workers : wpc'[w] \in Holding} = {}
          /\ {w \in Workers : wpc'[w] = "recheck"} = {}
      BY <1>6 DEF Holding
    <2>4. Held' = {} /\ Rechecked' = {}
      BY <2>3 DEF Held, Rechecked
    <2>5. DOMAIN queue' = {} /\ Len(queue') = 0
      BY <2>2
    <2>6. Names(queue') = {} /\ Distinct(queue')
      BY <2>5 DEF Names, Distinct
    <2>7. InflightExact'
      BY <2>2, <2>4, <2>6, ExactForm DEF Exact
    <2>8. TasksAccounted'
      <3>1. Cardinality({w \in Workers : wpc'[w] \in Holding}) = 0
        BY <2>3, FS_EmptySet
      <3> QED BY <2>2, <2>5, <3>1 DEF TasksAccounted
    <2> QED BY <2>7, <2>8
  <1>5. CASE NotWorker
    <2>1. UNCHANGED <<wpc, wcur>>
      BY <1>5, OtherFrame
    <2>2. CASE MainPut
      <3>1. CASE Admit(Order[mi])
        <4> DEFINE d == Order[mi]
        <4>1. /\ queue' = Put(queue, d) /\ unfinished' = unfinished + 1
              /\ inflight' = inflight \cup {d} /\ queuedAt' = queuedAt \cup {d}
              /\ d \notin inflight
          BY <2>2, <3>1 DEF MainPut, Admit
        <4>2. d \in Lane /\ d # Sentinel /\ d \notin Names(queue) /\ d \notin Held
          BY <1>1, <4>1, OrderFacts, QueueConstants DEF Exact, TypeOK
        <4>3. Distinct(queue') /\ Names(queue') = Names(queue) \cup {d}
          <5>1. Distinct(queue)
            BY <1>1 DEF Exact
          <5>2. /\ Distinct(queue')
                /\ Names(queue') = (Names(queue) \cup {d}) \ {Sentinel}
            BY <1>2, <4>1, <4>2, <5>1, PutNames
          <5> QED BY <4>2, <5>2 DEF Names
        <4>4. Len(queue') = Len(queue) + 1
          BY <1>2, <4>1, <4>2, PutFacts
        <4>5. Exact(queue', inflight', queuedAt', Held, Rechecked)
          BY <1>1, <4>1, <4>2, <4>3 DEF Exact
        <4>6. unfinished' = Len(queue') + load
          BY <1>0, <1>1, <1>2, <4>1, <4>4
        <4> QED BY <1>4, <2>1, <4>5, <4>6
      <3>2. CASE ~Admit(Order[mi])
        BY <1>3, <2>1, <2>2, <3>2 DEF MainPut
      <3> QED BY <3>1, <3>2
    <2>3. CASE StopPut
      <3>1. /\ queue' = Put(queue, Sentinel) /\ unfinished' = unfinished + 1
            /\ UNCHANGED <<inflight, queuedAt>>
        BY <2>3 DEF StopPut
      <3>2. Distinct(queue) /\ Sentinel \notin Names(queue)
        BY <1>1 DEF Exact, Names
      <3>3. /\ Distinct(queue')
            /\ Names(queue') = (Names(queue) \cup {Sentinel}) \ {Sentinel}
        BY <1>2, <3>1, <3>2, PutNames
      <3>4. Names(queue') = Names(queue)
        BY <3>2, <3>3
      <3>5. Len(queue') = Len(queue) + 1
        BY <1>2, <3>1, PutFacts
      <3>6. Exact(queue', inflight', queuedAt', Held, Rechecked)
        BY <1>1, <3>1, <3>3, <3>4 DEF Exact
      <3>7. unfinished' = Len(queue') + load
        BY <1>0, <1>1, <1>2, <3>1, <3>5
      <3> QED BY <1>4, <2>1, <3>6, <3>7
    <2>4. CASE JoinDone
      <3>1. \A w \in Workers : wpc[w] = "dead"
        BY <2>4, NoOwner DEF JoinDone
      <3>2. \A w \in Workers : wpc'[w] \notin Holding
        BY <2>1, <3>1 DEF Holding
      <3> QED BY <2>4, <3>1, <3>2, <1>6 DEF JoinDone
    <2>5. CASE Tick
      <3>1. queue' = Aged(queue) /\ UNCHANGED <<unfinished, inflight, queuedAt>>
        BY <2>5 DEF Tick
      <3>2. Distinct(queue') /\ Names(queue') = Names(queue)
        BY <1>1, <1>2, <3>1, AgedNames DEF Exact
      <3>3. Len(queue') = Len(queue)
        BY <1>2, <3>1, AgedFacts
      <3>4. Exact(queue', inflight', queuedAt', Held, Rechecked)
        BY <1>1, <3>1, <3>2 DEF Exact
      <3> QED BY <1>1, <1>4, <2>1, <3>1, <3>3, <3>4
    <2>6. CASE UNCHANGED <<queue, unfinished, inflight, queuedAt>>
      BY <1>3, <2>1, <2>6
    <2> QED BY <1>5, <2>2, <2>3, <2>4, <2>5, <2>6 DEF NotWorker, Main, MainCheck,
               LoopBind, LoopWake, LoopExit, JoinTimeout, LoopRaise, Signal,
               Teardown, vars, queueVars
  <1>7. CASE LoopStart
    <2>1. CASE StillOwned
      BY <1>3, <1>7, <2>1 DEF LoopStart, queueVars
    <2>2. CASE ~StillOwned
      <3>1. \A w \in Workers : wpc[w] = "dead"
        BY <2>2, NoOwner DEF StillOwned
      <3>2. \A w \in Workers : wpc'[w] \notin Holding
        BY <1>7, <2>2, <3>1 DEF LoopStart, TypeOK, Holding
      <3>3. CASE stopping
        BY <1>6, <1>7, <2>2, <3>1, <3>2, <3>3 DEF LoopStart
      <3>4. CASE ~stopping
        <4>1. UNCHANGED <<queue, unfinished, inflight, queuedAt, wcur>>
          BY <1>7, <2>2, <3>4 DEF LoopStart, queueVars
        <4>2. /\ {w \in Workers : wpc[w] \in Holding} = {}
              /\ {w \in Workers : wpc'[w] \in Holding} = {}
              /\ {w \in Workers : wpc[w] = "recheck"} = {}
              /\ {w \in Workers : wpc'[w] = "recheck"} = {}
          BY <3>1, <3>2 DEF Holding
        <4>3. InflightExact'
          <5>1. Held' = Held /\ Rechecked' = Rechecked
            BY <4>1, <4>2 DEF Held, Rechecked
          <5> QED BY <1>1, <4>1, <5>1, ExactForm
        <4>4. TasksAccounted'
          BY <4>1, <4>2 DEF TasksAccounted
        <4> QED BY <4>3, <4>4
      <3> QED BY <3>3, <3>4
    <2> QED BY <2>1, <2>2
  <1>8. ASSUME NEW w \in Workers, Worker(w)
        PROVE  InflightExact' /\ TasksAccounted'
    <2> DEFINE had == IF wpc[w] \in Holding THEN {wcur[w]} ELSE {}
               has == IF wpc'[w] \in Holding THEN {wcur'[w]} ELSE {}
               chk == IF wpc[w] = "recheck" THEN {wcur[w]} ELSE {}
               chk1 == IF wpc'[w] = "recheck" THEN {wcur'[w]} ELSE {}
    <2>1. \A v \in Workers : v # w => wpc[v] = "dead" /\ wpc'[v] = "dead"
      BY <1>8, WorkerFrame DEF Owned
    <2>2. /\ Exact(queue, inflight, queuedAt, had, chk)
          /\ unfinished = Len(queue) + IF wpc[w] \in Holding THEN 1 ELSE 0
      <3>1. Held = had /\ Rechecked = chk
        <4>1. {v \in Workers : wpc[v] \in Holding} = IF wpc[w] \in Holding THEN {w} ELSE {}
          BY <2>1 DEF Holding
        <4>2. {v \in Workers : wpc[v] = "recheck"} = IF wpc[w] = "recheck" THEN {w} ELSE {}
          BY <2>1
        <4> QED BY <4>1, <4>2 DEF Held, Rechecked
      <3>2. load = IF wpc[w] \in Holding THEN 1 ELSE 0
        BY <2>1, OneHolder DEF load
      <3> QED BY <1>1, <3>1, <3>2
    <2>3. SUFFICES
            /\ Exact(queue', inflight', queuedAt', has, chk1)
            /\ unfinished' = Len(queue') + IF wpc'[w] \in Holding THEN 1 ELSE 0
      <3>1. Held' = has /\ Rechecked' = chk1
        <4>1. {v \in Workers : wpc'[v] \in Holding} = IF wpc'[w] \in Holding THEN {w} ELSE {}
          BY <2>1 DEF Holding
        <4>2. {v \in Workers : wpc'[v] = "recheck"} = IF wpc'[w] = "recheck" THEN {w} ELSE {}
          BY <2>1
        <4> QED BY <4>1, <4>2 DEF Held, Rechecked
      <3>2. Cardinality({v \in Workers : wpc'[v] \in Holding}) =
              IF wpc'[w] \in Holding THEN 1 ELSE 0
        BY <2>1, OneHolder
      <3> QED BY <2>3, <3>1, <3>2, ExactForm DEF TasksAccounted
    <2>4. wpc \in [Workers -> Holding \cup {"dead", "get"}]
          /\ wcur \in [Workers -> Lane]
      BY DEF TypeOK
    <2> USE DEF Goto
    <2>5. CASE WorkerExit(w)
      <3>1. PICK k \in DOMAIN queue :
              queue[k].name = Sentinel /\ queue' = PopAt(queue, k)
        BY <2>5 DEF WorkerExit
      <3>2. /\ wpc[w] = "get" /\ wpc'[w] = "dead"
            /\ unfinished' = Greatest(0, unfinished - 1)
            /\ UNCHANGED <<inflight, queuedAt, wcur>>
        BY <2>4, <2>5 DEF WorkerExit, TaskDone
      <3>3. Distinct(queue') /\ Names(queue') = Names(queue) \ {Sentinel}
        BY <1>2, <2>2, <3>1, PopNames DEF Exact
      <3>4. Names(queue') = Names(queue)
        BY <3>3 DEF Names
      <3>5. Len(queue') = Len(queue) - 1 /\ Len(queue) >= 1
        BY <1>2, <3>1, PopFacts
      <3>6. had = {} /\ has = {} /\ chk = {} /\ chk1 = {}
            /\ wpc[w] \notin Holding /\ wpc'[w] \notin Holding
        BY <3>2 DEF Holding
      <3>7. Exact(queue', inflight', queuedAt', has, chk1)
        BY <2>2, <3>2, <3>3, <3>4, <3>6 DEF Exact
      <3>8. unfinished' = Len(queue')
        BY <1>2, <2>2, <3>2, <3>5, <3>6 DEF Greatest
      <3> QED BY <1>2, <3>5, <3>6, <3>7, <3>8
    <2>6. CASE WorkerGet(w)
      <3>1. PICK k \in DOMAIN queue : /\ queue[k].name # Sentinel
                                      /\ queue' = PopAt(queue, k)
                                      /\ wcur' = [wcur EXCEPT ![w] = queue[k].name]
        BY <2>6 DEF WorkerGet
      <3> DEFINE n == queue[k].name
      <3>2. /\ wpc[w] = "get" /\ wpc'[w] = "recheck" /\ wcur'[w] = n
            /\ UNCHANGED <<inflight, queuedAt, unfinished>>
        BY <2>4, <2>6, <3>1 DEF WorkerGet
      <3>3. Distinct(queue') /\ Names(queue') = Names(queue) \ {n}
        BY <1>2, <2>2, <3>1, PopNames DEF Exact
      <3>4. n \in Names(queue)
        BY <3>1 DEF Names
      <3>5. Len(queue') = Len(queue) - 1 /\ Len(queue) >= 1
        BY <1>2, <3>1, PopFacts
      <3>6. had = {} /\ has = {n} /\ chk = {} /\ chk1 = {n}
            /\ wpc[w] \notin Holding /\ wpc'[w] \in Holding
        BY <3>2 DEF Holding
      <3> HIDE DEF n, had, has, chk, chk1
      <3>7. Exact(queue', inflight', queuedAt', has, chk1)
        BY <2>2, <3>2, <3>3, <3>4, <3>6 DEF Exact
      <3>8. unfinished' = Len(queue') + 1
        BY <1>2, <2>2, <3>2, <3>5, <3>6
      <3> QED BY <3>6, <3>7, <3>8
    \* The other steps leave the queue and the dequeued name alone.  Either the
    \* dataset stays in the worker's hands or it is released and counted done.
    <2>7. CASE ~WorkerExit(w) /\ ~WorkerGet(w)
      <3>1. /\ wpc[w] \in Holding /\ UNCHANGED <<queue, wcur>>
            /\ wpc'[w] # "recheck"
        BY <1>8, <2>4, <2>7 DEF Worker, WorkerRecheck, WorkerSkip, WorkerStart,
           WorkerCallback, WorkerApplySchema, WorkerRestore, WorkerBook,
           WorkerRecover, WorkerFinish, Holding, queueVars
      <3>2. \/ /\ wpc'[w] \in Holding /\ UNCHANGED <<inflight, unfinished>>
            \/ /\ wpc'[w] \notin Holding /\ TaskDone
               /\ inflight' = inflight \ {wcur[w]}
        BY <1>8, <2>4, <2>7 DEF Worker, WorkerRecheck, WorkerSkip, WorkerStart,
           WorkerCallback, WorkerApplySchema, WorkerRestore, WorkerBook,
           WorkerRecover, WorkerFinish, Holding, queueVars
      <3>3. queuedAt' = queuedAt \ chk
        BY <1>8, <2>4, <2>7 DEF Worker, WorkerRecheck, WorkerSkip, WorkerStart,
           WorkerCallback, WorkerApplySchema, WorkerRestore, WorkerBook,
           WorkerRecover, WorkerFinish, Holding, queueVars
      <3>4. had = {wcur[w]} /\ chk \subseteq had /\ chk1 = {}
        BY <3>1
      <3>5. queuedAt' = Names(queue)
        BY <2>2, <3>3, <3>4 DEF Exact
      <3>6. CASE wpc'[w] \in Holding /\ UNCHANGED <<inflight, unfinished>>
        BY <2>2, <3>1, <3>4, <3>5, <3>6 DEF Exact
      <3>7. CASE /\ wpc'[w] \notin Holding /\ TaskDone
                 /\ inflight' = inflight \ {wcur[w]}
        <4>1. has = {}
          BY <3>7
        <4>2. Exact(queue', inflight', queuedAt', has, chk1)
          BY <2>2, <3>1, <3>4, <3>5, <3>7, <4>1 DEF Exact
        <4>3. unfinished' = Len(queue')
          BY <1>2, <2>2, <3>1, <3>7 DEF TaskDone, Greatest
        <4> QED BY <1>2, <3>1, <3>7, <4>2, <4>3
      <3> QED BY <3>2, <3>6, <3>7
    <2> QED BY <2>5, <2>6, <2>7
  <1> QED BY <1>5, <1>7, <1>8, StepCases

--------------------------------------------------------------------------------
(* Theorems *)

\* The inductive invariant holds of the constructed scheduler.
LEMMA InvInit == Init => IInv
  <1> SUFFICES ASSUME Init PROVE IInv
    OBVIOUS
  <1>1. TypeOK
    BY TypeInit
  <1>2. \A w \in Workers : wpc[w] = "dead"
    BY DEF Init
  <1>3. Owned /\ Proved /\ TornDown
    BY <1>2 DEF Init, Owned, Proved, TornDown
  <1>4. DOMAIN queue = {} /\ Len(queue) = 0
    BY DEF Init
  <1>5. /\ Held = {} /\ Rechecked = {}
        /\ Cardinality({w \in Workers : wpc[w] \in Holding}) = 0
    BY <1>2, NoHolder DEF Held, Rechecked
  <1>6. Names(queue) = {} /\ Distinct(queue)
    BY <1>4 DEF Names, Distinct
  <1>7. InflightExact
    BY <1>5, <1>6, ExactForm DEF Init, Exact
  <1>8. TasksAccounted
    BY <1>4, <1>5 DEF Init, TasksAccounted
  <1> QED BY <1>1, <1>3, <1>7, <1>8 DEF IInv

\* Every step preserves the inductive invariant.
LEMMA InvStep == IInv /\ [Next]_vars => IInv'
  BY TypeStep, OwnedStep, ProvedStep, TornDownStep, BooksStep DEF IInv

\* The lane keeps its inductive invariant.
THEOREM Invariance == Spec => []IInv
  BY InvInit, InvStep, PTL DEF Spec

\* The in-flight set run_cycle consults is exactly the datasets queued or held
\* by the worker, each of them once.
THEOREM CoalescingExact == Spec => []InflightExact
  BY Invariance, PTL DEF IInv

\* join() on the queue neither hangs nor returns early.
THEOREM TaskCountExact == Spec => []TasksAccounted
  BY Invariance, PTL DEF IInv

\* Reporting statements never execute concurrently, whatever the sequence of
\* loop() calls, signals, timed-out stops and restarts.
THEOREM LaneSerialized == Spec => []SerializedLane
  <1>1. IInv => SerializedLane
    BY DEF IInv, Owned, SerializedLane
  <1> QED BY <1>1, Invariance, PTL

\* No callback runs on a schema that names its dataset incompatible.
THEOREM ContractCurrent == Spec => []NoStaleContract
  <1>1. IInv => NoStaleContract
    BY DEF IInv, Proved, NoStaleContract, Running, Reporting
  <1> QED BY <1>1, Invariance, PTL

\* main() never closes the Data Connect client under a live worker.
THEOREM CloseSafe == Spec => []NoUseAfterClose
  <1>1. IInv => NoUseAfterClose
    BY DEF IInv, TornDown, NoUseAfterClose
  <1> QED BY <1>1, Invariance, PTL

--------------------------------------------------------------------------------
(* Spacing of attempts *)

\* A reporting attempt is booked only once a schema has been proved.
Booked == \A w \in Workers :
  wpc[w] \in {"restore", "book"} => ready \/ wcur[w] = Schema

\* The deadline never precedes what the last attempt earned and never looks
\* implausibly far, so that _due cannot mistake it for a clock correction.
Spaced == \A d \in Lane :
  rest[d] <= due[d] /\ due[d] <= Greatest(1, delay[d]) + Skew

\* Snapshots are restored before any reporting dataset has earned a rest.
RestoreFirst ==
  ~ready \/ (\E w \in Workers : wpc[w] = "restore") =>
    \A d \in Reporting : rest[d] = 0

SpacingInv == IInv /\ Booked /\ Spaced /\ RestoreFirst

\* Every step preserves Booked.
LEMMA BookedStep == IInv /\ Booked /\ [Next]_vars => Booked'
  <1> SUFFICES ASSUME IInv, Booked, [Next]_vars PROVE Booked'
    OBVIOUS
  <1> USE DEF IInv
  <1>1. CASE NotWorker
    BY <1>1, OtherFrame DEF Booked, schemaVars
  <1>2. CASE LoopStart
    BY <1>2 DEF LoopStart, Booked, schemaVars, TypeOK, Workers
  <1>3. ASSUME NEW w \in Workers, Worker(w) PROVE Booked'
    <2> USE DEF Goto
    <2>1. \A v \in Workers : v # w => wpc'[v] = "dead"
      BY <1>3, WorkerFrame DEF Owned
    <2>2. SUFFICES wpc'[w] \in {"restore", "book"} => ready' \/ wcur'[w] = Schema
      BY <2>1 DEF Booked
    <2>3. CASE WorkerCallback(w)
      BY <2>3 DEF WorkerCallback, Proved, schemaVars
    <2>4. CASE WorkerApplySchema(w)
      BY <2>4 DEF WorkerApplySchema
    <2>5. CASE WorkerRestore(w)
      BY <2>5 DEF WorkerRestore, Booked, schemaVars
    <2>6. CASE ~WorkerCallback(w) /\ ~WorkerApplySchema(w) /\ ~WorkerRestore(w)
      <3>1. wpc'[w] \notin {"restore", "book"}
        BY <1>3, <2>6 DEF Worker, WorkerExit, WorkerGet, WorkerRecheck, WorkerSkip,
           WorkerStart, WorkerBook, WorkerRecover, WorkerFinish, TypeOK
      <3> QED BY <3>1
    <2> QED BY <2>3, <2>4, <2>5, <2>6
  <1> QED BY <1>1, <1>2, <1>3, StepCases

\* The steps that move a deadline.
LEMMA ScheduleFrame ==
  ASSUME TypeOK, [Next]_vars
  PROVE  \/ UNCHANGED <<due, delay, rest>>
         \/ Tick
         \/ \E w \in Workers : WorkerRestore(w)
         \/ \E w \in Workers, ok \in BOOLEAN, n \in 0..MaxFailures :
              /\ WorkerBook(w) \/ WorkerRecover(w)
              /\ Reschedule(wcur[w], ok, n)
  <1>1. CASE NotWorker \/ LoopStart
    BY <1>1 DEF NotWorker, LoopStart, Main, MainCheck, MainPut, LoopBind, LoopWake,
       LoopExit, StopPut, JoinDone, JoinTimeout, LoopRaise, Signal, Teardown, vars,
       scheduleVars
  <1>2. ASSUME NEW w \in Workers, WorkerBook(w)
        PROVE  \E ok \in BOOLEAN, n \in 0..MaxFailures :
                 Reschedule(wcur[w], ok, n)
    <2>1. wok[w] \in BOOLEAN /\ fails[wcur[w]] \in 0..MaxFailures
      BY DEF TypeOK
    <2> QED BY <1>2, <2>1 DEF WorkerBook
  <1>3. ASSUME NEW w \in Workers, WorkerRecover(w)
        PROVE  \E ok \in BOOLEAN, n \in 0..MaxFailures :
                 Reschedule(wcur[w], ok, n)
    <2>1. wcur[w] \in Lane /\ fails[wcur[w]] \in 0..MaxFailures
      BY DEF TypeOK
    <2>2. Bump(fails[wcur[w]]) \in 0..MaxFailures
      BY <2>1, RetryFacts
    <2> QED BY <1>3, <2>2 DEF WorkerRecover
  <1>4. ASSUME NEW w \in Workers, Worker(w)
        PROVE  \/ UNCHANGED <<due, delay, rest>>
               \/ WorkerRestore(w) \/ WorkerBook(w) \/ WorkerRecover(w)
    BY <1>4 DEF Worker, WorkerExit, WorkerGet, WorkerRecheck, WorkerSkip,
       WorkerStart, WorkerCallback, WorkerApplySchema, WorkerFinish, scheduleVars
  <1> QED BY <1>1, <1>2, <1>3, <1>4, StepCases

\* Every step keeps the earned rest behind the deadline.
LEMMA SpacedStep ==
  IInv /\ Spaced /\ RestoreFirst /\ [Next]_vars => Spaced'
  <1> SUFFICES ASSUME IInv, Spaced, RestoreFirst, [Next]_vars,
                      NEW d \in Lane
               PROVE  /\ rest'[d] <= due'[d]
                      /\ due'[d] <= Greatest(1, delay'[d]) + Skew
    BY DEF Spaced, Greatest
  <1>0. /\ due \in [Lane -> Nat] /\ rest \in [Lane -> Nat] /\ delay \in [Lane -> Nat]
        /\ rest[d] <= due[d] /\ due[d] <= Greatest(1, delay[d]) + Skew
        /\ Skew \in Nat /\ Interval[d] \in Nat /\ Interval[d] > 0
    BY NumberFacts DEF IInv, TypeOK, Spaced
  <1>1. CASE UNCHANGED <<due, delay, rest>>
    BY <1>0, <1>1
  <1>2. CASE Tick
    <2>1. /\ due'[d] = IF due[d] > 0 THEN due[d] - 1 ELSE 0
          /\ rest'[d] = IF rest[d] > 0 THEN rest[d] - 1 ELSE 0
          /\ delay'[d] = delay[d]
      BY <1>2 DEF Tick, Countdown
    <2>2. due[d] \in Nat /\ rest[d] \in Nat /\ Greatest(1, delay[d]) \in Nat
      BY <1>0 DEF Greatest
    <2> QED BY <1>0, <2>1, <2>2
  <1>3. ASSUME NEW w \in Workers, WorkerRestore(w)
        PROVE  /\ rest'[d] <= due'[d]
               /\ due'[d] <= Greatest(1, delay'[d]) + Skew
    <2>1. PICK R \in SUBSET (Reporting \ failures) :
            \E left \in [R -> UNION {Remaining(e) : e \in R}] :
              /\ \A e \in R : left[e] \in Remaining(e)
              /\ due' = [e \in Lane |-> IF e \in R THEN left[e] ELSE due[e]]
              /\ delay' = [e \in Lane |->
                             IF e \in R THEN Interval[e] ELSE delay[e]]
      BY <1>3 DEF WorkerRestore
    <2>2. PICK left \in [R -> UNION {Remaining(e) : e \in R}] :
            /\ \A e \in R : left[e] \in Remaining(e)
            /\ due' = [e \in Lane |-> IF e \in R THEN left[e] ELSE due[e]]
            /\ delay' = [e \in Lane |->
                           IF e \in R THEN Interval[e] ELSE delay[e]]
      BY <2>1
    <2>3. rest' = rest /\ \A e \in Reporting : rest[e] = 0
      BY <1>3 DEF WorkerRestore, RestoreFirst
    <2>4. CASE d \in R
      <3>1. due'[d] = left[d] /\ delay'[d] = Interval[d] /\ rest'[d] = 0
        BY <2>2, <2>3, <2>4
      <3>2. left[d] \in 0..(Interval[d] + Skew)
        BY <2>2, <2>4 DEF Remaining
      <3> QED BY <1>0, <3>1, <3>2 DEF Greatest
    <2>5. CASE d \notin R
      BY <1>0, <2>2, <2>3, <2>5
    <2> QED BY <2>4, <2>5
  <1>4. ASSUME NEW w \in Workers, NEW ok \in BOOLEAN, NEW n \in 0..MaxFailures,
               Reschedule(wcur[w], ok, n)
        PROVE  /\ rest'[d] <= due'[d]
               /\ due'[d] <= Greatest(1, delay'[d]) + Skew
    <2>1. TypeOK /\ wcur[w] \in Lane
      BY DEF IInv, TypeOK
    <2>2. CASE d = wcur[w]
      <3>1. delay'[d] \in Nat /\ due'[d] = delay'[d] /\ rest'[d] <= due'[d]
        BY <1>4, <2>1, <2>2, ScheduleFacts
      <3> QED BY <1>0, <3>1 DEF Greatest
    <2>3. CASE d # wcur[w]
      BY <1>0, <1>4, <2>1, <2>3, ScheduleFacts
    <2> QED BY <2>2, <2>3
  <1>5. TypeOK
    BY DEF IInv
  <1> QED BY <1>1, <1>2, <1>3, <1>4, <1>5, ScheduleFrame

\* Every step preserves RestoreFirst.
LEMMA RestoreFirstStep ==
  IInv /\ Booked /\ RestoreFirst /\ [Next]_vars => RestoreFirst'
  <1> SUFFICES ASSUME IInv, Booked, RestoreFirst, [Next]_vars,
                      ~ready' \/ \E w \in Workers : wpc'[w] = "restore",
                      NEW d \in Reporting
               PROVE  rest'[d] = 0
    BY DEF RestoreFirst
  <1> USE DEF Goto
  <1>0. TypeOK /\ d \in Lane /\ d # Schema
    BY DEF IInv, Reporting
  \* Nothing makes the schema unproved again, and restoring starts unproved.
  <1>1. ~ready \/ \E w \in Workers : wpc[w] = "restore"
    <2>1. CASE NotWorker
      BY <2>1, OtherFrame DEF schemaVars
    <2>2. CASE LoopStart
      BY <2>2, <1>0 DEF LoopStart, schemaVars, TypeOK
    <2>3. ASSUME NEW w \in Workers, Worker(w)
          PROVE  ~ready \/ \E v \in Workers : wpc[v] = "restore"
      <3>1. CASE WorkerApplySchema(w)
        <4>1. ready' = TRUE
          BY <3>1 DEF WorkerApplySchema
        <4>2. PICK v \in Workers : wpc'[v] = "restore"
          BY <4>1
        <4>3. CASE v = w
          BY <1>0, <3>1, <4>2, <4>3 DEF WorkerApplySchema, TypeOK
        <4>4. CASE v # w
          BY <1>0, <2>3, <4>2, <4>4, WorkerFrame
        <4> QED BY <4>3, <4>4
      <3>2. CASE ~WorkerApplySchema(w)
        <4>1. ready' = ready /\ wpc'[w] # "restore"
          BY <1>0, <2>3, <3>2 DEF Worker, WorkerExit, WorkerGet, WorkerRecheck,
             WorkerSkip, WorkerStart, WorkerCallback, WorkerRestore, WorkerBook,
             WorkerRecover, WorkerFinish, TypeOK, schemaVars
        <4> QED BY <1>0, <2>3, <4>1, WorkerFrame
      <3> QED BY <3>1, <3>2
    <2> QED BY <2>1, <2>2, <2>3, StepCases
  <1>2. rest[d] = 0
    BY <1>1 DEF RestoreFirst
  <1>3. CASE UNCHANGED <<due, delay, rest>>
    BY <1>2, <1>3
  <1>4. CASE Tick
    BY <1>0, <1>2, <1>4 DEF Tick, Countdown
  <1>5. ASSUME NEW w \in Workers, WorkerRestore(w) PROVE rest'[d] = 0
    BY <1>2, <1>5 DEF WorkerRestore
  <1>6. ASSUME NEW w \in Workers, NEW ok \in BOOLEAN, NEW n \in 0..MaxFailures,
               WorkerBook(w) \/ WorkerRecover(w), Reschedule(wcur[w], ok, n)
        PROVE  rest'[d] = 0
    <2>1. wpc[w] \in {"start", "book"}
      BY <1>6 DEF WorkerBook, WorkerRecover
    <2>2. \A v \in Workers : v # w => wpc[v] = "dead"
      BY <2>1 DEF IInv, Owned
    <2>3. ~ready
      BY <1>1, <2>1, <2>2
    <2>4. wcur[w] = Schema
      BY <2>1, <2>3 DEF Booked, IInv, Proved
    <2>5. wcur[w] \in Lane
      BY <1>0 DEF TypeOK
    <2> QED BY <1>0, <1>2, <1>6, <2>4, <2>5, ScheduleFacts
  <1> QED BY <1>0, <1>3, <1>4, <1>5, <1>6, ScheduleFrame

\* The spacing invariant holds of the constructed scheduler.
LEMMA SpacingInit == Init => SpacingInv
  <1> SUFFICES ASSUME Init PROVE SpacingInv
    OBVIOUS
  <1>1. IInv
    BY InvInit
  <1>2. Booked /\ RestoreFirst
    BY DEF Init, Booked, RestoreFirst, Reporting
  <1>3. Spaced
    <2> SUFFICES ASSUME NEW d \in Lane
                 PROVE  rest[d] <= due[d] /\ due[d] <= Greatest(1, delay[d]) + Skew
      BY DEF Spaced
    <2>1. rest[d] = 0 /\ due[d] = 0 /\ delay[d] = Interval[d]
      BY DEF Init
    <2>2. Interval[d] \in Nat /\ Skew \in Nat
      BY NumberFacts
    <2> QED BY <2>1, <2>2 DEF Greatest
  <1> QED BY <1>1, <1>2, <1>3 DEF SpacingInv

\* Every step preserves the spacing invariant.
LEMMA SpacingStep == SpacingInv /\ [Next]_vars => SpacingInv'
  BY InvStep, BookedStep, SpacedStep, RestoreFirstStep DEF SpacingInv

\* An attempt that begins has served the whole delay its predecessor earned,
\* for every cadence, retry bound and schedule of the two threads.
THEOREM AttemptsSpaced == Spec => RetrySpacing
  <1>1. SpacingInv => \A w \in Workers : WorkerStart(w) => rest[wcur[w]] = 0
    <2> SUFFICES ASSUME SpacingInv, NEW w \in Workers, WorkerStart(w)
                 PROVE  rest[wcur[w]] = 0
      OBVIOUS
    <2> DEFINE d == wcur[w]
    <2>1. d \in Lane /\ due[d] \in Nat /\ rest[d] \in Nat /\ delay[d] \in Nat
      BY DEF SpacingInv, IInv, TypeOK
    <2>2. rest[d] <= due[d] /\ due[d] <= Greatest(1, delay[d]) + Skew
      BY <2>1 DEF SpacingInv, Spaced
    <2>3. due[d] = 0 \/ due[d] > Greatest(1, delay[d]) + Skew
      BY DEF WorkerStart, Due
    <2>4. Greatest(1, delay[d]) + Skew \in Nat
      BY <2>1, NumberFacts DEF Greatest
    <2> QED BY <2>1, <2>2, <2>3, <2>4
  <1>2. Spec => []SpacingInv
    BY SpacingInit, SpacingStep, PTL DEF Spec
  <1>3. SpacingInv /\ [Next]_vars =>
          [\A w \in Workers : WorkerStart(w) => rest[wcur[w]] = 0]_vars
    BY <1>1
  <1> QED BY <1>2, <1>3, PTL DEF Spec, RetrySpacing

--------------------------------------------------------------------------------
(* Aging bounds every wait *)

\* loop() runs and wants work done.
Serving == mpc \in {"bind", "check", "put", "sleep"} /\ ~evt /\ ~stopping

\* A sentinel, and work without a worker, are only there while the lane stops; a
\* service is timed only while a worker holds the dataset.
Attended ==
  /\ mpc = "join" => stopping
  /\ ~stopping => \A i \in DOMAIN queue : queue[i].name # Sentinel
  /\ mpc = "off" /\ ~stopping => queue = <<>> /\ ~async
  /\ Serving => bound /\ Alive
  /\ svc <= MaxService
  /\ svc > 0 => \E w \in Workers : wpc[w] \in Holding \ {"recheck"}

\* The datasets get() would return before the item at position i.
Before(q, i) == {q[j].name : j \in {k \in DOMAIN q \ {i} : Precedes(q, k, i)}}

\* What an item has waited, and what those ahead of it may still take, is within
\* its bound, with H in the worker's hands for s ticks.
Timely(q, H, s, i) ==
  q[i].age + Cardinality(Before(q, i) \cup H) * MaxService <= MaxWait(q[i].name) + s

Patient == Serving => \A i \in DOMAIN queue : Timely(queue, Held, svc, i)

\* Multiplication by a natural number, as far as it is needed.
LEMMA Scaling ==
  /\ \A a \in Nat, x, y \in Int : (x - y) * a = x * a - y * a
  /\ \A a \in Nat, x, y \in Int : x <= y => x * a <= y * a
  /\ \A a \in Nat, x \in Int : x * a \in Int /\ (x + 1) * a = x * a + a
  /\ \A a, x \in Nat : x * a \in Nat
  <1>1. \A a \in Nat, x, y \in Int : (x - y) * a = x * a - y * a
    OBVIOUS
  <1>2. \A a \in Nat, x, y \in Int : x <= y => x * a <= y * a
    OBVIOUS
  <1>3. \A a \in Nat, x \in Int : x * a \in Int /\ (x + 1) * a = x * a + a
    OBVIOUS
  <1>4. \A a, x \in Nat : x * a \in Nat
    OBVIOUS
  <1> QED BY <1>1, <1>2, <1>3, <1>4

\* The number of datasets, and the most a dataset can be overtaken.
LEMMA BoundFacts ==
  /\ IsFiniteSet(Lane) /\ Cardinality(Lane) \in Nat \ {0}
  /\ \A d \in Lane : Overtaken(d) \in Nat /\ MaxWait(d) \in Nat /\ MaxWait(d) < AgeCap
  <1>1. IsFiniteSet(Lane) /\ Schema \in Lane
    BY LaneConstants
  <1>2. Cardinality(Lane) \in Nat /\ Cardinality(Lane) # 0
    BY <1>1, FS_CardinalityType, FS_EmptySet
  <1>3. ASSUME NEW d \in Lane
        PROVE  Overtaken(d) \in Nat /\ MaxWait(d) \in Nat /\ MaxWait(d) < AgeCap
    <2>1. /\ Priority[d] - Priority[Schema] \in Nat /\ AgingLevel \in Nat
          /\ Cardinality(Lane) - 1 \in Nat /\ MaxService \in Nat
      BY <1>1, <1>2, LaneConstants, QueueConstants
    <2>2. Overtaken(d) \in Nat
      BY <2>1, Scaling DEF Overtaken
    <2>3. (Cardinality(Lane) - 1) * MaxService \in Nat
      BY <2>1, Scaling
    <2> QED BY <2>2, <2>3, AgesCounted DEF MaxWait
  <1> QED BY <1>1, <1>2, <1>3

\* A queue of datasets only, each of them once.
Plain(q) ==
  /\ q \in Seq(Item) /\ Distinct(q)
  /\ \A i \in DOMAIN q : q[i].name # Sentinel

LEMMA PlainFacts ==
  ASSUME NEW q, Plain(q), NEW i \in DOMAIN q
  PROVE  /\ Len(q) \in Nat /\ DOMAIN q = 1..Len(q) /\ i \in 1..Len(q)
         /\ q[i].name \in Lane /\ q[i].age \in Nat /\ q[i].age <= AgeCap
         /\ Priority[q[i].name] \in Int /\ Effective(q[i]) \in Int
         /\ \A j \in DOMAIN q : j # i => q[j].name # q[i].name
  <1>1. /\ q \in Seq(Item) /\ Len(q) \in Nat /\ DOMAIN q = 1..Len(q) /\ q[i] \in Item
        /\ q[i].name # Sentinel
    BY DEF Plain
  <1>2. q[i].name \in Lane /\ q[i].age \in Nat /\ q[i].age <= AgeCap
    BY <1>1, QueueConstants DEF Item
  <1>3. Priority[q[i].name] \in Int /\ AgingLevel \in Nat
    BY <1>2, QueueConstants
  <1>4. Effective(q[i]) \in Int
    BY <1>2, <1>3, Scaling DEF Effective
  <1> QED BY <1>1, <1>2, <1>3, <1>4 DEF Plain, Distinct

\* What is ahead of an item is some of the other datasets.
LEMMA AheadFacts ==
  ASSUME NEW q, Plain(q), NEW H, H \subseteq Lane, Names(q) \cap H = {}, NEW i \in DOMAIN q
  PROVE  /\ Before(q, i) \cup H \subseteq Lane \ {q[i].name}
         /\ IsFiniteSet(Before(q, i) \cup H)
         /\ Cardinality(Before(q, i) \cup H) \in Nat
         /\ Cardinality(Before(q, i) \cup H) <= Cardinality(Lane) - 1
  <1>1. q[i].name \in Names(q) /\ q[i].name \in Lane
    BY PlainFacts DEF Names, Plain
  <1>2. Before(q, i) \subseteq Lane \ {q[i].name}
    BY PlainFacts DEF Before
  <1>3. Before(q, i) \cup H \subseteq Lane \ {q[i].name}
    BY <1>1, <1>2
  <1>4. /\ IsFiniteSet(Lane \ {q[i].name})
        /\ Cardinality(Lane \ {q[i].name}) = Cardinality(Lane) - 1
    BY <1>1, BoundFacts, FS_RemoveElement
  <1> QED BY <1>3, <1>4, FS_Subset, FS_CardinalityType

\* Until an item has waited out what can overtake it, it is in time.
LEMMA Young ==
  ASSUME NEW q, Plain(q), NEW H, H \subseteq Lane, Names(q) \cap H = {}, NEW i \in DOMAIN q,
         q[i].age <= Overtaken(q[i].name)
  PROVE  q[i].age + Cardinality(Before(q, i) \cup H) * MaxService <= MaxWait(q[i].name)
  <1> DEFINE c == Cardinality(Before(q, i) \cup H)
             n == Cardinality(Lane) - 1
  <1>0. c \in Nat /\ c <= n
    BY AheadFacts
  <1>1. n \in Nat /\ MaxService \in Nat
    BY BoundFacts, NumberFacts
  <1>2. c * MaxService \in Nat /\ n * MaxService \in Nat /\ c * MaxService <= n * MaxService
    BY <1>0, <1>1, Scaling
  <1>3. q[i].age \in Nat /\ Overtaken(q[i].name) \in Nat
    BY PlainFacts, BoundFacts
  <1>4. MaxWait(q[i].name) = Overtaken(q[i].name) + n * MaxService
    BY DEF MaxWait
  <1> HIDE DEF c, n
  <1>5. q[i].age + c * MaxService <= MaxWait(q[i].name)
    BY <1>2, <1>3, <1>4
  <1> QED BY <1>5 DEF c

\* put(): what has waited long enough is not overtaken by new work.
LEMMA BeforePut ==
  ASSUME NEW q, Plain(q), NEW e \in Lane, NEW i \in DOMAIN q,
         q[i].age > Overtaken(q[i].name)
  PROVE  Before(Put(q, e), i) = Before(q, i)
  <1> DEFINE p == Put(q, e)
             n == Len(q) + 1
  <1>1. /\ Len(p) = n /\ DOMAIN p = 1..n /\ DOMAIN q = 1..Len(q) /\ Len(q) \in Nat
        /\ \A j \in 1..Len(q) : p[j] = q[j]
        /\ p[n] = [name |-> e, age |-> 0]
    BY PutFacts, PlainFacts DEF Plain, Put
  <1>2. ~Precedes(p, n, i)
    <2> DEFINE r == Priority[q[i].name]
               s == Priority[Schema]
               t == Priority[e]
    <2>1. r \in Int /\ s \in Int /\ t \in Int /\ s <= t /\ AgingLevel \in Nat /\ q[i].age \in Nat
      BY PlainFacts, LaneConstants, QueueConstants
    <2>2. Effective(p[n]) = t * AgingLevel - 0 /\ Effective(p[i]) = r * AgingLevel - q[i].age
      BY <1>1 DEF Effective
    <2>3. Overtaken(q[i].name) = r * AgingLevel - s * AgingLevel
      BY <2>1, Scaling DEF Overtaken
    <2>4. /\ s * AgingLevel \in Int /\ t * AgingLevel \in Int /\ r * AgingLevel \in Int
          /\ s * AgingLevel <= t * AgingLevel
      BY <2>1, Scaling
    <2> HIDE DEF r, s, t
    <2>5. /\ Effective(p[n]) \in Int /\ Effective(p[i]) \in Int
          /\ Effective(p[i]) < Effective(p[n])
      BY <2>1, <2>2, <2>3, <2>4
    <2> QED BY <2>5 DEF Precedes
  <1>3. \A j \in DOMAIN q : Precedes(p, j, i) <=> Precedes(q, j, i)
    BY <1>1 DEF Precedes
  <1> HIDE DEF p
  <1>4. Before(p, i) = Before(q, i)
    <2>1. DOMAIN p = DOMAIN q \cup {n} /\ n \notin DOMAIN q /\ n # i
      BY <1>1
    <2>2. {k \in DOMAIN p \ {i} : Precedes(p, k, i)} = {k \in DOMAIN q \ {i} : Precedes(q, k, i)}
      BY <1>2, <1>3, <2>1
    <2> QED BY <1>1, <2>2 DEF Before
  <1> QED BY <1>4 DEF p
\* get(): the item taken was ahead of every item left.
LEMMA BeforePop ==
  ASSUME NEW q, Plain(q), NEW k \in DOMAIN q, IsBest(q, k), NEW i \in DOMAIN PopAt(q, k)
  PROVE  \E j \in DOMAIN q : /\ j # k /\ PopAt(q, k)[i] = q[j]
                             /\ Before(PopAt(q, k), i) \cup {q[k].name} \subseteq Before(q, j)
  <1> DEFINE p == PopAt(q, k)
             m(x) == IF x < k THEN x ELSE x + 1
  <1>1. /\ Len(q) \in Nat /\ DOMAIN q = 1..Len(q) /\ k \in 1..Len(q)
        /\ DOMAIN p = 1..(Len(q) - 1)
        /\ \A x \in 1..(Len(q) - 1) : p[x] = IF x < k THEN q[x] ELSE q[x + 1]
    BY PopFacts, PlainFacts DEF Plain, PopAt
  <1> HIDE DEF p
  <1>2. \A x \in DOMAIN p : m(x) \in DOMAIN q /\ m(x) # k /\ p[x] = q[m(x)]
    BY <1>1
  <1>3. \A x, y \in DOMAIN p : (x < y <=> m(x) < m(y)) /\ (x # y => m(x) # m(y))
    BY <1>1
  <1> HIDE DEF m
  <1>4. i \in DOMAIN p
    BY DEF p
  <1>5. \A x, y \in DOMAIN p : Precedes(p, x, y) => Precedes(q, m(x), m(y))
    BY <1>2, <1>3 DEF Precedes
  <1>6. Before(p, i) \subseteq Before(q, m(i))
    BY <1>2, <1>3, <1>4, <1>5 DEF Before
  <1>7. q[k].name \in Before(q, m(i))
    <2>1. ~ \E x \in DOMAIN q : q[x].name = Sentinel
      BY DEF Plain
    <2>2. Precedes(q, k, m(i))
      BY <1>2, <1>4, <2>1 DEF IsBest
    <2> QED BY <1>2, <1>4, <2>2 DEF Before
  <1> QED BY <1>2, <1>4, <1>6, <1>7 DEF p

\* Time passes for all items alike, as long as none is at the cap.
LEMMA BeforeAged ==
  ASSUME NEW q, Plain(q), \A j \in DOMAIN q : q[j].age < AgeCap, NEW i \in DOMAIN q
  PROVE  /\ DOMAIN Aged(q) = DOMAIN q
         /\ Aged(q)[i].name = q[i].name /\ Aged(q)[i].age = q[i].age + 1
         /\ Before(Aged(q), i) = Before(q, i)
  <1> DEFINE p == Aged(q)
  <1>1. /\ DOMAIN p = DOMAIN q
        /\ \A j \in DOMAIN q : p[j].name = q[j].name /\ p[j].age = q[j].age + 1
    BY DEF Aged, Older
  <1> HIDE DEF p
  <1>2. \A j \in DOMAIN q : Effective(p[j]) = Effective(q[j]) - 1 /\ Effective(q[j]) \in Int
    <2> SUFFICES ASSUME NEW j \in DOMAIN q
                 PROVE  Effective(p[j]) = Effective(q[j]) - 1 /\ Effective(q[j]) \in Int
      OBVIOUS
    <2> DEFINE x == Priority[q[j].name] * AgingLevel
    <2>1. x \in Int /\ q[j].age \in Nat /\ Effective(q[j]) \in Int
      BY PlainFacts, Scaling, QueueConstants
    <2>2. Effective(p[j]) = x - (q[j].age + 1) /\ Effective(q[j]) = x - q[j].age
      BY <1>1 DEF Effective
    <2> HIDE DEF x
    <2> QED BY <2>1, <2>2
  <1>3. \A j \in DOMAIN q : Precedes(p, j, i) <=> Precedes(q, j, i)
    <2> SUFFICES ASSUME NEW j \in DOMAIN q PROVE Precedes(p, j, i) <=> Precedes(q, j, i)
      OBVIOUS
    <2>1. /\ Effective(p[j]) < Effective(p[i]) <=> Effective(q[j]) < Effective(q[i])
          /\ Effective(p[j]) = Effective(p[i]) <=> Effective(q[j]) = Effective(q[i])
      BY <1>2
    <2> QED BY <1>1, <2>1 DEF Precedes
  <1>4. Before(p, i) = Before(q, i)
    <2>1. {k \in DOMAIN p \ {i} : Precedes(p, k, i)} = {k \in DOMAIN q \ {i} : Precedes(q, k, i)}
      BY <1>1, <1>3
    <2> QED BY <1>1, <2>1 DEF Before
  <1> QED BY <1>1, <1>4 DEF p
\* Steps outside the workers keep the lane attended.
LEMMA OthersAttend ==
  ASSUME IInv, IInv', Attended, NotWorker
  PROVE  Attended'
  <1> USE NumberFacts
  <1>1. UNCHANGED <<last, wpc>>
    BY OtherFrame
  <1>2. CASE Tick
    <2>1. UNCHANGED <<mpc, evt, bound, stopping, async>> /\ queue' = Aged(queue)
      BY <1>2 DEF Tick, loopVars
    <2>2. /\ DOMAIN queue' = DOMAIN queue
          /\ \A i \in DOMAIN queue : queue'[i].name = queue[i].name
          /\ queue = <<>> => queue' = <<>>
      BY <2>1 DEF Aged
    <2>3. svc' <= MaxService /\ (svc' > 0 => \E w \in Workers : wpc[w] \in Holding \ {"recheck"})
      <3>1. CASE \E w \in Workers : InService(w)
        <4>1. PICK w \in Workers : InService(w)
          BY <3>1
        <4>2. svc' = svc + 1 /\ svc < MaxService
          BY <1>2, <4>1 DEF Tick
        <4>3. svc \in Nat
          BY DEF IInv, TypeOK
        <4>4. wpc[w] \in Holding \ {"recheck"}
          BY <4>1 DEF InService, Holding
        <4> QED BY <4>2, <4>3, <4>4
      <3>2. CASE ~ \E w \in Workers : InService(w)
        BY <1>2, <3>2 DEF Tick, Attended
      <3> QED BY <3>1, <3>2
    <2> QED BY <1>1, <2>1, <2>2, <2>3 DEF Attended, Serving, Alive
  <1>3. CASE ~Tick
    <2>1. svc' = svc
      BY <1>3 DEF NotWorker, Main, MainCheck, MainPut, LoopBind, LoopWake, LoopExit, StopPut,
             JoinDone, JoinTimeout, LoopRaise, Signal, Teardown, vars, workerVars
    <2>2. CASE MainPut
      <3>1. /\ mpc = "put" /\ mpc' \in {"check", "sleep"}
            /\ UNCHANGED <<evt, bound, stopping, async>>
            /\ queue' = queue \/ \E d \in Lane : queue' = Put(queue, d)
        BY <2>2, OrderFacts DEF MainPut, NextDataset, IInv, TypeOK
      <3>2. ASSUME ~stopping, NEW i \in DOMAIN queue' PROVE queue'[i].name # Sentinel
        <4>1. CASE queue' = queue
          BY <3>2, <4>1 DEF Attended
        <4>2. ASSUME NEW d \in Lane, queue' = Put(queue, d) PROVE queue'[i].name # Sentinel
          <5>1. /\ Len(queue') = Len(queue) + 1 /\ queue'[Len(queue) + 1].name = d
                /\ \A j \in 1..Len(queue) : queue'[j] = queue[j]
            <6>1. queue \in Seq(Item) /\ d \in Lane \cup {Sentinel}
              BY DEF IInv, TypeOK
            <6> QED BY <4>2, <6>1, PutFacts
          <5>2. /\ DOMAIN queue = 1..Len(queue) /\ Len(queue) \in Nat
                /\ DOMAIN queue' = 1..Len(queue')
            BY DEF IInv, TypeOK
          <5>3. i \in 1..Len(queue) \/ i = Len(queue) + 1
            BY <3>2, <5>1, <5>2
          <5> QED BY <3>2, <5>1, <5>2, <5>3, QueueConstants DEF Attended
        <4> QED BY <3>1, <4>1, <4>2
      <3> QED BY <1>1, <2>1, <3>1, <3>2 DEF Attended, Serving, Alive
    <2>3. CASE StopPut
      BY <1>1, <2>1, <2>3 DEF StopPut, Attended, Serving
    <2>4. CASE JoinDone
      BY <1>1, <2>1, <2>4 DEF JoinDone, Discard, Attended, Serving
    <2>5. CASE ~(MainPut \/ StopPut \/ JoinDone)
      <3>1. /\ UNCHANGED <<queue, stopping, async>> /\ (bound' = bound \/ bound' = TRUE)
            /\ mpc' = mpc \/ mpc' \in {"check", "sleep", "put", "stop"} \/ (mpc = "join" /\ mpc' = "off")
            /\ evt' = evt \/ evt' = TRUE
            /\ mpc' \in {"check", "sleep", "put"} => mpc \in {"bind", "check", "put", "sleep"}
        BY <1>3, <2>5 DEF NotWorker, Main, MainCheck, LoopBind, LoopWake, LoopExit,
             JoinTimeout, LoopRaise, Signal, Teardown, NextDataset, vars, queueVars, loopVars
      <3> QED BY <1>1, <2>1, <3>1 DEF Attended, Serving, Alive
    <2> QED BY <2>2, <2>3, <2>4, <2>5
  <1> QED BY <1>2, <1>3

\* A restart of loop() drops what a stopped lane has left, and waits while its
\* worker lives.
LEMMA StartAttends ==
  ASSUME IInv, Attended, LoopStart
  PROVE  Attended' /\ (~stopping' => queue' = <<>>)
  <1> USE NumberFacts
  <1>1. mpc = "off" /\ mpc' = "bind" /\ svc' = svc
    BY DEF LoopStart
  <1>2. CASE StillOwned
    <2>1. UNCHANGED <<queue, stopping, wpc>> /\ stopping
      BY <1>1, <1>2 DEF LoopStart, StillOwned, queueVars, Attended
    <2> QED BY <1>1, <2>1 DEF Attended, Serving
  <1>3. CASE ~StillOwned
    <2>1. /\ bound' = TRUE /\ last' = loops + 1 /\ loops + 1 \in Workers
          /\ wpc' = [wpc EXCEPT ![loops + 1] = "get"]
          /\ queue' = <<>>
      <3>1. loops \in Nat /\ loops < MaxLoops
        BY DEF LoopStart, IInv, TypeOK
      <3>2. loops + 1 \in Workers
        BY <3>1 DEF Workers
      <3>3. /\ bound' = TRUE /\ last' = loops + 1
            /\ wpc' = [wpc EXCEPT ![loops + 1] = "get"]
        BY <1>3 DEF LoopStart
      <3>4. queue' = <<>>
        <4>1. CASE stopping
          BY <1>3, <4>1 DEF LoopStart, Discard
        <4>2. CASE ~stopping
          BY <1>1, <1>3, <4>2 DEF LoopStart, queueVars, Attended
        <4> QED BY <4>1, <4>2
      <3> QED BY <3>2, <3>3, <3>4
    <2>2. wpc'[last'] = "get" /\ last' # 0
      BY <2>1 DEF IInv, TypeOK
    <2>3. \A w \in Workers : wpc[w] = "dead"
      BY <1>3, NoOwner DEF StillOwned, IInv
    <2>4. ~(svc > 0)
      BY <2>3 DEF Attended, Holding
    <2> QED BY <1>1, <2>1, <2>2, <2>4 DEF Attended, Alive, Serving
  <1> QED BY <1>2, <1>3

\* Workers keep the lane attended: they leave it only by a sentinel or the event.
LEMMA WorkersAttend ==
  ASSUME IInv, IInv', Attended, NEW w \in Workers, Worker(w)
  PROVE  Attended'
  <1> USE NumberFacts
  <1>1. /\ wpc[w] # "dead" /\ w = last /\ \A v \in Workers : v # w => wpc[v] = "dead"
        /\ UNCHANGED <<mpc, evt, bound, async, stopping, last>>
    BY WorkerFrame DEF IInv, Owned, loopVars
  <1>2. svc > 0 => wpc[w] \in Holding \ {"recheck"}
    BY <1>1 DEF Attended, Holding
  <1>3. /\ svc' = svc \/ svc' = 0
        /\ svc' > 0 => wpc'[w] \in Holding \ {"recheck"}
    <2>1. CASE wpc[w] \in {"get", "recheck"}
      <3>1. svc = 0
        <4>1. svc \in Nat /\ ~(svc > 0)
          BY <1>2, <2>1 DEF Holding, IInv, TypeOK
        <4> QED BY <4>1
      <3>2. svc' = svc
        BY <2>1 DEF Worker, WorkerExit, WorkerGet, WorkerRecheck, WorkerSkip, WorkerStart,
           WorkerCallback, WorkerApplySchema, WorkerRestore, WorkerBook,
           WorkerRecover, WorkerFinish
      <3> QED BY <3>1, <3>2
    <2>2. CASE WorkerFinish(w)
      BY <2>2 DEF WorkerFinish
    <2>3. CASE wpc[w] \notin {"get", "recheck"} /\ ~WorkerFinish(w)
      <3>1. svc' = svc /\ \E l \in {"call", "restore", "book", "finish"} : Goto(w, l)
        BY <2>3 DEF Worker, WorkerExit, WorkerGet, WorkerRecheck, WorkerSkip, WorkerStart,
           WorkerCallback, WorkerApplySchema, WorkerRestore, WorkerBook, WorkerRecover
      <3> QED BY <3>1 DEF Goto, Holding, IInv, TypeOK
    <2> QED BY <2>1, <2>2, <2>3
  <1>4. /\ ~stopping => \A i \in DOMAIN queue' : queue'[i].name # Sentinel
        /\ queue = <<>> => queue' = <<>>
    <2>1. CASE queue' = queue
      BY <2>1 DEF Attended
    <2>2. ASSUME NEW k \in DOMAIN queue, queue' = PopAt(queue, k)
          PROVE  ~stopping => \A i \in DOMAIN queue' : queue'[i].name # Sentinel
      <3>1. /\ Len(queue') = Len(queue) - 1
            /\ \A i \in 1..(Len(queue) - 1) :
                 queue'[i] = IF i < k THEN queue[i] ELSE queue[i + 1]
        <4>1. queue \in Seq(Item)
          BY DEF IInv, TypeOK
        <4>2. /\ Len(PopAt(queue, k)) = Len(queue) - 1
              /\ \A i \in 1..(Len(queue) - 1) :
                   PopAt(queue, k)[i] = IF i < k THEN queue[i] ELSE queue[i + 1]
          BY <4>1, PopFacts
        <4> QED BY <2>2, <4>2, Zenon
      <3>2. /\ DOMAIN queue = 1..Len(queue) /\ Len(queue) \in Nat
            /\ DOMAIN queue' = 1..Len(queue')
        BY DEF IInv, TypeOK
      <3>3. ASSUME NEW i \in DOMAIN queue'
            PROVE  \E j \in DOMAIN queue : queue'[i] = queue[j]
        <4>1. i \in DOMAIN queue /\ i + 1 \in DOMAIN queue
          BY <3>1, <3>2
        <4>2. i \in 1..(Len(queue) - 1)
          BY <3>1, <3>2
        <4>3. queue'[i] = IF i < k THEN queue[i] ELSE queue[i + 1]
          BY <3>1, <4>2
        <4> QED BY <4>1, <4>3
      <3> QED BY <3>3 DEF Attended
    <2>3. queue' = queue \/ \E k \in DOMAIN queue : queue' = PopAt(queue, k)
      BY DEF Worker, WorkerExit, WorkerGet, WorkerRecheck, WorkerSkip, WorkerStart,
           WorkerCallback, WorkerApplySchema, WorkerRestore, WorkerBook,
           WorkerRecover, WorkerFinish, queueVars
    <2> QED BY <2>1, <2>2, <2>3
  <1>5. Serving => wpc'[w] # "dead"
    <2> SUFFICES ASSUME Serving PROVE wpc'[w] # "dead"
      OBVIOUS
    <2>1. ~Shut /\ ~WorkerExit(w)
      BY DEF Serving, Attended, Shut, WorkerExit
    <2> QED BY <2>1 DEF Worker, WorkerGet, WorkerRecheck, WorkerSkip, WorkerStart,
           WorkerCallback, WorkerApplySchema, WorkerRestore, WorkerBook,
           WorkerRecover, WorkerFinish, Goto, IInv, TypeOK
  <1>6. svc' <= MaxService
    BY <1>3 DEF Attended
  <1> QED BY <1>1, <1>3, <1>4, <1>5, <1>6 DEF Attended, Serving, Alive
\* The queue and the worker's hands as the lemmas on Timely want them.
Apart(q, H) == Plain(q) /\ H \subseteq Lane /\ Names(q) \cap H = {}

LEMMA HandsFacts ==
  ASSUME IInv, Attended, ~stopping
  PROVE  Apart(queue, Held) /\ svc \in Nat /\ svc <= MaxService
  <1>1. Held \subseteq Lane
    BY DEF Held, IInv, TypeOK
  <1> QED BY <1>1 DEF IInv, TypeOK, InflightExact, Attended, Apart, Plain, Distinct

LEMMA HandsFactsNext ==
  ASSUME IInv', Attended', ~stopping'
  PROVE  Apart(queue', Held') /\ svc' \in Nat /\ svc' <= MaxService
  <1>1. Held' \subseteq Lane
    BY DEF Held, IInv, TypeOK
  <1> QED BY <1>1 DEF IInv, TypeOK, InflightExact, Attended, Apart, Plain, Distinct, Names

\* The terms of Timely as numbers.
LEMMA TimelyTerms ==
  ASSUME NEW q, NEW H, Apart(q, H), NEW i \in DOMAIN q
  PROVE  /\ q[i].age \in Nat /\ MaxWait(q[i].name) \in Nat /\ MaxService \in Nat
         /\ IsFiniteSet(Before(q, i) \cup H) /\ Cardinality(Before(q, i) \cup H) \in Nat
         /\ Cardinality(Before(q, i) \cup H) * MaxService \in Nat
  <1>1. q[i].age \in Nat /\ MaxWait(q[i].name) \in Nat /\ MaxService \in Nat
    BY PlainFacts, BoundFacts, NumberFacts DEF Apart
  <1>2. IsFiniteSet(Before(q, i) \cup H) /\ Cardinality(Before(q, i) \cup H) \in Nat
    BY AheadFacts DEF Apart
  <1> QED BY <1>1, <1>2, Scaling

\* Less ahead of the same item keeps it in time.
LEMMA TimelyShrinks ==
  ASSUME NEW q, NEW H, Apart(q, H), NEW i \in DOMAIN q, NEW s \in Nat, Timely(q, H, s, i),
         NEW p, NEW G, Apart(p, G), NEW j \in DOMAIN p, p[j] = q[i],
         Before(p, j) \cup G \subseteq Before(q, i) \cup H
  PROVE  Timely(p, G, s, j)
  <1> DEFINE c == Cardinality(Before(q, i) \cup H)
             e == Cardinality(Before(p, j) \cup G)
  <1>1. c \in Nat /\ e \in Nat /\ e <= c
    BY TimelyTerms, FS_Subset
  <1>2. /\ q[i].age \in Nat /\ MaxWait(q[i].name) \in Nat /\ MaxService \in Nat
        /\ q[i].age + c * MaxService <= MaxWait(q[i].name) + s
    BY TimelyTerms DEF Timely
  <1> HIDE DEF c, e
  <1>3. c * MaxService \in Nat /\ e * MaxService \in Nat /\ e * MaxService <= c * MaxService
    BY <1>1, <1>2, Scaling
  <1>4. q[i].age + e * MaxService <= MaxWait(q[i].name) + s
    BY <1>2, <1>3
  <1> QED BY <1>4 DEF Timely, e

\* The run of the dataset in hand is over.
LEMMA TimelyDone ==
  ASSUME NEW q, NEW d, Apart(q, {d}), NEW i \in DOMAIN q, NEW s \in Nat, s <= MaxService,
         Timely(q, {d}, s, i), Apart(q, {})
  PROVE  Timely(q, {}, 0, i)
  <1> DEFINE c == Cardinality(Before(q, i) \cup {d})
             e == Cardinality(Before(q, i) \cup {})
  <1>1. d \notin Before(q, i) /\ IsFiniteSet(Before(q, i) \cup {})
    <2>1. Before(q, i) \subseteq Names(q)
      BY DEF Before, Names, Apart, Plain
    <2> QED BY <2>1, TimelyTerms DEF Apart
  <1>2. c = e + 1 /\ e \in Nat
    <2>1. Before(q, i) \cup {} = Before(q, i)
      OBVIOUS
    <2> QED BY <1>1, <2>1, FS_AddElement, FS_CardinalityType
  <1>3. /\ q[i].age \in Nat /\ MaxWait(q[i].name) \in Nat /\ MaxService \in Nat
        /\ q[i].age + c * MaxService <= MaxWait(q[i].name) + s
    BY TimelyTerms DEF Timely
  <1> HIDE DEF c, e
  <1>4. c * MaxService = e * MaxService + MaxService /\ e * MaxService \in Nat
    BY <1>2, <1>3, Scaling
  <1>5. q[i].age + e * MaxService <= MaxWait(q[i].name) + 0
    BY <1>3, <1>4
  <1> QED BY <1>5 DEF Timely, e

\* An item in time has not waited longer than its bound.
LEMMA TimelyBounds ==
  ASSUME NEW q, NEW H, Apart(q, H), NEW i \in DOMAIN q, NEW s \in Nat, s <= MaxService,
         s > 0 => H # {}, Timely(q, H, s, i)
  PROVE  q[i].age <= MaxWait(q[i].name)
  <1> DEFINE c == Cardinality(Before(q, i) \cup H)
  <1>1. /\ c \in Nat /\ q[i].age \in Nat /\ MaxWait(q[i].name) \in Nat /\ MaxService \in Nat
        /\ c * MaxService \in Nat /\ q[i].age + c * MaxService <= MaxWait(q[i].name) + s
    BY TimelyTerms DEF Timely
  <1>2. CASE s = 0
    <2> HIDE DEF c
    <2> QED BY <1>1, <1>2
  <1>3. CASE s > 0
    <2>1. c # 0
      BY <1>3, TimelyTerms, FS_EmptySet
    <2> HIDE DEF c
    <2>2. 1 * MaxService <= c * MaxService
      BY <1>1, <2>1, Scaling
    <2> QED BY <1>1, <2>2
  <1> QED BY <1>2, <1>3

\* A tick under a worker in service.
LEMMA TimelyAged ==
  ASSUME NEW q, NEW H, Apart(q, H), NEW i \in DOMAIN q, NEW s \in Nat, Timely(q, H, s, i),
         \A j \in DOMAIN q : q[j].age < AgeCap
  PROVE  Timely(Aged(q), H, s + 1, i)
  <1>1. /\ Aged(q)[i].name = q[i].name /\ Aged(q)[i].age = q[i].age + 1
        /\ Before(Aged(q), i) = Before(q, i)
    BY BeforeAged DEF Apart
  <1> DEFINE c == Cardinality(Before(q, i) \cup H)
  <1>2. /\ q[i].age \in Nat /\ MaxWait(q[i].name) \in Nat /\ c * MaxService \in Nat
        /\ q[i].age + c * MaxService <= MaxWait(q[i].name) + s
    BY TimelyTerms DEF Timely
  <1>3. Timely(Aged(q), H, s + 1, i) <=>
          (q[i].age + 1) + c * MaxService <= MaxWait(q[i].name) + (s + 1)
    BY <1>1 DEF Timely
  <1> HIDE DEF c
  <1> QED BY <1>2, <1>3
\* put() overtakes only items that are young.
LEMMA PutIsPatient ==
  ASSUME IInv, IInv', Attended, Attended', Serving, Serving', Patient, MainPut,
         NEW i \in DOMAIN queue'
  PROVE  Timely(queue', Held', svc', i)
  <1>1. UNCHANGED <<wpc, wcur, svc>> /\ Held' = Held
    BY DEF MainPut, workerVars, Held
  <1>2. Apart(queue, Held) /\ Apart(queue', Held) /\ svc \in Nat
    BY <1>1, HandsFacts, HandsFactsNext DEF Serving
  <1>3. CASE queue' = queue
    BY <1>1, <1>3 DEF Patient, Timely
  <1>4. ASSUME NEW d \in Lane, queue' = Put(queue, d) PROVE Timely(queue', Held, svc, i)
    <2>1. CASE queue'[i].age <= Overtaken(queue'[i].name)
      <3> DEFINE x == queue'[i].age + Cardinality(Before(queue', i) \cup Held) * MaxService
      <3>1. x <= MaxWait(queue'[i].name)
        BY <1>2, <2>1, Young DEF Apart
      <3>2. x \in Nat /\ MaxWait(queue'[i].name) \in Nat
        <4> DEFINE y == Cardinality(Before(queue', i) \cup Held) * MaxService
        <4>1. queue'[i].age \in Nat /\ y \in Nat /\ MaxWait(queue'[i].name) \in Nat
          BY <1>2, TimelyTerms
        <4> HIDE DEF y
        <4>2. queue'[i].age + y \in Nat
          BY <4>1
        <4> QED BY <4>1, <4>2 DEF y
      <3>3. Timely(queue', Held, svc, i) <=> x <= MaxWait(queue'[i].name) + svc
        BY DEF Timely
      <3> HIDE DEF x
      <3> QED BY <1>2, <3>1, <3>2, <3>3
    <2>2. CASE ~(queue'[i].age <= Overtaken(queue'[i].name))
      <3>1. /\ Len(queue) \in Nat /\ DOMAIN queue = 1..Len(queue)
            /\ DOMAIN queue' = 1..(Len(queue) + 1)
            /\ \A j \in 1..Len(queue) : queue'[j] = queue[j]
            /\ queue'[Len(queue) + 1] = [name |-> d, age |-> 0]
        BY <1>2, <1>4 DEF Put, Apart, Plain
      <3>2. i # Len(queue) + 1
        BY <2>2, <3>1, BoundFacts
      <3>3. i \in DOMAIN queue /\ queue'[i] = queue[i]
        BY <3>1, <3>2
      <3>4. queue[i].age > Overtaken(queue[i].name)
        BY <2>2, <3>3, <1>2, PlainFacts, BoundFacts DEF Apart
      <3>5. Before(queue', i) = Before(queue, i)
        BY <1>2, <1>4, <3>3, <3>4, BeforePut DEF Apart
      <3> QED BY <3>3, <3>5 DEF Patient, Timely
    <2> QED BY <2>1, <2>2
  <1>5. queue' = queue \/ \E d \in Lane : queue' = Put(queue, d)
    BY OrderFacts DEF MainPut, IInv, TypeOK
  <1> QED BY <1>1, <1>3, <1>4, <1>5

\* A tick: with work queued the worker is in service, and its time runs too.
LEMMA TickIsPatient ==
  ASSUME IInv, IInv', Attended, Attended', Serving, Patient, Tick,
         NEW i \in DOMAIN queue'
  PROVE  Timely(queue', Held', svc', i)
  <1>1. UNCHANGED <<wpc, wcur>> /\ Held' = Held /\ queue' = Aged(queue)
    BY DEF Tick, Held
  <1>2. Apart(queue, Held) /\ svc \in Nat /\ svc <= MaxService
    BY HandsFacts DEF Serving
  <1>3. DOMAIN queue' = DOMAIN queue /\ i \in DOMAIN queue /\ queue # <<>>
    BY <1>1 DEF Aged
  <1>4. last \in Workers /\ wpc[last] \in Holding \cup {"get"}
    <2>1. last # 0 /\ wpc[last] # "dead"
      BY DEF Attended, Alive
    <2>2. last \in Workers
      BY <2>1, NumberFacts DEF IInv, TypeOK, Workers
    <2> QED BY <2>1, <2>2 DEF IInv, TypeOK
  <1>5. InService(last)
    BY <1>3, <1>4 DEF Tick, Prompt, InService
  <1>6. svc' = svc + 1
    BY <1>4, <1>5 DEF Tick
  <1>7. wcur[last] \in Held
    BY <1>4, <1>5 DEF Held, InService, Holding
  <1>8. \A j \in DOMAIN queue : queue[j].age < AgeCap
    <2> SUFFICES ASSUME NEW j \in DOMAIN queue PROVE queue[j].age < AgeCap
      OBVIOUS
    <2>1. queue[j].age <= MaxWait(queue[j].name)
      BY <1>2, <1>7, TimelyBounds DEF Patient
    <2>2. queue[j].age \in Nat /\ queue[j].name \in Lane
      BY <1>2, PlainFacts DEF Apart
    <2>3. MaxWait(queue[j].name) \in Nat /\ MaxWait(queue[j].name) < AgeCap /\ AgeCap \in Nat
      BY <2>2, BoundFacts, QueueConstants
    <2> QED BY <2>1, <2>2, <2>3
  <1> QED BY <1>1, <1>2, <1>3, <1>6, <1>8, TimelyAged DEF Patient

\* The worker: what it takes was ahead already, and a finished run is ahead no more.
LEMMA WorkIsPatient ==
  ASSUME IInv, IInv', Attended, Attended', Serving, Serving', Patient,
         NEW w \in Workers, Worker(w), NEW i \in DOMAIN queue'
  PROVE  Timely(queue', Held', svc', i)
  <1>1. /\ Apart(queue, Held) /\ svc \in Nat /\ svc <= MaxService
        /\ Apart(queue', Held') /\ svc' \in Nat
    BY HandsFacts, HandsFactsNext DEF Serving
  <1>2. /\ \A v \in Workers : v # w => wpc[v] = "dead"
        /\ \A v \in Workers : v # w => wpc'[v] = "dead"
    BY WorkerFrame DEF IInv, Owned
  <1>3. /\ Held = IF wpc[w] \in Holding THEN {wcur[w]} ELSE {}
        /\ Held' = IF wpc'[w] \in Holding THEN {wcur'[w]} ELSE {}
    <2>1. \A v \in Workers : (wpc[v] \in Holding => v = w) /\ (wpc'[v] \in Holding => v = w)
      BY <1>2 DEF Holding
    <2>2. Held = IF wpc[w] \in Holding THEN {wcur[w]} ELSE {}
      BY <2>1 DEF Held
    <2>3. Held' = IF wpc'[w] \in Holding THEN {wcur'[w]} ELSE {}
      BY <2>1 DEF Held
    <2> QED BY <2>2, <2>3
  <1>4. CASE WorkerGet(w)
    <2>1. PICK k \in DOMAIN queue : /\ IsBest(queue, k) /\ queue' = PopAt(queue, k)
                                    /\ wcur' = [wcur EXCEPT ![w] = queue[k].name]
      BY <1>4 DEF WorkerGet
    <2>2. Held' = {queue[k].name} /\ svc' = svc
      BY <1>3, <1>4, <2>1 DEF WorkerGet, Goto, Holding, IInv, TypeOK
    <2>3. PICK j \in DOMAIN queue :
                 /\ queue'[i] = queue[j]
                 /\ Before(queue', i) \cup {queue[k].name} \subseteq Before(queue, j)
      BY <1>1, <2>1, BeforePop DEF Apart
    <2>4. Before(queue', i) \cup Held' \subseteq Before(queue, j) \cup Held
      BY <2>2, <2>3
    <2>5. Timely(queue, Held, svc, j)
      BY DEF Patient
    <2> QED BY <1>1, <2>2, <2>3, <2>4, <2>5, TimelyShrinks
  <1>5. CASE WorkerFinish(w)
    <2>1. /\ queue' = queue /\ svc' = 0 /\ wpc[w] = "finish" /\ wpc'[w] = "get"
      BY <1>5 DEF WorkerFinish, Goto, IInv, TypeOK
    <2>2. Held = {wcur[w]} /\ Held' = {}
      BY <1>3, <2>1 DEF Holding
    <2>3. Timely(queue, {wcur[w]}, svc, i) /\ i \in DOMAIN queue
      BY <2>1, <2>2 DEF Patient
    <2>4. Apart(queue, {wcur[w]}) /\ Apart(queue, {})
      BY <1>1, <2>1, <2>2
    <2>5. Timely(queue, {}, 0, i)
      BY <1>1, <2>3, <2>4, TimelyDone
    <2> QED BY <2>1, <2>2, <2>5
  <1>6. CASE ~WorkerGet(w) /\ ~WorkerFinish(w)
    <2>1. ~WorkerExit(w)
      BY DEF Serving, Attended, WorkerExit
    <2>2. UNCHANGED <<queue, svc, wcur>> /\ wpc[w] \in Holding
      BY <1>6, <2>1 DEF Worker, WorkerRecheck, WorkerSkip, WorkerStart,
           WorkerCallback, WorkerApplySchema, WorkerRestore, WorkerBook,
           WorkerRecover, queueVars, Holding
    <2>3. Held' \subseteq Held
      BY <1>3, <2>2
    <2>4. Before(queue', i) \cup Held' \subseteq Before(queue, i) \cup Held
      BY <2>2, <2>3
    <2>5. Timely(queue, Held, svc, i) /\ i \in DOMAIN queue /\ queue'[i] = queue[i] /\ svc' = svc
      BY <2>2 DEF Patient
    <2> QED BY <1>1, <2>4, <2>5, TimelyShrinks
  <1> QED BY <1>4, <1>5, <1>6

\* Every step keeps the lane attended and every wait within its bound.
AgingInv == IInv /\ Attended /\ Patient

LEMMA AgingInit == Init => AgingInv
  <1> SUFFICES ASSUME Init PROVE AgingInv
    OBVIOUS
  <1>1. IInv
    BY InvInit
  <1>2. DOMAIN queue = {} /\ ~Serving
    BY DEF Init, Serving
  <1>3. Attended /\ Patient
    BY <1>2, NumberFacts DEF Init, Attended, Patient
  <1> QED BY <1>1, <1>3 DEF AgingInv

LEMMA AgingStep == AgingInv /\ [Next]_vars => AgingInv'
  <1> SUFFICES ASSUME IInv, Attended, Patient, [Next]_vars PROVE IInv' /\ Attended' /\ Patient'
    BY DEF AgingInv
  <1>1. IInv'
    BY InvStep
  <1>2. Attended'
    BY <1>1, StepCases, OthersAttend, StartAttends, WorkersAttend
  <1>3. Patient'
    <2> SUFFICES ASSUME Serving', NEW i \in DOMAIN queue' PROVE Timely(queue', Held', svc', i)
      BY DEF Patient
    <2>1. CASE LoopStart
      <3>1. queue' = <<>>
        BY <2>1, StartAttends DEF Serving
      <3> QED BY <3>1
    <2>2. CASE NotWorker
      <3>1. Serving
        BY <2>2 DEF Serving, NotWorker, Main, MainCheck, MainPut, LoopBind, LoopWake, LoopExit,
               StopPut, JoinDone, JoinTimeout, LoopRaise, Signal, Teardown, Tick, NextDataset,
               vars, loopVars
      <3>2. CASE MainPut
        BY <1>1, <1>2, <3>1, <3>2, PutIsPatient
      <3>3. CASE Tick
        BY <1>1, <1>2, <3>1, <3>3, TickIsPatient
      <3>4. CASE ~MainPut /\ ~Tick
        <4>1. UNCHANGED <<queue, wpc, wcur, svc>>
          BY <2>2, <3>4 DEF Serving, NotWorker, Main, MainCheck, LoopBind, LoopWake, LoopExit,
               StopPut, JoinDone, JoinTimeout, LoopRaise, Signal, Teardown,
               vars, queueVars, workerVars
        <4>2. Held' = Held
          BY <4>1 DEF Held
        <4> QED BY <3>1, <4>1, <4>2 DEF Patient, Timely
      <3> QED BY <3>2, <3>3, <3>4
    <2>3. ASSUME NEW w \in Workers, Worker(w) PROVE Timely(queue', Held', svc', i)
      <3>1. Serving
        BY <2>3, WorkerFrame DEF Serving, loopVars, IInv
      <3> QED BY <1>1, <1>2, <2>3, <3>1, WorkIsPatient
    <2> QED BY <2>1, <2>2, <2>3, StepCases
  <1> QED BY <1>1, <1>2, <1>3

\* However busy the lane is, no queued dataset waits longer than its priority
\* distance and one run of every other dataset: aging lets nothing starve
\* (scheduler.py:104-112, 158).
THEOREM WaitsBounded == Spec => []BoundedWait
  <1>1. AgingInv => BoundedWait
    <2> SUFFICES ASSUME IInv, Attended, Patient, InLoop, ~evt, ~stopping, NEW i \in DOMAIN queue
                 PROVE  queue[i].age <= MaxWait(queue[i].name)
      BY DEF AgingInv, BoundedWait
    <2>1. Serving /\ Apart(queue, Held) /\ svc \in Nat /\ svc <= MaxService
      BY HandsFacts DEF Serving, InLoop
    <2>2. svc > 0 => Held # {}
      BY DEF Attended, Held
    <2> QED BY <2>1, <2>2, TimelyBounds DEF Patient
  <1> QED BY <1>1, AgingInit, AgingStep, PTL DEF Spec

--------------------------------------------------------------------------------
(* The lane implements RestedSource *)

\* An attempt that has been answered counts as a success exactly when its dataset
\* has no failure left in a row.
Told == \A w \in Workers :
  wpc[w] \in {"restore", "book"} => (wok[w] <=> fails[wcur[w]] = 0)

\* Work in flight is owed no rest until it is booked.
Rested == \A d \in inflight :
  rest[d] = 0 \/ \E w \in Workers : wpc[w] = "finish" /\ wcur[w] = d

SourceInv == SpacingInv /\ Told /\ Rested

\* A failure raises the count of failures in a row, and is never taken for none.
LEMMA BumpFacts ==
  ASSUME NEW n \in 0..MaxFailures
  PROVE  /\ Bump(n) \in 0..MaxFailures /\ Bump(n) # 0
         /\ Bump(n) = Source!Failed(n)
  BY NumberFacts DEF Bump, Least, Source!Failed

\* What _run earns a dataset is what RestedSource says of its count of failures.
LEMMA EarnedFacts ==
  ASSUME NEW d, NEW ok \in BOOLEAN, NEW n \in 0..MaxFailures, ok <=> n = 0
  PROVE  Earned(d, ok, n) = Source!Earned(d, n)
  BY NumberFacts DEF Earned, Source!Earned

\* A dataset that is due is owed no rest.
LEMMA DueFacts ==
  ASSUME TypeOK, Spaced, NEW d \in Lane, Due(d)
  PROVE  rest[d] = 0
  <1>1. due[d] \in Nat /\ rest[d] \in Nat /\ delay[d] \in Nat
    BY DEF TypeOK
  <1>2. rest[d] <= due[d] /\ due[d] <= Greatest(1, delay[d]) + Skew
    BY DEF Spaced
  <1>3. Greatest(1, delay[d]) + Skew \in Nat
    BY <1>1, NumberFacts DEF Greatest
  <1> QED BY <1>1, <1>2, <1>3 DEF Due

\* Only the worker's own steps touch outcomes and counts of failures.
LEMMA OutcomeFrame ==
  ASSUME NotWorker \/ LoopStart
  PROVE  UNCHANGED <<schemaVars, wcur, wok, fails>>
  BY DEF NotWorker, LoopStart, Main, MainCheck, MainPut, LoopBind, LoopWake,
         LoopExit, StopPut, JoinDone, JoinTimeout, LoopRaise, Signal, Teardown,
         Tick, vars, schemaVars, workerVars, scheduleVars

\* The start of a worker moves no other one.
LEMMA StartFrame ==
  ASSUME TypeOK, Owned, LoopStart
  PROVE  \/ UNCHANGED wpc
         \/ /\ \A w \in Workers : wpc[w] = "dead"
            /\ \A w \in Workers : wpc'[w] \in {"dead", "get"}
  <1>1. CASE StillOwned
    BY <1>1 DEF LoopStart
  <1>2. CASE ~StillOwned
    <2>1. \A w \in Workers : wpc[w] = "dead"
      BY <1>2, NoOwner DEF StillOwned
    <2> QED BY <1>2, <2>1 DEF LoopStart, TypeOK
  <1> QED BY <1>1, <1>2

\* Every step preserves Told.
LEMMA ToldStep == IInv /\ Told /\ [Next]_vars => Told'
  <1> SUFFICES ASSUME IInv, Told, [Next]_vars PROVE Told'
    OBVIOUS
  <1>0. TypeOK /\ Owned
    BY DEF IInv
  <1>1. CASE NotWorker
    BY <1>1, OtherFrame, OutcomeFrame DEF Told
  <1>2. CASE LoopStart
    BY <1>0, <1>2, StartFrame, OutcomeFrame DEF Told
  <1>3. ASSUME NEW w \in Workers, Worker(w) PROVE Told'
    <2> USE DEF Goto
    <2>1. \A v \in Workers : v # w => wpc'[v] = "dead"
      BY <1>0, <1>3, WorkerFrame DEF Owned
    <2>2. SUFFICES wpc'[w] \in {"restore", "book"} =>
                     (wok'[w] <=> fails'[wcur'[w]] = 0)
      BY <2>1 DEF Told
    <2>3. ASSUME NEW ok \in BOOLEAN, Outcome(w, ok), wcur' = wcur
          PROVE  wok'[w] <=> fails'[wcur'[w]] = 0
      <3>1. wcur[w] \in Lane /\ fails[wcur[w]] \in 0..MaxFailures
        BY <1>0 DEF TypeOK
      <3>2. wok'[w] = ok /\ fails'[wcur[w]] = IF ok THEN 0 ELSE Bump(fails[wcur[w]])
        BY <1>0, <2>3, <3>1 DEF Outcome, TypeOK
      <3> QED BY <2>3, <3>1, <3>2, BumpFacts
    <2>4. CASE WorkerCallback(w) \/ WorkerApplySchema(w)
      BY <2>3, <2>4 DEF WorkerCallback, WorkerApplySchema
    <2>5. CASE WorkerRestore(w)
      BY <2>5 DEF WorkerRestore, Told
    <2>6. CASE ~(WorkerCallback(w) \/ WorkerApplySchema(w) \/ WorkerRestore(w))
      <3>1. wpc'[w] \notin {"restore", "book"}
        BY <1>0, <1>3, <2>6 DEF Worker, WorkerExit, WorkerGet, WorkerRecheck,
           WorkerSkip, WorkerStart, WorkerBook, WorkerRecover, WorkerFinish, TypeOK
      <3> QED BY <3>1
    <2> QED BY <2>4, <2>5, <2>6
  <1> QED BY <1>1, <1>2, <1>3, StepCases

\* Every step preserves Rested: work is admitted when it is due, and coalesced
\* until the worker that booked it lets it go.
LEMMA RestedStep == SpacingInv /\ Rested /\ [Next]_vars => Rested'
  <1> SUFFICES ASSUME SpacingInv, Rested, [Next]_vars, NEW d \in inflight'
               PROVE  rest'[d] = 0 \/ \E w \in Workers :
                                        wpc'[w] = "finish" /\ wcur'[w] = d
    BY DEF Rested
  <1>0. TypeOK /\ Owned /\ Spaced /\ TypeOK'
    BY TypeStep DEF SpacingInv, IInv
  <1>1. d \in Lane
    BY <1>0 DEF TypeOK
  <1>2. CASE NotWorker
    <2>1. UNCHANGED <<wpc, wcur>>
      BY <1>2, OtherFrame
    <2>2. rest[d] = 0 => rest'[d] = 0
      <3>1. UNCHANGED rest \/ Tick
        BY <1>2 DEF NotWorker, Main, MainCheck, MainPut, LoopBind, LoopWake,
           LoopExit, StopPut, JoinDone, JoinTimeout, LoopRaise, Signal, Teardown,
           vars, scheduleVars
      <3> QED BY <1>1, <3>1 DEF Tick, Countdown
    <2>3. d \in inflight \/ Due(d)
      BY <1>2 DEF NotWorker, Main, MainCheck, MainPut, Admit, LoopBind, LoopWake,
         LoopExit, StopPut, JoinDone, JoinTimeout, LoopRaise, Signal, Teardown, Tick,
         Discard, vars, queueVars
    <2> QED BY <1>0, <1>1, <2>1, <2>2, <2>3, DueFacts DEF Rested
  <1>3. CASE LoopStart
    <2>1. d \in inflight /\ UNCHANGED <<rest, wcur>>
      BY <1>3 DEF LoopStart, Discard, queueVars, scheduleVars
    <2> QED BY <1>0, <1>3, <2>1, StartFrame DEF Rested
  <1>4. ASSUME NEW w \in Workers, Worker(w)
        PROVE  rest'[d] = 0 \/ \E v \in Workers :
                                 wpc'[v] = "finish" /\ wcur'[v] = d
    <2> USE DEF Goto
    <2>1. \A v \in Workers : v # w => wpc[v] = "dead"
      BY <1>0, <1>4, WorkerFrame DEF Owned
    <2>2. d \in inflight
      BY <1>4 DEF Worker, WorkerExit, WorkerGet, WorkerRecheck, WorkerSkip,
         WorkerStart, WorkerCallback, WorkerApplySchema, WorkerRestore, WorkerBook,
         WorkerRecover, WorkerFinish, queueVars
    <2>3. rest[d] = 0 \/ (wpc[w] = "finish" /\ wcur[w] = d)
      BY <2>1, <2>2 DEF Rested
    <2>4. CASE WorkerBook(w) \/ WorkerRecover(w)
      <3>1. wpc'[w] = "finish" /\ wcur' = wcur /\ wpc[w] # "finish"
        BY <1>0, <2>4 DEF WorkerBook, WorkerRecover, TypeOK
      <3>2. \E ok, n : rest' = [rest EXCEPT ![wcur[w]] = Earned(wcur[w], ok, n)]
        BY <2>4 DEF WorkerBook, WorkerRecover, Reschedule
      <3>3. d # wcur[w] => rest'[d] = rest[d]
        BY <1>0, <1>1, <3>2 DEF TypeOK
      <3> QED BY <2>3, <3>1, <3>3
    <2>5. CASE WorkerFinish(w)
      <3>1. wcur[w] # d /\ rest' = rest
        BY <2>5 DEF WorkerFinish, scheduleVars
      <3> QED BY <2>3, <3>1
    <2>6. CASE ~WorkerBook(w) /\ ~WorkerRecover(w) /\ ~WorkerFinish(w)
      <3>1. rest' = rest /\ wpc[w] # "finish"
        BY <1>4, <2>6 DEF Worker, WorkerExit, WorkerGet, WorkerRecheck, WorkerSkip,
           WorkerStart, WorkerCallback, WorkerApplySchema, WorkerRestore,
           scheduleVars
      <3> QED BY <2>3, <3>1
    <2> QED BY <2>4, <2>5, <2>6
  <1> QED BY <1>2, <1>3, <1>4, StepCases

\* With every other worker dead, the attempt is the one worker's.
LEMMA OneAttempt ==
  ASSUME NEW pc, NEW cur, NEW w \in Workers,
         \A v \in Workers : v # w => pc[v] = "dead"
  PROVE  /\ {cur[v] : v \in {u \in Workers : pc[u] \in {"call", "restore", "book"}}} =
              IF pc[w] \in {"call", "restore", "book"} THEN {cur[w]} ELSE {}
         /\ (\E v \in Workers : pc[v] \in {"restore", "book"}) =
              (pc[w] \in {"restore", "book"})
  <1>1. {u \in Workers : pc[u] \in {"call", "restore", "book"}} =
          IF pc[w] \in {"call", "restore", "book"} THEN {w} ELSE {}
    OBVIOUS
  <1>2. (\E v \in Workers : pc[v] \in {"restore", "book"}) <=>
          pc[w] \in {"restore", "book"}
    OBVIOUS
  <1>3. {cur[v] : v \in {w}} = {cur[w]} /\ {cur[v] : v \in {}} = {}
    OBVIOUS
  <1>4. (\E v \in Workers : pc[v] \in {"restore", "book"}) =
          (pc[w] \in {"restore", "book"})
    <2> DEFINE P == \E v \in Workers : pc[v] \in {"restore", "book"}
               Q == pc[w] \in {"restore", "book"}
    <2>1. (P <=> Q) /\ P \in BOOLEAN /\ Q \in BOOLEAN
      BY <1>2
    <2> HIDE DEF P, Q
    <2>2. P = Q
      BY <2>1
    <2> QED BY <2>2 DEF P, Q
  <1>5. {cur[v] : v \in {u \in Workers : pc[u] \in {"call", "restore", "book"}}} =
          IF pc[w] \in {"call", "restore", "book"} THEN {cur[w]} ELSE {}
    BY <1>1, <1>3
  <1> QED BY <1>4, <1>5, Zenon

Unmoved == UNCHANGED <<Attempted, Answered, Contract, fails, rest, closed>>

\* Seen from the source, everything but a worker's step is time that passes, the
\* closing of an idle client, or nothing.
LEMMA OthersSeen ==
  ASSUME SourceInv, NotWorker \/ LoopStart
  PROVE  Source!Next \/ Unmoved
  <1>0. TypeOK /\ Owned /\ TornDown
    BY DEF SourceInv, SpacingInv, IInv
  <1>1. UNCHANGED <<ready, failures, wcur, fails>>
    BY OutcomeFrame DEF schemaVars
  <1>2. UNCHANGED <<Attempted, Answered>>
    <2>1. CASE UNCHANGED wpc
      BY <1>1, <2>1 DEF Attempted, Answered
    <2>2. CASE ~UNCHANGED wpc
      <3>1. /\ \A w \in Workers : wpc[w] = "dead"
            /\ \A w \in Workers : wpc'[w] \in {"dead", "get"}
        BY <1>0, <2>2, OtherFrame, StartFrame
      <3> QED BY <3>1 DEF Attempted, Answered
    <2> QED BY <2>1, <2>2
  <1>3. UNCHANGED Contract
    BY <1>1 DEF Contract
  <1>4. CASE Tick
    <2>1. rest' = Countdown(rest) /\ closed' = closed
      BY <1>4 DEF Tick, loopVars
    <2> QED BY <1>1, <1>2, <1>3, <2>1 DEF Source!Next, Source!Elapse, Countdown
  <1>5. CASE Teardown
    <2>1. UNCHANGED rest /\ closed' = ~Alive /\ closed = FALSE
      BY <1>0, <1>5 DEF Teardown, scheduleVars, TornDown, TypeOK
    <2>2. CASE Alive
      BY <1>1, <1>2, <1>3, <2>1, <2>2 DEF Unmoved
    <2>3. CASE ~Alive
      <3>1. \A w \in Workers : wpc[w] = "dead"
        BY <1>0, <2>3, NoOwner
      <3>2. Attempted = {}
        BY <3>1 DEF Attempted
      <3>3. (~closed)' = FALSE
        BY <2>1, <2>3
      <3> QED BY <1>1, <1>2, <1>3, <2>1, <3>2, <3>3 DEF Source!Next, Source!Close
    <2> QED BY <2>2, <2>3
  <1>6. CASE ~Tick /\ ~Teardown
    <2>1. UNCHANGED <<rest, closed>>
      BY <1>6 DEF NotWorker, LoopStart, Main, MainCheck, MainPut, LoopBind, LoopWake,
         LoopExit, StopPut, JoinDone, JoinTimeout, LoopRaise, Signal, vars, loopVars,
         scheduleVars
    <2> QED BY <1>1, <1>2, <1>3, <2>1 DEF Unmoved
  <1> QED BY <1>4, <1>5, <1>6

\* Seen from the source, the steps of a worker begin, answer, conclude or fail an
\* attempt, or are nothing.
LEMMA WorkSeen ==
  ASSUME SourceInv, NEW w \in Workers, Worker(w)
  PROVE  Source!Next \/ Unmoved
  <1> USE DEF Goto
  <1> DEFINE d == wcur[w]
  <1>0. TypeOK /\ Owned /\ Proved /\ TornDown /\ InflightExact /\ Told /\ Rested /\ Spaced
    BY DEF SourceInv, SpacingInv, IInv
  <1>1. /\ d \in Lane /\ fails[d] \in 0..MaxFailures /\ wok[w] \in BOOLEAN
        /\ wpc \in [Workers -> Holding \cup {"dead", "get"}]
        /\ fails \in [Lane -> 0..MaxFailures] /\ rest \in [Lane -> Nat]
    BY <1>0 DEF TypeOK
  <1>2. /\ wpc[w] # "dead" /\ closed' = closed
        /\ \A v \in Workers : v # w => wpc[v] = "dead" /\ wpc'[v] = "dead"
    BY <1>0, WorkerFrame DEF Owned, loopVars
  <1>3. /\ Attempted = IF wpc[w] \in {"call", "restore", "book"} THEN {d} ELSE {}
        /\ Answered = (wpc[w] \in {"restore", "book"})
    BY <1>2, OneAttempt DEF Attempted, Answered
  <1>4. /\ Attempted' = IF wpc'[w] \in {"call", "restore", "book"} THEN {wcur'[w]} ELSE {}
        /\ Answered' = (wpc'[w] \in {"restore", "book"})
    BY <1>2, OneAttempt DEF Attempted, Answered
  <1>5. ~closed
    BY <1>0, <1>2 DEF TornDown
  <1>6. UNCHANGED <<ready, failures>> => UNCHANGED Contract
    BY DEF Contract
  <1>7. CASE WorkerExit(w) \/ WorkerGet(w) \/ WorkerRecheck(w) \/ WorkerSkip(w)
               \/ WorkerFinish(w)
    <2>1. /\ UNCHANGED <<ready, failures, fails, rest>>
          /\ wpc[w] \notin {"call", "restore", "book"}
          /\ wpc'[w] \notin {"call", "restore", "book"}
      BY <1>1, <1>7 DEF WorkerExit, WorkerGet, WorkerRecheck, WorkerSkip, WorkerFinish,
         schemaVars, scheduleVars
    <2> QED BY <1>2, <1>3, <1>4, <1>6, <2>1 DEF Unmoved
  <1>8. CASE WorkerStart(w)
    <2>1. /\ wpc[w] = "start" /\ wpc'[w] = "call" /\ wcur' = wcur /\ Due(d)
          /\ UNCHANGED <<ready, failures, fails, rest>>
      BY <1>1, <1>8 DEF WorkerStart, schemaVars, scheduleVars
    <2>2. d = Schema \/ d \in Contract
      BY <1>0, <1>1, <2>1 DEF Proved, Contract, Reporting
    <2>3. rest[d] = 0
      BY <1>0, <1>1, <2>1, DueFacts
    <2>4. Source!Begin(d)
      BY <1>2, <1>3, <1>4, <1>5, <1>6, <2>1, <2>2, <2>3 DEF Source!Begin
    <2> QED BY <1>1, <2>4 DEF Source!Next
  <1>9. CASE WorkerCallback(w) \/ WorkerApplySchema(w)
    <2>1. /\ wpc[w] = "call" /\ wpc'[w] \in {"restore", "book"} /\ wcur' = wcur
          /\ rest' = rest
      BY <1>1, <1>9 DEF WorkerCallback, WorkerApplySchema
    <2>2. \E n \in {0, Source!Failed(fails[d])} : fails' = [fails EXCEPT ![d] = n]
      BY <1>1, <1>9, BumpFacts DEF WorkerCallback, WorkerApplySchema, Outcome
    <2>3. \/ UNCHANGED Contract
          \/ d = Schema /\ Contract' \in SUBSET (Lane \ {Schema})
      BY <1>6, <1>9 DEF WorkerCallback, WorkerApplySchema, Contract, Reporting, schemaVars
    <2>4. Source!Answer(d)
      BY <1>2, <1>3, <1>4, <2>1, <2>2, <2>3 DEF Source!Answer
    <2> QED BY <1>1, <2>4 DEF Source!Next
  <1>10. CASE WorkerRestore(w)
    <2>1. /\ wpc[w] = "restore" /\ wpc'[w] = "book" /\ wcur' = wcur
          /\ UNCHANGED <<ready, failures, fails, rest>>
      BY <1>1, <1>10 DEF WorkerRestore, schemaVars
    <2> QED BY <1>2, <1>3, <1>4, <1>6, <2>1 DEF Unmoved
  <1>11. CASE WorkerBook(w)
    <2>1. /\ wpc[w] = "book" /\ wpc'[w] = "finish"
          /\ UNCHANGED <<ready, failures, fails>>
          /\ rest' = [rest EXCEPT ![d] = Earned(d, wok[w], fails[d])]
      BY <1>1, <1>11 DEF WorkerBook, Reschedule, schemaVars
    <2>2. Earned(d, wok[w], fails[d]) = Source!Earned(d, fails[d])
      BY <1>0, <1>1, <2>1, EarnedFacts DEF Told
    <2>3. /\ Attempted' = {} /\ Answered' = FALSE
          /\ UNCHANGED Contract /\ (~closed)' = ~closed
      <3>1. Attempted' = {} /\ UNCHANGED Contract
        BY <1>4, <1>6, <2>1
      <3>2. (wpc'[w] \in {"restore", "book"}) = FALSE
        BY <2>1
      <3>3. Answered' = FALSE
        BY <1>4, <3>2, Zenon
      <3>4. (~closed)' = ~closed
        BY <1>2, Zenon
      <3> QED BY <3>1, <3>3, <3>4, Zenon
    <2>4. rest' = [rest EXCEPT ![d] = Source!Earned(d, fails'[d])]
      BY <2>1, <2>2
    <2>5. Source!Over(d)
      BY <2>3, <2>4 DEF Source!Over
    <2>6. Source!Conclude(d)
      BY <1>3, <2>1, <2>5 DEF Source!Conclude
    <2> QED BY <1>1, <2>6 DEF Source!Next
  <1>12. CASE WorkerRecover(w)
    <2> DEFINE n == Bump(fails[d])
    <2>1. /\ wpc[w] \in {"start", "book"} /\ wpc'[w] = "finish"
          /\ UNCHANGED <<ready, failures>>
          /\ fails' = [fails EXCEPT ![d] = n]
          /\ rest' = [rest EXCEPT ![d] = Earned(d, FALSE, n)]
      BY <1>1, <1>12 DEF WorkerRecover, Reschedule, schemaVars
    <2>2. n \in 0..MaxFailures /\ n # 0 /\ n = Source!Failed(fails[d])
      BY <1>1, BumpFacts
    <2> HIDE DEF n
    <2>3. Earned(d, FALSE, n) = Source!Earned(d, n)
      BY <2>2, EarnedFacts
    <2>4. rest[d] = 0
      <3>1. d \in Held
        BY <2>1 DEF Held, Holding
      <3>2. d \in inflight
        BY <1>0, <3>1 DEF InflightExact
      <3> QED BY <1>0, <1>2, <2>1, <3>2 DEF Rested
    <2>5. /\ Attempted' = {} /\ Answered' = FALSE
          /\ UNCHANGED Contract /\ (~closed)' = ~closed
      <3>1. Attempted' = {} /\ UNCHANGED Contract
        BY <1>4, <1>6, <2>1
      <3>2. (wpc'[w] \in {"restore", "book"}) = FALSE
        BY <2>1
      <3>3. Answered' = FALSE
        BY <1>4, <3>2, Zenon
      <3>4. (~closed)' = ~closed
        BY <1>2, Zenon
      <3> QED BY <3>1, <3>3, <3>4, Zenon
    <2>6. Source!Over(d)
      <3>1. fails'[d] = n
        BY <1>1, <2>1
      <3>2. rest' = [rest EXCEPT ![d] = Source!Earned(d, fails'[d])]
        BY <2>1, <2>3, <3>1
      <3> QED BY <2>5, <3>2 DEF Source!Over
    <2>7. Source!Fault(d)
      BY <1>3, <2>1, <2>2, <2>4, <2>6 DEF Source!Fault
    <2> QED BY <1>1, <2>7 DEF Source!Next
  <1> QED BY <1>7, <1>8, <1>9, <1>10, <1>11, <1>12 DEF Worker

\* The lane implements RestedSource, for every set of datasets, cadence, retry bound,
\* order of triggering and sequence of loop() calls: to the database its two threads,
\* its queue and their restarts are one client that makes one attempt at a time, on
\* the contract in force and never before the rest that is due to the dataset.
THEOREM SourceRefined == Spec => ImplementsSource
  <1>1. Init => SourceInv /\ Source!Init
    <2> SUFFICES ASSUME Init PROVE SourceInv /\ Source!Init
      OBVIOUS
    <2>1. Told /\ Rested /\ Attempted = {} /\ Answered = FALSE /\ Contract = {}
      BY DEF Init, Told, Rested, Attempted, Answered, Contract
    <2> QED BY <2>1, SpacingInit DEF SourceInv, Source!Init, Source!Zero, Init
  <1>2. SourceInv /\ [Next]_vars => SourceInv'
    BY SpacingStep, ToldStep, RestedStep DEF SourceInv, SpacingInv
  <1>3. SourceInv /\ [Next]_vars => [Source!Next]_(Source!vars)
    <2> SUFFICES ASSUME SourceInv, [Next]_vars PROVE Source!Next \/ Unmoved
      BY DEF Source!vars, Unmoved
    <2> QED BY StepCases, OthersSeen, WorkSeen
  <1> QED BY <1>1, <1>2, <1>3, PTL DEF Spec, ImplementsSource, Source!Spec
================================================================================
