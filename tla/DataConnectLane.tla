---------------------------- MODULE DataConnectLane ----------------------------
(***************************************************************************)
(* The serialized Data Connect lane of PollScheduler (scheduler.py): the   *)
(* scheduler thread that runs loop()/run_cycle() and enqueues due          *)
(* datasets, the worker thread that dequeues and runs them, schema         *)
(* readiness and incompatibility, retry scheduling, and the start, stop    *)
(* and restart of the worker around loop().                                *)
(*                                                                         *)
(* Time is relative.  A tick moves wall time forward by one unit: due[d]   *)
(* is next_run - now (0 once it has passed), queue items age.  The wall    *)
(* clock does not move back here (_due's allowance for that is kept; the   *)
(* README discusses clock corrections).  Steps of the two threads take no  *)
(* time except the callback and the startup wait, which take at most       *)
(* MaxService ticks (queries are capped at 15 s, the cooldown by the       *)
(* pacing configuration).                                                  *)
(***************************************************************************)
EXTENDS LaneQueue, FiniteSets

CONSTANTS Schema,          \* "dataconnect_schema"
          Order,           \* the order in which run_cycle triggers the lane
          Interval,        \* dataset_plan cadence of each dataset
          SlowInterval,    \* slow_interval
          MinRetry,        \* the 300 s floor of _failure_retry
          SchemaRetryMax,  \* the 3600 s ceiling of a schema retry
          Skew,            \* _WALL_CLOCK_SKEW_TOLERANCE
          MaxFailures,     \* MAX_CONSECUTIVE_FAILURES
          MaxService,      \* bound: ticks one dataset holds the worker
          MaxLoops         \* bound: calls of loop()

ASSUME LaneConstants ==
  /\ IsFiniteSet(Lane) /\ Schema \in Lane
  /\ \A d \in Lane : Priority[Schema] <= Priority[d]
  /\ Len(Order) > 0 /\ Order \in Seq(Lane)
  /\ Interval \in [Lane -> Nat \ {0}]
  /\ SlowInterval \in Nat \ {0} /\ MinRetry \in Nat \ {0}
  /\ SchemaRetryMax \in Nat \ {0} /\ Skew \in Nat
  /\ MaxFailures \in Nat \ {0} /\ MaxService \in Nat
  /\ MaxLoops \in Nat

Reporting == Lane \ {Schema}
Workers == 1..MaxLoops

VARIABLES
  \* scheduler thread
  mpc,       \* where loop() is
  mi,        \* which dataset of Order run_cycle has reached
  loops,     \* loop() calls so far
  evt,       \* the shutdown event passed to the current loop() is set
  bound,     \* self._shutdown is that event (else an earlier, set one)
  torn,      \* main() has torn the process down
  closed,    \* main() closed the Data Connect client
  \* lane state shared by the threads
  queue,     \* _dataconnect_queue._items
  unfinished, \* _dataconnect_queue.unfinished_tasks
  inflight,  \* _dataconnect_inflight
  queuedAt,  \* keys of _dataconnect_queued_at
  busy,      \* _dataconnect_busy
  async,     \* _dataconnect_async
  stopping,  \* _dataconnect_stopping
  ready,     \* _dataconnect_schema_ready
  failures,  \* _dataconnect_schema_failures
  last,      \* _dataconnect_worker: the thread created last, 0 for None
  \* worker threads
  wpc,       \* where each worker is; "dead" before start and after return
  wcur,      \* the dataset a worker has dequeued
  wok,       \* collectors.outcome of the attempt it has finished
  svc,       \* ticks the current dataset has held the worker
  \* schedule
  due,       \* next_run - now, 0 once it has passed
  delay,     \* _scheduled_delay
  fails,     \* consecutive failures, up to MaxFailures
  rest       \* ticks left of the delay earned by the last attempt (ghost)

loopVars == <<mpc, mi, loops, evt, bound, torn, closed>>
queueVars == <<queue, unfinished, inflight, queuedAt, busy>>
schemaVars == <<ready, failures>>
workerVars == <<wpc, wcur, wok, svc>>
scheduleVars == <<due, delay, fails, rest>>
vars == <<loopVars, queueVars, async, stopping, schemaVars, last, workerVars,
          scheduleVars>>

Shut == ~bound \/ evt                  \* self._shutdown.is_set()
Alive == last # 0 /\ wpc[last] # "dead"  \* dataconnect_worker_alive
Holding == {"recheck", "start", "call", "restore", "book", "finish"}
Held == {wcur[w] : w \in {v \in Workers : wpc[v] \in Holding}}

Init ==
  /\ mpc = "off" /\ mi = 1 /\ loops = 0
  /\ evt = FALSE /\ bound = TRUE /\ torn = FALSE /\ closed = FALSE
  /\ queue = <<>> /\ unfinished = 0 /\ inflight = {} /\ queuedAt = {}
  /\ busy = FALSE /\ async = FALSE /\ stopping = FALSE
  \* DataConnectClient starts with schema_ready false: __init__ blocks every
  \* reporting dataset as schema_validation_pending.
  /\ ready = FALSE /\ failures = Reporting
  /\ last = 0
  /\ wpc = [w \in Workers |-> "dead"]
  /\ wcur = [w \in Workers |-> Schema]
  /\ wok = [w \in Workers |-> FALSE]
  /\ svc = 0
  /\ due = [d \in Lane |-> 0] /\ delay = Interval
  /\ fails = [d \in Lane |-> 0] /\ rest = [d \in Lane |-> 0]

--------------------------------------------------------------------------------
(* Scheduling rules *)

Least(a, b) == IF a < b THEN a ELSE b
Greatest(a, b) == IF a > b THEN a ELSE b

\* _due: the deadline has passed, or lies farther ahead than the delay that
\* set it plus the skew allowance, so wall time moved back.
Due(d) == due[d] = 0 \/ due[d] > Greatest(1, delay[d]) + Skew

\* Mutant: failed schema and reporting work retries at the next cycle.
EagerRetry(d, n) == 0

\* _failure_retry for the Data Connect source, after n consecutive failures.
Retry(d, n) ==
  IF n >= MaxFailures THEN Greatest(SlowInterval, Interval[d])
  ELSE IF d = Schema
    THEN Greatest(MinRetry, Least(Interval[d], SchemaRetryMax))
    ELSE Greatest(MinRetry, Least(Interval[d], SlowInterval))

Bump(n) == Least(MaxFailures, n + 1)

\* What an attempt earns its dataset: its cadence after a success or once the
\* failures are persistent, the five-minute floor after an early failure.
Earned(d, ok, n) == IF ok \/ n >= MaxFailures THEN Interval[d] ELSE MinRetry

\* _set_next_run and _scheduled_delay after an attempt that ends now, the nth
\* failure in a row unless it succeeded.
Reschedule(d, ok, n) ==
  LET k == IF ok THEN Interval[d] ELSE Retry(d, n) IN
    /\ due' = [due EXCEPT ![d] = k]
    /\ delay' = [delay EXCEPT ![d] = k]
    /\ rest' = [rest EXCEPT ![d] = Earned(d, ok, n)]

--------------------------------------------------------------------------------
(* Scheduler thread: run_cycle *)

\* _dataconnect_dataset_enqueue_blocked.
EnqueueBlocked(d) ==
  /\ d # Schema
  /\ IF ready THEN d \in failures ELSE ~(async /\ Schema \in inflight)

NextDataset ==
  IF mi < Len(Order) THEN mi' = mi + 1 /\ mpc' = "check"
                     ELSE mi' = 1 /\ mpc' = "sleep"

\* _run_dataconnect, first half: the schema is consulted outside the lane lock.
MainCheck ==
  /\ mpc = "check"
  /\ IF EnqueueBlocked(Order[mi]) THEN NextDataset
                                  ELSE mpc' = "put" /\ UNCHANGED mi
  /\ UNCHANGED <<loops, evt, bound, torn, closed, queueVars, async, stopping,
                 schemaVars, last, workerVars, scheduleVars>>

\* Mutant: queued work is not coalesced with work already in flight.
AdmitDuplicates(d) == ~stopping /\ ~Shut /\ Due(d)

Admit(d) == ~stopping /\ ~Shut /\ d \notin inflight /\ Due(d)

\* _run_dataconnect, second half, under _dataconnect_lock.
MainPut ==
  /\ mpc = "put"
  /\ LET d == Order[mi] IN
       IF Admit(d)
         THEN /\ queue' = Put(queue, d)
              /\ unfinished' = unfinished + 1
              /\ inflight' = inflight \cup {d}
              /\ queuedAt' = queuedAt \cup {d}
         ELSE UNCHANGED <<queue, unfinished, inflight, queuedAt>>
  /\ NextDataset
  /\ UNCHANGED <<loops, evt, bound, torn, closed, busy, async, stopping,
                 schemaVars, last, workerVars, scheduleVars>>

--------------------------------------------------------------------------------
(* Scheduler thread: loop(), the worker's start and stop, main()'s teardown *)

\* Mutant: abandoned items are dropped without task_done().
DiscardSilently ==
  /\ queue' = <<>>
  /\ inflight' = {} /\ queuedAt' = {} /\ busy' = FALSE
  /\ UNCHANGED unfinished

\* _discard_dataconnect_pending.
Discard ==
  /\ queue' = <<>>
  /\ unfinished' = Greatest(0, unfinished - Len(queue))
  /\ inflight' = {} /\ queuedAt' = {} /\ busy' = FALSE

\* Mutant: a restarted loop always starts its own worker.
StartAnyway == FALSE

\* _start_dataconnect_worker returns early while the old worker is alive.
StillOwned == async /\ Alive

\* loop() is entered: _start_dataconnect_worker.
LoopStart ==
  /\ mpc = "off" /\ ~torn /\ loops < MaxLoops
  /\ loops' = loops + 1
  /\ evt' = FALSE
  /\ mpc' = "bind"
  /\ IF StillOwned
       THEN /\ bound' = FALSE
            /\ UNCHANGED <<queueVars, async, stopping, last, wpc>>
       ELSE /\ IF stopping THEN Discard ELSE UNCHANGED queueVars
            /\ stopping' = FALSE /\ async' = TRUE /\ bound' = TRUE
            /\ last' = loops + 1
            /\ wpc' = [wpc EXCEPT ![loops + 1] = "get"]
  /\ UNCHANGED <<mi, torn, closed, schemaVars, wcur, wok, svc, scheduleVars>>

\* The other lanes' start functions install the event in self._shutdown.
LoopBind ==
  /\ mpc = "bind"
  /\ bound' = TRUE
  /\ mpc' = "sleep"
  /\ UNCHANGED <<mi, loops, evt, torn, closed, queueVars, async, stopping,
                 schemaVars, last, workerVars, scheduleVars>>

\* Mutant: only the sleep between cycles is cut short by the event.
WakeAnyway ==
  /\ mpc = "sleep"
  /\ mpc' = "check"
  /\ UNCHANGED <<mi, loops, evt, bound, torn, closed, queueVars, async, stopping,
                 schemaVars, last, workerVars, scheduleVars>>

\* The cadence boundary is reached: another run_cycle.
LoopWake ==
  /\ mpc = "sleep" /\ ~evt
  /\ mpc' = "check"
  /\ UNCHANGED <<mi, loops, evt, bound, torn, closed, queueVars, async, stopping,
                 schemaVars, last, workerVars, scheduleVars>>

\* SIGTERM or SIGINT.
Signal ==
  /\ mpc # "off" /\ ~evt
  /\ evt' = TRUE
  /\ UNCHANGED <<mpc, mi, loops, bound, torn, closed, queueVars, async,
                 stopping, schemaVars, last, workerVars, scheduleVars>>

\* The while condition sees the event.
LoopExit ==
  /\ mpc = "sleep" /\ evt
  /\ mpc' = "stop"
  /\ UNCHANGED <<mi, loops, evt, bound, torn, closed, queueVars, async,
                 stopping, schemaVars, last, workerVars, scheduleVars>>

\* run_cycle raises: the finally clause sets the event first.
LoopRaise ==
  /\ mpc \in {"check", "put"}
  /\ evt' = TRUE
  /\ mpc' = "stop" /\ mi' = 1
  /\ UNCHANGED <<loops, bound, torn, closed, queueVars, async, stopping,
                 schemaVars, last, workerVars, scheduleVars>>

\* Mutant: the worker is expected to notice the flag by itself.
StopSilently ==
  /\ mpc = "stop"
  /\ stopping' = TRUE
  /\ mpc' = "join"
  /\ UNCHANGED <<mi, loops, evt, bound, torn, closed, queueVars, async,
                 schemaVars, last, workerVars, scheduleVars>>

\* _stop_dataconnect_worker up to the join.
StopPut ==
  /\ mpc = "stop"
  /\ stopping' = TRUE
  /\ queue' = Put(queue, Sentinel)
  /\ unfinished' = unfinished + 1
  /\ mpc' = "join"
  /\ UNCHANGED <<mi, loops, evt, bound, torn, closed, inflight, queuedAt, busy,
                 async, schemaVars, last, workerVars, scheduleVars>>

\* The worker has returned within the bounded join.
JoinDone ==
  /\ mpc = "join" /\ ~Alive
  /\ async' = FALSE /\ stopping' = FALSE
  /\ Discard
  /\ mpc' = "off"
  /\ UNCHANGED <<mi, loops, evt, bound, torn, closed, schemaVars, last,
                 workerVars, scheduleVars>>

\* The join timed out: the lane stays marked as stopping.
JoinTimeout ==
  /\ mpc = "join" /\ Alive
  /\ mpc' = "off"
  /\ UNCHANGED <<mi, loops, evt, bound, torn, closed, queueVars, async,
                 stopping, schemaVars, last, workerVars, scheduleVars>>

\* Mutant: main() closes the client whatever the worker does.
TeardownAlways ==
  /\ mpc = "off" /\ loops > 0 /\ ~torn
  /\ torn' = TRUE /\ closed' = TRUE
  /\ UNCHANGED <<mpc, mi, loops, evt, bound, queueVars, async, stopping,
                 schemaVars, last, workerVars, scheduleVars>>

\* main()'s finally clause: the client is closed unless its worker is alive.
Teardown ==
  /\ mpc = "off" /\ loops > 0 /\ ~torn
  /\ torn' = TRUE /\ closed' = ~Alive
  /\ UNCHANGED <<mpc, mi, loops, evt, bound, queueVars, async, stopping,
                 schemaVars, last, workerVars, scheduleVars>>

--------------------------------------------------------------------------------
(* Worker thread: _dataconnect_worker_loop and _run *)

Goto(w, l) == wpc' = [wpc EXCEPT ![w] = l]
TaskDone == unfinished' = Greatest(0, unfinished - 1)

\* get() returns the sentinel: the worker returns.
WorkerExit(w) ==
  /\ wpc[w] = "get"
  /\ \E k \in DOMAIN queue :
       /\ IsBest(queue, k) /\ queue[k].name = Sentinel
       /\ queue' = PopAt(queue, k)
  /\ TaskDone
  /\ Goto(w, "dead")
  /\ UNCHANGED <<loopVars, inflight, queuedAt, busy, async, stopping,
                 schemaVars, last, wcur, wok, svc, scheduleVars>>

\* get() returns a dataset.
WorkerGet(w) ==
  /\ wpc[w] = "get"
  /\ \E k \in DOMAIN queue :
       /\ IsBest(queue, k) /\ queue[k].name # Sentinel
       /\ queue' = PopAt(queue, k)
       /\ wcur' = [wcur EXCEPT ![w] = queue[k].name]
  /\ Goto(w, "recheck")
  /\ UNCHANGED <<loopVars, unfinished, inflight, queuedAt, busy, async,
                 stopping, schemaVars, last, wok, svc, scheduleVars>>

\* Mutant: the schema proof of enqueue time is trusted at dequeue time.
TrustEnqueue(d) == FALSE

\* _dataconnect_dataset_blocked.
Blocked(d) == d # Schema /\ (~ready \/ d \in failures)

\* Under the lane lock after get(): return on shutdown, discard incompatible
\* work, or claim the lane.
WorkerRecheck(w) ==
  /\ wpc[w] = "recheck"
  /\ queuedAt' = queuedAt \ {wcur[w]}
  /\ \/ /\ Shut
        /\ inflight' = inflight \ {wcur[w]}
        /\ TaskDone
        /\ Goto(w, "dead")
        /\ UNCHANGED busy
     \/ /\ ~Shut /\ Blocked(wcur[w])
        /\ inflight' = inflight \ {wcur[w]}
        /\ TaskDone
        /\ Goto(w, "get")
        /\ UNCHANGED busy
     \/ /\ ~Shut /\ ~Blocked(wcur[w])
        /\ busy' = TRUE
        /\ Goto(w, "start")
        /\ UNCHANGED <<inflight, unfinished>>
  /\ UNCHANGED <<loopVars, queue, async, stopping, schemaVars, last, wcur, wok,
                 svc, scheduleVars>>

\* _run does nothing: no longer due, or the startup wait of a first attempt
\* (taken here by any attempt) was interrupted.
WorkerSkip(w) ==
  /\ wpc[w] = "start"
  /\ ~Due(wcur[w]) \/ Shut
  /\ Goto(w, "finish")
  /\ UNCHANGED <<loopVars, queueVars, async, stopping, schemaVars, last, wcur,
                 wok, svc, scheduleVars>>

\* _run begins the attempt: the callback is called.
WorkerStart(w) ==
  /\ wpc[w] = "start"
  /\ Due(wcur[w])
  /\ Goto(w, "call")
  /\ UNCHANGED <<loopVars, queueVars, async, stopping, schemaVars, last, wcur,
                 wok, svc, scheduleVars>>

\* Mutant: a success does not end the row of failures.
OutcomeForgetful(w, ok) ==
  /\ wok' = [wok EXCEPT ![w] = ok]
  /\ fails' = [fails EXCEPT ![wcur[w]] = IF ok THEN @ ELSE Bump(@)]

\* What observe() records when the attempt ends.
Outcome(w, ok) ==
  /\ wok' = [wok EXCEPT ![w] = ok]
  /\ fails' = [fails EXCEPT ![wcur[w]] = IF ok THEN 0 ELSE Bump(@)]

\* A reporting callback, or a schema inspection that fails, ends.
WorkerCallback(w) ==
  /\ wpc[w] = "call"
  /\ \E ok \in BOOLEAN : (wcur[w] = Schema => ~ok) /\ Outcome(w, ok)
  /\ Goto(w, "book")
  /\ UNCHANGED <<loopVars, queueVars, async, stopping, schemaVars, last, wcur,
                 svc, due, delay, rest>>

\* The dataset sets inspect_dataconnect_schema can report as incompatible.
Incompatible == SUBSET Reporting

\* _collect_dataconnect_schema: inspection succeeds, _apply_dataconnect_schema
\* publishes the incompatible set; closing observe() may still fail.
WorkerApplySchema(w) ==
  /\ wpc[w] = "call" /\ wcur[w] = Schema
  /\ failures' \in Incompatible
  /\ ready' = TRUE
  /\ \E ok \in BOOLEAN :
       /\ Outcome(w, ok)
       /\ Goto(w, IF ~ready /\ ok THEN "restore" ELSE "book")
  /\ UNCHANGED <<loopVars, queueVars, async, stopping, last, wcur, svc, due,
                 delay, rest>>

\* _restore_dataconnect_state: each compatible dataset with an acceptable
\* persisted snapshot (no older than two intervals, no later than the skew
\* allowance) is scheduled one interval after that snapshot.
Remaining(d) == 0..(Interval[d] + Skew)

WorkerRestore(w) ==
  /\ wpc[w] = "restore"
  /\ \E R \in SUBSET (Reporting \ failures) :
       \E left \in [R -> UNION {Remaining(d) : d \in R}] :
         /\ \A d \in R : left[d] \in Remaining(d)
         /\ due' = [d \in Lane |-> IF d \in R THEN left[d] ELSE due[d]]
         /\ delay' = [d \in Lane |-> IF d \in R THEN Interval[d] ELSE delay[d]]
  /\ Goto(w, "book")
  /\ UNCHANGED <<loopVars, queueVars, async, stopping, schemaVars, last, wcur,
                 wok, svc, fails, rest>>

\* _run schedules the next attempt.
WorkerBook(w) ==
  /\ wpc[w] = "book"
  /\ Reschedule(wcur[w], wok[w], fails[wcur[w]])
  /\ wok' = [wok EXCEPT ![w] = FALSE]
  /\ Goto(w, "finish")
  /\ UNCHANGED <<loopVars, queueVars, async, stopping, schemaVars, last, wcur,
                 svc, fails>>

\* _run itself raises: _recover_worker_exception.
WorkerRecover(w) ==
  /\ wpc[w] \in {"start", "book"}
  /\ LET d == wcur[w] IN
       /\ fails' = [fails EXCEPT ![d] = Bump(@)]
       /\ Reschedule(d, FALSE, Bump(fails[d]))
  /\ wok' = [wok EXCEPT ![w] = FALSE]
  /\ Goto(w, "finish")
  /\ UNCHANGED <<loopVars, queueVars, async, stopping, schemaVars, last, wcur,
                 svc>>

\* Mutant: a completed dataset is never released for its next run.
FinishLeaky(w) ==
  /\ wpc[w] = "finish"
  /\ busy' = FALSE
  /\ TaskDone
  /\ Goto(w, "get")
  /\ svc' = 0
  /\ UNCHANGED <<loopVars, queue, queuedAt, inflight, async, stopping,
                 schemaVars, last, wcur, wok, scheduleVars>>

\* The finally clauses release the dataset and the lane.
WorkerFinish(w) ==
  /\ wpc[w] = "finish"
  /\ busy' = FALSE
  /\ inflight' = inflight \ {wcur[w]}
  /\ TaskDone
  /\ Goto(w, "get")
  /\ svc' = 0
  /\ UNCHANGED <<loopVars, queue, queuedAt, async, stopping, schemaVars, last,
                 wcur, wok, scheduleVars>>

--------------------------------------------------------------------------------
(* Time *)

InService(w) == wpc[w] \in {"start", "call"}
Prompt(w) == \/ wpc[w] \in Holding /\ ~InService(w)
             \/ wpc[w] = "get" /\ queue # <<>>

Countdown(f) == [d \in Lane |-> IF f[d] > 0 THEN f[d] - 1 ELSE 0]

Tick ==
  /\ \A w \in Workers : ~Prompt(w) /\ (InService(w) => svc < MaxService)
  /\ queue' = Aged(queue)
  /\ due' = Countdown(due) /\ rest' = Countdown(rest)
  /\ svc' = IF \E w \in Workers : InService(w) THEN svc + 1 ELSE svc
  /\ UNCHANGED <<loopVars, unfinished, inflight, queuedAt, busy, async,
                 stopping, schemaVars, last, wpc, wcur, wok, delay, fails>>

--------------------------------------------------------------------------------

Main == \/ MainCheck \/ MainPut \/ LoopBind \/ LoopWake \/ LoopExit
        \/ StopPut \/ JoinDone \/ JoinTimeout

Worker(w) == \/ WorkerExit(w) \/ WorkerGet(w) \/ WorkerRecheck(w)
             \/ WorkerSkip(w) \/ WorkerStart(w) \/ WorkerCallback(w)
             \/ WorkerApplySchema(w) \/ WorkerRestore(w) \/ WorkerBook(w)
             \/ WorkerRecover(w) \/ WorkerFinish(w)

Environment == LoopStart \/ LoopRaise \/ Signal \/ Teardown

Next == Main \/ Environment \/ Tick \/ \E w \in Workers : Worker(w)

Spec == Init /\ [][Next]_vars

\* A running thread keeps running, callbacks return (query timeouts) and time
\* passes.  Signals, restarts, faults and clock corrections owe nothing.
Fairness ==
  /\ WF_vars(Main) /\ WF_vars(Tick)
  /\ \A w \in Workers : WF_vars(Worker(w))

FairSpec == Spec /\ Fairness

--------------------------------------------------------------------------------
(* Properties *)

InLoop == mpc \in {"check", "put", "sleep"}
Running(d) == \E w \in Workers : wpc[w] = "call" /\ wcur[w] = d

TypeOK ==
  /\ mpc \in {"off", "bind", "check", "put", "sleep", "stop", "join"}
  /\ mi \in 1..Len(Order) /\ loops \in 0..MaxLoops /\ last \in 0..MaxLoops
  /\ evt \in BOOLEAN /\ bound \in BOOLEAN /\ torn \in BOOLEAN
  /\ closed \in BOOLEAN /\ busy \in BOOLEAN /\ async \in BOOLEAN
  /\ stopping \in BOOLEAN /\ ready \in BOOLEAN
  /\ queue \in Seq(Item) /\ unfinished \in Nat
  /\ inflight \subseteq Lane /\ queuedAt \subseteq Lane
  /\ failures \subseteq Reporting
  /\ wpc \in [Workers -> Holding \cup {"dead", "get"}]
  /\ wcur \in [Workers -> Lane] /\ wok \in [Workers -> BOOLEAN]
  /\ svc \in Nat
  /\ due \in [Lane -> Nat] /\ delay \in [Lane -> Nat]
  /\ fails \in [Lane -> 0..MaxFailures] /\ rest \in [Lane -> Nat]

\* Coalescing: a dataset is queued or held by a worker at most once, and the
\* in-flight set that run_cycle consults, changed by two threads under two
\* locks, is exactly the datasets that are; the queued_at map behind the queue
\* depth metric lags only by the dequeue in progress.
InflightExact ==
  /\ \A i, j \in DOMAIN queue :
       i # j /\ queue[i].name = queue[j].name => queue[i].name = Sentinel
  /\ Names(queue) \cap Held = {}
  /\ inflight = Names(queue) \cup Held
  /\ queuedAt = Names(queue) \cup
       {wcur[w] : w \in {v \in Workers : wpc[v] = "recheck"}}

\* "the one-worker queue still guarantees that reporting statements never
\* execute concurrently": no restart of loop() after a timed-out stop ever
\* leaves two live workers on the lane.
SerializedLane ==
  \A v, w \in Workers : wpc[v] # "dead" /\ wpc[w] # "dead" => v = w

\* "a newly incompatible dataset never executes one stale-contract statement":
\* while a reporting callback runs, the schema is proved and names its dataset
\* compatible, whatever was published while it waited in the queue.
NoStaleContract ==
  \A d \in Reporting : Running(d) => ready /\ d \notin failures

\* main() never closes the database connection under a worker that could still
\* use it, even when the bounded join timed out.
NoUseAfterClose == closed => \A w \in Workers : wpc[w] = "dead"

\* unfinished_tasks counts the queued items and the one being processed, so
\* join() neither hangs nor returns early, across discards and restarts.
TasksAccounted ==
  unfinished = Len(queue) + Cardinality({w \in Workers : wpc[w] \in Holding})

\* How long work of higher priority can overtake a queued dataset, and how long
\* it then waits for the one run that each other dataset can have left.
Overtaken(d) == (Priority[d] - Priority[Schema]) * AgingLevel
MaxWait(d) == Overtaken(d) + (Cardinality(Lane) - 1) * MaxService

\* The cap on ages lies above every such wait, so that it hides none.
ASSUME AgesCounted == \A d \in Lane : MaxWait(d) < AgeCap

\* Aging bounds the wait "no matter how busy the lane is": a queued dataset is
\* overtaken only by work queued less than its priority distance later, and
\* coalescing leaves at most one run of each other dataset after that.
BoundedWait ==
  InLoop /\ ~evt /\ ~stopping =>
    \A i \in DOMAIN queue : queue[i].age <= MaxWait(queue[i].name)

\* Database protection: no attempt at a dataset starts sooner after the previous
\* one ended than it earned: "retries no faster than five minutes" after an early
\* failure, "the full protected domain cadence" after a success or five failures
\* in a row, although one thread reads the deadline, the other writes it, and
\* restored snapshots and faults of the worker's bookkeeping move it too.
RetrySpacing ==
  [][\A w \in Workers : WorkerStart(w) => rest[wcur[w]] = 0]_vars

\* The attempt a worker has begun and not booked yet, and what the schema allows.
Attempted == {wcur[w] : w \in {v \in Workers : wpc[v] \in {"call", "restore", "book"}}}
Answered == \E w \in Workers : wpc[w] \in {"restore", "book"}
Contract == IF ready THEN Reporting \ failures ELSE {}

Source == INSTANCE RestedSource WITH
  Dataset <- Lane, Inspection <- Schema, Cadence <- Interval, Floor <- MinRetry,
  Persistent <- MaxFailures, attempt <- Attempted, answered <- Answered,
  contract <- Contract, streak <- fails, rest <- rest, open <- ~closed

\* Seen from the database, scheduler thread, queue, workers, stops and restarts
\* are one careful client (RestedSource): one attempt at a time, on the contract
\* in force, never before the rest the last attempts earned has passed, whether
\* the bookkeeping of _run succeeds, fails or is recovered from.
ImplementsSource == Source!Spec

\* Every shutdown request ends loop(), whatever the worker is doing.
LoopEnds == evt ~> mpc = "off"

\* A worker told to stop dies, also when the join gave up waiting for it.
WorkerEnds == stopping ~> \A w \in Workers : wpc[w] = "dead"

\* Every dataset that is and stays compatible is served again and again while
\* loop() runs: no starvation, no dataset stranded in the in-flight set.
Served ==
  \A d \in Reporting :
    (InLoop /\ ready /\ d \notin failures)
      ~> \/ ~InLoop \/ evt \/ stopping \/ d \in failures
         \/ \E w \in Workers : wpc[w] = "start" /\ wcur[w] = d
================================================================================
