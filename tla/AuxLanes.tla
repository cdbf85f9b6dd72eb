------------------------------ MODULE AuxLanes ------------------------------
(***************************************************************************)
(* The MnT, devices and tacacs_config lanes of PollScheduler               *)
(* (scheduler.py): loop() triggers a lane, which starts a thread of its    *)
(* own per run, guarded by an inflight flag; the three stop protocols; the *)
(* start-up limiter all lanes share; main()'s teardown.                    *)
(*                                                                         *)
(* Deadlines are kept relative to the wall clock, which an administrator   *)
(* or NTP may set back or forward; the limiter's are relative to the       *)
(* monotonic clock.  Thread and scheduler steps take no time, except the   *)
(* synchronous collectors of a cycle, at most MaxCycle ticks, and a        *)
(* collection, at most MaxService.                                         *)
(***************************************************************************)
EXTENDS Integers, FiniteSets

CONSTANTS Lanes,           \* datasets with a lane of their own
          Mnt,             \* "mnt_active_posture"
          Interval,        \* dataset_plan cadence of each
          ScrapeInterval, Backoff,   \* scrape_interval, auth_failure_backoff
          Skew,            \* _WALL_CLOCK_SKEW_TOLERANCE
          MaxFailures,     \* MAX_CONSECUTIVE_FAILURES
          Spacing,         \* startup_rate_limit_seconds
          MaxCycle, MaxService,       \* bounds: ticks of a cycle, a collection
          Jumps, MaxStep,  \* bounds: clock steps, and how far one goes
          MaxJumps, MaxLoops   \* bounds: number of clock steps, of loop()s

ASSUME AuxAssumption ==
  /\ Mnt \in Lanes /\ IsFiniteSet(Lanes)
  /\ Interval \in [Lanes -> Nat \ {0}]
  /\ {ScrapeInterval, MaxFailures} \subseteq Nat \ {0}
  /\ {Backoff, Skew, Spacing, MaxCycle, MaxService} \subseteq Nat
  /\ {MaxStep, MaxJumps, MaxLoops} \subseteq Nat
  /\ Jumps \subseteq -MaxStep..MaxStep

\* Of a lane's threads: the one in _X_worker, and the one it replaced.
Threads == {"last", "older"}
\* A deadline this far back stays passed, also as a cycle's now sees it.
Earliest == -(MaxJumps * MaxStep + MaxCycle)

VARIABLES
  mpc,       \* where the scheduler thread is
  todo,      \* lanes this cycle, or this stop, has still to visit
  joining,   \* the lane whose thread stop joins
  loops, evt,          \* calls of loop(); its shutdown event is set
  nxt,       \* loop()'s nxt - time.time()
  lag,       \* time.time() - the now of run_cycle
  async, inflight, worker,   \* _X_async, _X_inflight, _X_worker is set
  stopping,  \* _mnt_stopping
  tpc,       \* per lane and thread
  sleep, svc,          \* start-up wait left; ticks of the collection
  wait, delay, fails,  \* next_run - time.time(), _scheduled_delay, failures
  slotAt, started,     \* _startup_next_at - monotonic, _startup_started
  closed,    \* clients main() has closed
  spent, jumps,        \* ticks of this cycle, clock steps so far
  moved,     \* the clock went back under loop()'s wait (ghost)
  idle,      \* ticks since the lane's last run or clock step (ghost)
  sinceSlot  \* ticks since the last attempt that had a slot (ghost)

loopVars == <<mpc, todo, joining, loops, evt, nxt, lag, spent, moved>>
laneVars == <<async, inflight, worker, stopping>>
threadVars == <<tpc, sleep, svc>>
planVars == <<wait, delay, fails>>
slotVars == <<slotAt, started, sinceSlot>>
vars == <<loopVars, laneVars, threadVars, planVars, slotVars, closed, jumps, idle>>

Least(a, b) == IF a < b THEN a ELSE b
Greatest(a, b) == IF a > b THEN a ELSE b

Alive(l) == tpc[l]["last"] # "dead"      \* X_worker_alive
Working == {"begin", "slot", "collect"}
Active(l) == {k \in Threads : tpc[l][k] \in Working \cup {"fin"}}

TypeOK ==
  /\ mpc \in {"off", "cycle", "wait", "stop", "join", "down", "exited"}
  /\ todo \subseteq Lanes /\ joining \in Lanes
  /\ loops \in 0..MaxLoops /\ evt \in BOOLEAN
  /\ nxt \in Int /\ nxt <= ScrapeInterval + Skew - Earliest
  /\ lag \in Int /\ lag <= MaxCycle - Earliest
  /\ async \in [Lanes -> BOOLEAN] /\ inflight \in [Lanes -> BOOLEAN]
  /\ worker \in [Lanes -> BOOLEAN]
  /\ stopping \in BOOLEAN
  /\ tpc \in [Lanes -> [Threads -> Working \cup {"fin", "exit", "dead"}]]
  /\ sleep \in [Lanes -> 0..(Spacing * Cardinality(Lanes))]
  /\ svc \in [Lanes -> 0..MaxService]
  /\ wait \in [Lanes -> Int] /\ delay \in [Lanes -> Nat]
  /\ \A l \in Lanes : /\ wait[l] \in Earliest..(delay[l] - Earliest)
                       /\ delay[l] \in 1..Greatest(Interval[l], Backoff)
  /\ fails \in [Lanes -> 0..MaxFailures]
  /\ slotAt \in 0..(Spacing * Cardinality(Lanes)) /\ started \subseteq Lanes
  /\ closed \subseteq {"mnt", "control"}
  /\ spent \in 0..MaxCycle /\ jumps \in 0..MaxJumps /\ moved \in BOOLEAN
  /\ idle \in [Lanes -> Nat] /\ sinceSlot \in 0..Spacing

Init ==
  /\ mpc = "off" /\ todo = {} /\ joining = Mnt
  /\ loops = 0 /\ evt = FALSE /\ nxt = 0 /\ lag = 0 /\ spent = 0 /\ moved = FALSE
  /\ async = [l \in Lanes |-> FALSE] /\ inflight = [l \in Lanes |-> FALSE]
  /\ worker = [l \in Lanes |-> FALSE] /\ stopping = FALSE
  /\ tpc = [l \in Lanes |-> [k \in Threads |-> "dead"]]
  /\ sleep = [l \in Lanes |-> 0] /\ svc = [l \in Lanes |-> 0]
  /\ wait = [l \in Lanes |-> Earliest] /\ delay = Interval
  /\ fails = [l \in Lanes |-> 0]
  /\ slotAt = 0 /\ started = {} /\ closed = {} /\ jumps = 0
  /\ idle = [l \in Lanes |-> 0] /\ sinceSlot = Spacing

----------------------------------------------------------------------------
(* Scheduling rules, with deadlines relative to the time they are read.    *)

\* Mutant: a deadline too far ahead is waited for.
DueForwardOnly(w, d) == w <= 0

\* The deadline has passed, or lies too far ahead to have been set by the
\* current delay: wall time moved back.
Due(w, d) == w <= 0 \/ w > Greatest(1, d) + Skew

\* REST and MnT: fast retry, then the account-safety backoff.
Retry(l, n) == IF n >= MaxFailures THEN Greatest(Interval[l], Backoff)
                                   ELSE Least(Interval[l], ScrapeInterval)

\* The next cadence boundary after deadline, skipping missed ones.
NextDeadline(deadline) ==
  LET next == deadline + ScrapeInterval
  IN  IF deadline > Skew THEN ScrapeInterval
      ELSE IF next > 0 THEN next
      ELSE next + ((-next) \div ScrapeInterval + 1) * ScrapeInterval

----------------------------------------------------------------------------
(* loop() and run_cycle().                                                 *)

\* A lane whose MnT thread outlived its stop is not started again.
StillStopping == stopping /\ Alive(Mnt)

StartLoop ==
  /\ mpc = "off" /\ loops < MaxLoops
  /\ mpc' = "cycle" /\ todo' = Lanes /\ loops' = loops + 1
  /\ evt' = FALSE /\ nxt' = 0 /\ lag' = 0 /\ spent' = 0 /\ moved' = FALSE
  /\ stopping' = StillStopping
  /\ async' = [l \in Lanes |-> TRUE]
  /\ idle' = [l \in Lanes |-> 0]
  /\ UNCHANGED <<joining, inflight, worker, threadVars, planVars, slotVars, closed, jumps>>

\* Mutant: a lane in flight is triggered again.
AdmitDuplicates(l) ==
  /\ ~ (l = Mnt /\ stopping) /\ ~ evt
  /\ Due(IF l = Mnt THEN wait[l] ELSE wait[l] + lag, delay[l])

\* run_cycle reaches the lane.  MnT reads the clock itself, the other two
\* get the cycle's now.
Admit(l) ==
  /\ ~ (l = Mnt /\ stopping) /\ ~ evt
  /\ ~ inflight[l]
  /\ Due(IF l = Mnt THEN wait[l] ELSE wait[l] + lag, delay[l])

Visit(l) ==
  /\ mpc = "cycle" /\ l \in todo /\ (Mnt \in todo => l = Mnt)
  /\ todo' = todo \ {l}
  /\ UNCHANGED <<mpc, joining, loops, evt, nxt, lag, spent, moved, async, stopping,
                 sleep, svc, planVars, slotVars, closed, jumps>>

PassOver(l) ==
  /\ Visit(l) /\ ~ Admit(l)
  /\ UNCHANGED <<inflight, worker, tpc, idle>>

Trigger(l) ==
  /\ Visit(l) /\ Admit(l)
  /\ inflight' = [inflight EXCEPT ![l] = TRUE]
  /\ tpc[l]["older"] = "dead"
  /\ tpc' = [tpc EXCEPT ![l] = [k \in Threads |->
                 IF k = "last" THEN "begin" ELSE tpc[l]["last"]]]
  /\ worker' = [worker EXCEPT ![l] = TRUE]
  /\ idle' = [idle EXCEPT ![l] = 0]

EndCycle ==
  /\ mpc = "cycle" /\ todo = {}
  /\ mpc' = "wait" /\ nxt' = NextDeadline(nxt)
  /\ lag' = 0 /\ spent' = 0
  /\ UNCHANGED <<todo, joining, loops, evt, moved, laneVars, threadVars, planVars,
                 slotVars, closed, jumps, idle>>

NextCycle ==
  /\ mpc = "wait" /\ nxt <= 0 /\ ~ evt
  /\ mpc' = "cycle" /\ todo' = Lanes /\ moved' = FALSE
  /\ UNCHANGED <<joining, loops, evt, nxt, lag, spent, laneVars, threadVars, planVars,
                 slotVars, closed, jumps, idle>>

\* The event wakes every thread that waits for its slot.
SetEvent ==
  /\ evt' = TRUE
  /\ tpc' = [l \in Lanes |-> [k \in Threads |->
                 IF tpc[l][k] = "slot" THEN "fin" ELSE tpc[l][k]]]

\* SIGTERM or SIGINT.
Shutdown ==
  /\ mpc \in {"cycle", "wait"} /\ ~ evt
  /\ SetEvent
  /\ UNCHANGED <<mpc, todo, joining, loops, nxt, lag, spent, moved, laneVars, sleep, svc,
                 planVars, slotVars, closed, jumps, idle>>

\* loop() ends, by the event or because a cycle raised.
LeaveLoop ==
  /\ mpc \in {"cycle", "wait"} /\ (mpc = "wait" => evt)
  /\ mpc' = "stop" /\ todo' = Lanes
  /\ nxt' = 0 /\ lag' = 0 /\ spent' = 0 /\ moved' = FALSE
  /\ idle' = [l \in Lanes |-> 0]
  /\ SetEvent
  /\ UNCHANGED <<joining, loops, laneVars, sleep, svc, planVars, slotVars,
                 closed, jumps>>

----------------------------------------------------------------------------
(* Stop and teardown.                                                      *)

\* MnT refuses runs while it stops and keeps _mnt_async until its thread is
\* gone; the other lanes drop theirs at once.
StopLane(l) ==
  /\ mpc = "stop" /\ l \in todo /\ (Mnt \in todo => l = Mnt)
  /\ todo' = todo \ {l}
  /\ mpc' = IF worker[l] THEN "join" ELSE "stop"
  /\ joining' = l
  /\ async' = [async EXCEPT ![l] = l = Mnt /\ worker[l]]
  /\ stopping' = IF l = Mnt THEN worker[l] ELSE stopping
  /\ UNCHANGED <<loops, evt, nxt, lag, spent, moved, inflight, worker, threadVars,
                 planVars, slotVars, closed, jumps, idle>>

\* join() returns: the thread has ended, or the timeout has passed.
Joined ==
  /\ mpc = "join"
  /\ mpc' = "stop" /\ joining' = Mnt
  /\ IF joining = Mnt /\ ~ Alive(Mnt)
       THEN async' = [async EXCEPT ![Mnt] = FALSE] /\ stopping' = FALSE
       ELSE UNCHANGED <<async, stopping>>
  /\ UNCHANGED <<todo, loops, evt, nxt, lag, spent, moved, inflight, worker,
                 threadVars, planVars, slotVars, closed, jumps, idle>>

LoopReturns ==
  /\ mpc = "stop" /\ todo = {}
  /\ mpc' = "off"
  /\ UNCHANGED <<todo, joining, loops, evt, nxt, lag, spent, moved, laneVars, threadVars,
                 planVars, slotVars, closed, jumps, idle>>

\* Mutant: the MnT client is closed in any case.
CloseBoth ==
  /\ mpc = "off" /\ loops > 0
  /\ mpc' = "down"
  /\ closed' = {"mnt", "control"}
  /\ UNCHANGED <<todo, joining, loops, evt, nxt, lag, spent, moved, laneVars, threadVars,
                 planVars, slotVars, jumps, idle>>

\* main() leaves the MnT client open under a thread that still stops, and
\* closes the control-plane client in any case.
Teardown ==
  /\ mpc = "off" /\ loops > 0
  /\ mpc' = "down"
  /\ closed' = {"control"} \cup (IF Alive(Mnt) THEN {} ELSE {"mnt"})
  /\ UNCHANGED <<todo, joining, loops, evt, nxt, lag, spent, moved, laneVars, threadVars,
                 planVars, slotVars, jumps, idle>>

\* The process ends; its daemon threads end with it.
Exit ==
  /\ mpc = "down"
  /\ mpc' = "exited"
  /\ tpc' = [l \in Lanes |-> [k \in Threads |-> "dead"]]
  /\ UNCHANGED <<todo, joining, loops, evt, nxt, lag, spent, moved, laneVars, sleep, svc,
                 planVars, slotVars, closed, jumps, idle>>

----------------------------------------------------------------------------
(* A lane's thread: _run, between the inflight mark and its removal.       *)

Move(l, k, from, to) == tpc[l][k] = from /\ tpc' = [tpc EXCEPT ![l][k] = to]

\* Between the trigger and the thread's start the clock may have moved.
NotDue(l, k) ==
  /\ Move(l, k, "begin", "fin")
  /\ ~ Due(wait[l], delay[l])
  /\ UNCHANGED <<loopVars, laneVars, sleep, svc, planVars, slotVars, closed, jumps, idle>>

\* Only a dataset's first attempt takes a slot.
Later(l, k) ==
  /\ Move(l, k, "begin", "collect")
  /\ Due(wait[l], delay[l])
  /\ Spacing = 0 \/ l \in started
  /\ UNCHANGED <<loopVars, laneVars, sleep, svc, planVars, slotVars, closed, jumps, idle>>

\* Mutants: the next slot is not moved; the lane is not remembered.
ReserveUnspaced(l) == slotAt' = slotAt /\ started' = started \cup {l}
ReserveForgetful(l) == slotAt' = slotAt + Spacing /\ started' = started

ReserveSlot(l) == slotAt' = slotAt + Spacing /\ started' = started \cup {l}

\* _wait_for_startup_slot: reserve under the lock, then wait interruptibly.
Reserve(l, k) ==
  /\ Due(wait[l], delay[l])
  /\ Spacing > 0 /\ l \notin started
  /\ ReserveSlot(l)
  /\ sleep' = [sleep EXCEPT ![l] = slotAt]
  /\ Move(l, k, "begin", IF slotAt > 0 /\ evt THEN "fin" ELSE "slot")
  /\ UNCHANGED <<loopVars, laneVars, svc, planVars, sinceSlot, closed, jumps, idle>>

TakeSlot(l, k) ==
  /\ Move(l, k, "slot", "collect")
  /\ sleep[l] = 0
  /\ sinceSlot' = 0
  /\ UNCHANGED <<loopVars, laneVars, sleep, svc, planVars, slotAt, started, closed, jumps, idle>>

Schedule(l, d) ==
  /\ wait' = [wait EXCEPT ![l] = d]
  /\ delay' = [delay EXCEPT ![l] = d]

Collected(l, k) ==
  /\ Move(l, k, "collect", "fin")
  /\ idle' = [idle EXCEPT ![l] = 0]
  /\ svc' = [svc EXCEPT ![l] = 0]
  /\ UNCHANGED <<loopVars, laneVars, sleep, slotVars, closed, jumps>>

Succeed(l, k) ==
  /\ Collected(l, k)
  /\ Schedule(l, Interval[l])
  /\ fails' = [fails EXCEPT ![l] = 0]

\* record_failure, and the retry it earns: also what recovers MnT's thread
\* when the bookkeeping itself raised.
BackOff(l) ==
  /\ fails' = [fails EXCEPT ![l] = Least(fails[l] + 1, MaxFailures)]
  /\ Schedule(l, Retry(l, fails'[l]))

FailRun(l, k) == Collected(l, k) /\ BackOff(l)

\* The other two lanes only log an exception of the bookkeeping.
CrashRun(l, k) ==
  /\ l # Mnt
  /\ Collected(l, k)
  /\ UNCHANGED planVars

\* finally: the lane is free, the thread not yet gone.
Release(l, k) ==
  /\ Move(l, k, "fin", "exit")
  /\ inflight' = [inflight EXCEPT ![l] = FALSE]
  /\ UNCHANGED <<loopVars, async, worker, stopping, sleep, svc, planVars, slotVars,
                 closed, jumps, idle>>

EndThread(l, k) ==
  /\ Move(l, k, "exit", "dead")
  /\ UNCHANGED <<loopVars, laneVars, sleep, svc, planVars, slotVars, closed, jumps, idle>>

ThreadStep(l, k) ==
  \/ NotDue(l, k) \/ Later(l, k) \/ Reserve(l, k) \/ TakeSlot(l, k)
  \/ Succeed(l, k) \/ FailRun(l, k) \/ CrashRun(l, k)
  \/ Release(l, k) \/ EndThread(l, k)

----------------------------------------------------------------------------
(* Time.                                                                   *)

\* loop() waits for a deadline that a step of the clock has moved away.
Suspended == mpc = "wait" /\ moved

\* Nothing that takes no time is left to do.  The time of a stop is not
\* counted: its joins end or time out at any point.
MayWait(l) == \A k \in Threads :
  /\ tpc[l][k] \in {"dead", "slot", "collect"}
  /\ tpc[l][k] = "slot" => sleep[l] > 0
  /\ tpc[l][k] = "collect" => svc[l] < MaxService

Tick ==
  /\ \A l \in Lanes : MayWait(l)
  /\ \/ mpc = "cycle" /\ spent < MaxCycle
     \/ mpc = "wait" /\ nxt > 0
  /\ spent' = IF mpc = "cycle" THEN spent + 1 ELSE spent
  /\ lag' = IF mpc = "cycle" THEN lag + 1 ELSE lag
  /\ nxt' = nxt - 1
  /\ sleep' = [l \in Lanes |-> Greatest(0, sleep[l] - 1)]
  /\ svc' = [l \in Lanes |-> IF \E k \in Threads : tpc[l][k] = "collect"
                               THEN svc[l] + 1 ELSE svc[l]]
  /\ wait' = [l \in Lanes |-> Greatest(Earliest, wait[l] - 1)]
  /\ slotAt' = Greatest(0, slotAt - 1)
  /\ sinceSlot' = Least(Spacing, sinceSlot + 1)
  /\ idle' = [l \in Lanes |-> IF Suspended \/ Active(l) # {} \/ (l = Mnt /\ stopping)
                                THEN idle[l] ELSE idle[l] + 1]
  /\ UNCHANGED <<mpc, todo, joining, loops, evt, moved, laneVars, tpc, delay, fails,
                 started, closed, jumps>>

\* The wall clock is set by n; the monotonic clock is not.
ClockStep(n) ==
  /\ mpc \in {"cycle", "wait"} /\ jumps < MaxJumps
  /\ jumps' = jumps + 1
  /\ wait' = [l \in Lanes |-> Greatest(Earliest, wait[l] - n)]
  /\ nxt' = nxt - n
  /\ lag' = IF mpc = "cycle" THEN lag + n ELSE lag
  /\ moved' = (moved \/ (mpc = "wait" /\ n < 0))
  /\ idle' = [l \in Lanes |-> 0]
  /\ UNCHANGED <<mpc, todo, joining, loops, evt, spent, laneVars, threadVars,
                 delay, fails, slotVars, closed>>

Next ==
  \/ StartLoop \/ EndCycle \/ NextCycle \/ Shutdown \/ LeaveLoop
  \/ Joined \/ LoopReturns \/ Teardown \/ Exit
  \/ \E l \in Lanes : PassOver(l) \/ Trigger(l) \/ StopLane(l)
  \/ \E l \in Lanes, k \in Threads : ThreadStep(l, k)
  \/ Tick
  \/ \E n \in Jumps : ClockStep(n)

Spec == Init /\ [][Next]_vars

----------------------------------------------------------------------------
(* Properties.                                                             *)

(* A lane never runs its collector twice at once, across cycles, stops     *)
(* whose join timed out and restarts of loop(); and the inflight mark is   *)
(* held exactly as long as a run is, so it is never left behind (1082,     *)
(* 1186, 1243).                                                            *)
OneCollection ==
  \A l \in Lanes :
    /\ Cardinality(Active(l)) <= 1
    /\ mpc # "exited" => (inflight[l] <=> Active(l) # {})

(* main() never closes the MnT client under a thread that may still use it *)
(* (275-281): what the alive check looks at is the one thread that can be  *)
(* running.                                                                *)
MntClientUse ==
  "mnt" \in closed => \A k \in Threads : tpc[Mnt][k] \notin Working

(* First attempts that had to take a slot start at least the configured    *)
(* spacing apart, whichever threads reserve in between (798-803).          *)
SlotsSpaced ==
  [][\A l \in Lanes, k \in Threads : TakeSlot(l, k) => sinceSlot = Spacing]_vars

(* However the wall clock is set, a lane that is free is run again within  *)
(* its delay, the skew allowance of the lane and of loop(), two scrape     *)
(* intervals and the cycles around them (227-235, 607-616).  Left out:     *)
(* ticks in which loop() itself waits for a boundary that a step back has  *)
(* moved away (1403), and an MnT lane that was not started because its     *)
(* last thread still stops.                                                *)
NoSuspension ==
  \A l \in Lanes :
    mpc \in {"cycle", "wait"} /\ ~ evt =>
      idle[l] <= Greatest(1, delay[l]) + 2 * (Skew + ScrapeInterval + 2 * MaxCycle)
=============================================================================
