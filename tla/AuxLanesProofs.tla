--------------------------- MODULE AuxLanesProofs ---------------------------
(***************************************************************************)
(* The one-thread-per-run lanes for every number of lanes, every interval, *)
(* spacing, number of loop() calls and clock steps: one collection at a    *)
(* time, no MnT client closed in use, start-up slots that stay apart, and  *)
(* no lane that a clock step suspends.                                     *)
(***************************************************************************)
EXTENDS AuxLanes, FiniteSetTheorems, TLAPS

Busy == Working \cup {"fin"}
ThreadStates == Busy \cup {"exit", "dead"}

-----------------------------------------------------------------------------
(* The inductive invariant *)

LaneTypes ==
  /\ mpc \in {"off", "cycle", "wait", "stop", "join", "down", "exited"}
  /\ inflight \in [Lanes -> BOOLEAN]
  /\ tpc \in [Lanes -> [Threads -> ThreadStates]]

\* A thread that was replaced has left its run, because only a lane without the
\* mark is triggered, and the mark stands for the run of the last thread.
OneThread ==
  \A l \in Lanes :
    /\ tpc[l]["older"] \in {"exit", "dead"}
    /\ mpc # "exited" => (inflight[l] <=> tpc[l]["last"] \in Busy)
    /\ mpc = "exited" => tpc[l]["last"] = "dead" /\ tpc[l]["older"] = "dead"

\* The MnT client is closed after the last loop(), with no thread left.
ClosedLast ==
  "mnt" \in closed => mpc \in {"down", "exited"} /\ tpc[Mnt]["last"] = "dead"

LaneInv == LaneTypes /\ OneThread /\ ClosedLast

\* Waiting for a slot: threads that reserved theirs and have not started.
InSlot(l) == tpc[l]["last"] = "slot"

SlotTypes ==
  /\ sleep \in [Lanes -> Nat] /\ slotAt \in Nat /\ sinceSlot \in 0..Spacing

\* Reservations lie a spacing apart from each other, from the next one and from
\* the last start.
Spaced ==
  /\ sinceSlot + slotAt >= Spacing
  /\ \A l \in Lanes : InSlot(l) =>
       /\ sinceSlot + sleep[l] >= Spacing
       /\ sleep[l] + Spacing <= slotAt
  /\ \A l, m \in Lanes : InSlot(l) /\ InSlot(m) /\ l # m =>
       sleep[l] + Spacing <= sleep[m] \/ sleep[m] + Spacing <= sleep[l]

AuxInv == LaneInv /\ SlotTypes /\ Spaced

\* The initial state satisfies the invariant.
LEMMA InitInv == Init => AuxInv
<1> SUFFICES ASSUME Init PROVE AuxInv
  OBVIOUS
<1>1. LaneInv
  BY DEF Init, LaneInv, LaneTypes, OneThread, ClosedLast, Threads, ThreadStates, Busy, Working
<1>2. SlotTypes /\ Spaced
  BY AuxAssumption DEF Init, SlotTypes, Spaced, InSlot, Threads
<1> QED  BY <1>1, <1>2 DEF AuxInv

-----------------------------------------------------------------------------
(* What a thread's step does to tpc *)

\* A thread moves from a state to another; its lane's other thread and the
\* other lanes stay.
LEMMA MoveFacts ==
  ASSUME LaneTypes, NEW l \in Lanes, NEW k \in Threads, NEW a, NEW b \in ThreadStates,
         Move(l, k, a, b)
  PROVE  /\ tpc[l][k] = a /\ tpc'[l][k] = b
         /\ tpc' \in [Lanes -> [Threads -> ThreadStates]]
         /\ \A j \in Threads : j # k => tpc'[l][j] = tpc[l][j]
         /\ \A m \in Lanes : m # l => tpc'[m] = tpc[m]
BY DEF Move, LaneTypes

\* SetEvent takes a waiting thread to the end of its run and moves no other.
LEMMA SetEventFacts ==
  ASSUME LaneTypes, SetEvent
  PROVE  /\ tpc' \in [Lanes -> [Threads -> ThreadStates]]
         /\ \A l \in Lanes, k \in Threads :
              tpc'[l][k] = IF tpc[l][k] = "slot" THEN "fin" ELSE tpc[l][k]
BY DEF SetEvent, LaneTypes, ThreadStates, Busy

-----------------------------------------------------------------------------
(* Lanes: one collection at a time *)

\* Steps of loop() and main() that start or end no thread.
LEMMA LoopKeepsLanes ==
  ASSUME LaneInv,
         \/ StartLoop \/ EndCycle \/ NextCycle \/ Joined \/ LoopReturns
         \/ \E l \in Lanes : PassOver(l) \/ StopLane(l)
         \/ Tick \/ \E n \in Jumps : ClockStep(n)
  PROVE  LaneInv'
<1>1. /\ UNCHANGED <<tpc, inflight, closed>>
      /\ mpc # "down" /\ mpc # "exited"
      /\ mpc' \in {"off", "cycle", "wait", "stop", "join"}
  BY DEF LaneInv, LaneTypes, StartLoop, EndCycle, NextCycle, Joined, LoopReturns, PassOver,
         Visit, StopLane, Tick, ClockStep, threadVars, laneVars
<1> QED  BY <1>1 DEF LaneInv, LaneTypes, OneThread, ClosedLast

\* The shutdown event only ends waits.
LEMMA EventKeepsLanes ==
  ASSUME LaneInv, Shutdown \/ LeaveLoop
  PROVE  LaneInv'
<1>1. /\ SetEvent /\ UNCHANGED <<inflight, closed>>
      /\ mpc \in {"cycle", "wait"} /\ mpc' \in {"cycle", "wait", "stop"}
  BY DEF Shutdown, LeaveLoop, laneVars
<1>2. /\ tpc' \in [Lanes -> [Threads -> ThreadStates]]
      /\ \A l \in Lanes, k \in Threads :
           tpc'[l][k] = IF tpc[l][k] = "slot" THEN "fin" ELSE tpc[l][k]
  BY <1>1, SetEventFacts DEF LaneInv
<1>3. \A l \in Lanes : /\ tpc'[l]["older"] = tpc[l]["older"]
                       /\ tpc'[l]["last"] \in Busy <=> tpc[l]["last"] \in Busy
  BY <1>2 DEF LaneInv, OneThread, Threads, Busy, Working
<1>4. "mnt" \notin closed
  BY <1>1 DEF LaneInv, ClosedLast
<1> QED  BY <1>1, <1>2, <1>3, <1>4 DEF LaneInv, LaneTypes, OneThread, ClosedLast

\* A trigger replaces a thread that has left its run.
LEMMA TriggerKeepsLanes ==
  ASSUME LaneInv, NEW l \in Lanes, Trigger(l)
  PROVE  LaneInv'
<1>1. /\ mpc = "cycle" /\ mpc' = mpc /\ closed' = closed /\ ~inflight[l]
      /\ inflight' = [inflight EXCEPT ![l] = TRUE]
      /\ tpc' = [tpc EXCEPT ![l] = [k \in Threads |->
                    IF k = "last" THEN "begin" ELSE tpc[l]["last"]]]
  BY DEF Trigger, Visit, Admit
<1>2. tpc[l]["last"] \in {"exit", "dead"}
  BY <1>1 DEF LaneInv, LaneTypes, OneThread, ThreadStates, Threads
<1>3. /\ tpc'[l] \in [Threads -> ThreadStates]
      /\ tpc'[l]["last"] = "begin" /\ tpc'[l]["older"] \in {"exit", "dead"}
      /\ \A m \in Lanes : m # l => tpc'[m] = tpc[m] /\ inflight'[m] = inflight[m]
      /\ inflight'[l] = TRUE
  BY <1>1, <1>2 DEF LaneInv, LaneTypes, Threads, ThreadStates, Busy, Working
<1>4. LaneTypes'
  BY <1>1, <1>3 DEF LaneInv, LaneTypes
<1>5. OneThread'
  BY <1>1, <1>3 DEF LaneInv, OneThread, Busy, Working
<1>6. ClosedLast'
  BY <1>1 DEF LaneInv, ClosedLast
<1> QED  BY <1>4, <1>5, <1>6 DEF LaneInv

\* The end of the process.
LEMMA MainKeepsLanes ==
  ASSUME LaneInv, Teardown \/ Exit
  PROVE  LaneInv'
<1>1. CASE Teardown
  BY <1>1 DEF Teardown, LaneInv, LaneTypes, OneThread, ClosedLast, Alive, laneVars, threadVars
<1>2. CASE Exit
  <2>1. \A l \in Lanes : tpc'[l]["last"] = "dead" /\ tpc'[l]["older"] = "dead"
    BY <1>2 DEF Exit, Threads
  <2>2. LaneTypes'
    BY <1>2 DEF Exit, LaneInv, LaneTypes, laneVars, ThreadStates
  <2> QED  BY <1>2, <2>1, <2>2, AuxAssumption DEF Exit, LaneInv, OneThread, ClosedLast
<1> QED  BY <1>1, <1>2

\* A thread's step within its run keeps the mark; Release gives it back with the
\* run; the last step only ends the thread.
LEMMA ThreadKeepsLanes ==
  ASSUME LaneInv, NEW l \in Lanes, NEW k \in Threads, ThreadStep(l, k)
  PROVE  LaneInv'
<1>1. /\ mpc' = mpc /\ closed' = closed
      /\ \E a, b \in ThreadStates :
           /\ Move(l, k, a, b)
           /\ \/ a \in Busy /\ b \in Busy /\ inflight' = inflight
              \/ a = "fin" /\ b = "exit" /\ inflight' = [inflight EXCEPT ![l] = FALSE]
              \/ a = "exit" /\ b = "dead" /\ inflight' = inflight
  BY DEF ThreadStep, NotDue, Later, Reserve, TakeSlot, Succeed, FailRun, CrashRun,
         Collected, Release, EndThread, loopVars, laneVars, ThreadStates, Busy, Working
<1>2. PICK a \in ThreadStates, b \in ThreadStates :
           /\ Move(l, k, a, b)
           /\ \/ a \in Busy /\ b \in Busy /\ inflight' = inflight
              \/ a = "fin" /\ b = "exit" /\ inflight' = [inflight EXCEPT ![l] = FALSE]
              \/ a = "exit" /\ b = "dead" /\ inflight' = inflight
  BY <1>1
<1>3. /\ tpc[l][k] = a /\ tpc'[l][k] = b
      /\ tpc' \in [Lanes -> [Threads -> ThreadStates]]
      /\ \A j \in Threads : j # k => tpc'[l][j] = tpc[l][j]
      /\ \A m \in Lanes : m # l => tpc'[m] = tpc[m]
  BY <1>2, MoveFacts DEF LaneInv
<1>4. k = "last" \/ (k = "older" /\ a = "exit" /\ b = "dead" /\ inflight' = inflight)
  BY <1>2, <1>3 DEF Threads, LaneInv, OneThread, Busy, Working
<1>5. mpc # "exited"
  BY <1>2, <1>3 DEF Threads, LaneInv, OneThread, Busy, Working
<1>6. LaneTypes'
  BY <1>1, <1>2, <1>3 DEF LaneInv, LaneTypes
<1>7. OneThread'
  <2> SUFFICES ASSUME NEW m \in Lanes
               PROVE  /\ tpc'[m]["older"] \in {"exit", "dead"}
                      /\ inflight'[m] <=> tpc'[m]["last"] \in Busy
    BY <1>1, <1>5 DEF OneThread
  <2>1. CASE m # l
    BY <1>2, <1>3, <1>5, <2>1 DEF LaneInv, LaneTypes, OneThread
  <2>2. CASE m = l /\ k = "older"
    BY <1>3, <1>4, <1>5, <2>2 DEF LaneInv, OneThread, Threads
  <2>3. CASE m = l /\ k = "last"
    <3>1. tpc'[l]["older"] = tpc[l]["older"]
      BY <1>3, <2>3 DEF Threads
    <3>2. inflight'[l] <=> b \in Busy
      BY <1>2, <1>3, <1>5, <2>3 DEF LaneInv, LaneTypes, OneThread, Busy, Working
    <3> QED  BY <1>3, <2>3, <3>1, <3>2 DEF LaneInv, OneThread
  <2> QED  BY <2>1, <2>2, <2>3, <1>4
<1>8. ClosedLast'
  <2> SUFFICES ASSUME "mnt" \in closed PROVE tpc'[Mnt]["last"] = "dead"
    BY <1>1 DEF LaneInv, ClosedLast
  <2>1. tpc[Mnt]["last"] = "dead"
    BY DEF LaneInv, ClosedLast
  <2>2. l = Mnt => k = "older"
    BY <1>2, <1>3, <1>4, <2>1 DEF Busy, Working
  <2> QED  BY <1>3, <2>1, <2>2, AuxAssumption DEF Threads
<1> QED  BY <1>6, <1>7, <1>8 DEF LaneInv

\* Every step keeps the lanes' part of the invariant.
LEMMA NextKeepsLanes == LaneInv /\ [Next]_vars => LaneInv'
<1> SUFFICES ASSUME LaneInv, [Next]_vars PROVE LaneInv'
  OBVIOUS
<1>1. CASE UNCHANGED vars
  BY <1>1 DEF vars, loopVars, laneVars, threadVars, LaneInv, LaneTypes, OneThread, ClosedLast
<1>2. CASE Next
  BY <1>2, LoopKeepsLanes, EventKeepsLanes, TriggerKeepsLanes, MainKeepsLanes,
     ThreadKeepsLanes DEF Next
<1> QED  BY <1>1, <1>2

-----------------------------------------------------------------------------
(* Start-up slots: reservations stay apart *)

SlotInv == SlotTypes /\ Spaced

\* A step that makes no reservation, takes no slot and no time.
LEMMA SlotFrame ==
  ASSUME SlotInv, UNCHANGED <<sleep, slotAt, sinceSlot>>,
         \A l \in Lanes : InSlot(l)' => InSlot(l)
  PROVE  SlotInv'
BY DEF SlotInv, SlotTypes, Spaced

\* No step of loop() or main() but a tick touches the slots.
LEMMA LoopKeepsSlots ==
  ASSUME SlotInv, LaneTypes,
         \/ StartLoop \/ EndCycle \/ NextCycle \/ Joined \/ LoopReturns \/ Teardown
         \/ \E l \in Lanes : PassOver(l) \/ StopLane(l)
         \/ \E n \in Jumps : ClockStep(n)
  PROVE  SlotInv'
<1>1. UNCHANGED <<sleep, slotAt, sinceSlot, tpc>>
  BY DEF StartLoop, EndCycle, NextCycle, Joined, LoopReturns, Teardown, PassOver, Visit,
         StopLane, ClockStep, threadVars, slotVars
<1> QED  BY <1>1, SlotFrame DEF InSlot

\* The steps that replace, wake or end threads take none to a slot.
LEMMA ThreadsKeepSlots ==
  ASSUME SlotInv, LaneTypes,
         Shutdown \/ LeaveLoop \/ Exit \/ \E l \in Lanes : Trigger(l)
  PROVE  SlotInv'
<1>1. UNCHANGED <<sleep, slotAt, sinceSlot>>
  BY DEF Shutdown, LeaveLoop, Exit, Trigger, Visit, slotVars
<1>2. \A m \in Lanes : InSlot(m)' => InSlot(m)
  <2>1. CASE Shutdown \/ LeaveLoop
    <3>1. SetEvent
      BY <2>1 DEF Shutdown, LeaveLoop
    <3> QED  BY <3>1, SetEventFacts DEF InSlot, Threads
  <2>2. CASE Exit
    BY <2>2 DEF Exit, InSlot, Threads
  <2>3. CASE \E l \in Lanes : Trigger(l)
    <3>1. PICK l \in Lanes : Trigger(l)
      BY <2>3
    <3>2. tpc' = [tpc EXCEPT ![l] = [k \in Threads |->
                    IF k = "last" THEN "begin" ELSE tpc[l]["last"]]]
      BY <3>1 DEF Trigger
    <3>3. tpc'[l]["last"] = "begin" /\ \A m \in Lanes : m # l => tpc'[m] = tpc[m]
      BY <3>2 DEF LaneTypes, Threads
    <3> QED  BY <3>3 DEF InSlot
  <2> QED  BY <2>1, <2>2, <2>3
<1> QED  BY <1>1, <1>2, SlotFrame

\* A reservation is the next free slot, a spacing after every other.
LEMMA ReserveKeepsSlots ==
  ASSUME SlotInv, LaneInv, NEW l \in Lanes, NEW k \in Threads, Reserve(l, k)
  PROVE  SlotInv'
<1> USE AuxAssumption
<1>1. /\ slotAt' = slotAt + Spacing /\ sinceSlot' = sinceSlot
      /\ sleep' = [sleep EXCEPT ![l] = slotAt]
  BY DEF Reserve, ReserveSlot
<1>2. PICK b \in {"fin", "slot"} : Move(l, k, "begin", b)
  BY DEF Reserve
<1>3. k = "last" /\ tpc[l]["last"] = "begin" /\ \A m \in Lanes : m # l => tpc'[m] = tpc[m]
  BY <1>2, MoveFacts DEF LaneInv, OneThread, Threads, ThreadStates, Busy, Working
<1>4. /\ sleep' \in [Lanes -> Nat] /\ slotAt' \in Nat
      /\ sleep'[l] = slotAt /\ \A m \in Lanes : m # l => sleep'[m] = sleep[m]
  BY <1>1 DEF SlotInv, SlotTypes
<1>5. SlotTypes'
  BY <1>1, <1>4 DEF SlotInv, SlotTypes
<1>6. \A m \in Lanes : m # l => (InSlot(m)' <=> InSlot(m))
  BY <1>3 DEF InSlot
<1>7. \A m \in Lanes : InSlot(m)' =>
        /\ sinceSlot' + sleep'[m] >= Spacing
        /\ sleep'[m] + Spacing <= slotAt'
        /\ m # l => sleep'[m] + Spacing <= sleep'[l]
  BY <1>1, <1>4, <1>6 DEF SlotInv, SlotTypes, Spaced
<1>8. \A m, n \in Lanes : InSlot(m)' /\ InSlot(n)' /\ m # n =>
        sleep'[m] + Spacing <= sleep'[n] \/ sleep'[n] + Spacing <= sleep'[m]
  <2> SUFFICES ASSUME NEW m \in Lanes, NEW n \in Lanes, InSlot(m)', InSlot(n)', m # n
               PROVE  sleep'[m] + Spacing <= sleep'[n] \/ sleep'[n] + Spacing <= sleep'[m]
    OBVIOUS
  <2>1. CASE m = l \/ n = l
    BY <1>7, <2>1
  <2>2. CASE m # l /\ n # l
    BY <1>4, <1>6, <2>2 DEF SlotInv, Spaced
  <2> QED  BY <2>1, <2>2
<1>9. sinceSlot' + slotAt' >= Spacing
  BY <1>1 DEF SlotInv, SlotTypes, Spaced
<1> QED  BY <1>5, <1>7, <1>8, <1>9 DEF SlotInv, Spaced

\* A thread that starts does so a spacing after the last one started.
LEMMA SlotTaken ==
  ASSUME SlotInv, LaneInv, NEW l \in Lanes, NEW k \in Threads, TakeSlot(l, k)
  PROVE  k = "last" /\ InSlot(l) /\ sinceSlot = Spacing
<1>1. tpc[l][k] = "slot" /\ sleep[l] = 0
  BY DEF TakeSlot, Move
<1>2. k = "last" /\ InSlot(l)
  BY <1>1 DEF LaneInv, OneThread, Threads, InSlot
<1> QED  BY <1>1, <1>2, AuxAssumption DEF SlotInv, SlotTypes, Spaced

\* Whoever still waits then waits another spacing.
LEMMA TakeKeepsSlots ==
  ASSUME SlotInv, LaneInv, NEW l \in Lanes, NEW k \in Threads, TakeSlot(l, k)
  PROVE  SlotInv'
<1> USE AuxAssumption
<1>1. /\ UNCHANGED <<sleep, slotAt>> /\ sinceSlot' = 0 /\ sleep[l] = 0
      /\ Move(l, k, "slot", "collect")
  BY DEF TakeSlot
<1>2. k = "last" /\ InSlot(l)
  BY SlotTaken
<1>3. ~InSlot(l)' /\ \A m \in Lanes : m # l => (InSlot(m)' <=> InSlot(m))
  BY <1>1, <1>2, MoveFacts DEF LaneInv, InSlot, ThreadStates, Busy, Working
<1>4. \A m \in Lanes : InSlot(m)' => sleep[m] >= Spacing
  BY <1>1, <1>2, <1>3 DEF SlotInv, SlotTypes, Spaced
<1>5. slotAt >= Spacing
  BY <1>1, <1>2 DEF SlotInv, SlotTypes, Spaced
<1> QED  BY <1>1, <1>3, <1>4, <1>5 DEF SlotInv, SlotTypes, Spaced

\* The other steps of a thread take it to no slot.
LEMMA RunKeepsSlots ==
  ASSUME SlotInv, LaneInv, NEW l \in Lanes, NEW k \in Threads, ThreadStep(l, k),
         ~Reserve(l, k), ~TakeSlot(l, k)
  PROVE  SlotInv'
<1>1. /\ UNCHANGED <<sleep, slotAt, sinceSlot>>
      /\ \E a \in ThreadStates, b \in ThreadStates \ {"slot"} : Move(l, k, a, b)
  BY DEF ThreadStep, NotDue, Later, Succeed, FailRun, CrashRun, Collected, Release,
         EndThread, slotVars, ThreadStates, Busy, Working
<1>2. PICK a \in ThreadStates, b \in ThreadStates \ {"slot"} : Move(l, k, a, b)
  BY <1>1
<1>3. \A m \in Lanes : InSlot(m)' => InSlot(m)
  BY <1>2, MoveFacts DEF LaneInv, InSlot, Threads
<1> QED  BY <1>1, <1>3, SlotFrame

\* Time passes only while every reservation is ahead.
LEMMA TickKeepsSlots ==
  ASSUME SlotInv, LaneTypes, Tick
  PROVE  SlotInv'
<1> USE AuxAssumption
<1>1. /\ sleep' = [l \in Lanes |-> Greatest(0, sleep[l] - 1)]
      /\ slotAt' = Greatest(0, slotAt - 1)
      /\ sinceSlot' = Least(Spacing, sinceSlot + 1)
      /\ tpc' = tpc
  BY DEF Tick
<1>2. \A l \in Lanes : InSlot(l) => sleep[l] > 0
  BY DEF Tick, MayWait, InSlot, Threads
<1>3. SlotTypes'
  BY <1>1 DEF SlotInv, SlotTypes, Greatest, Least
<1>4. \A l \in Lanes : InSlot(l) => sleep'[l] = sleep[l] - 1
  BY <1>1, <1>2 DEF SlotInv, SlotTypes, Greatest
<1>5. \A l \in Lanes : InSlot(l)' <=> InSlot(l)
  BY <1>1 DEF InSlot
<1>6. sinceSlot' + slotAt' >= Spacing
  BY <1>1 DEF SlotInv, SlotTypes, Spaced, Greatest, Least
<1>7. \A l \in Lanes : InSlot(l)' =>
        /\ sinceSlot' + sleep'[l] >= Spacing
        /\ sleep'[l] + Spacing <= slotAt'
  BY <1>1, <1>2, <1>4, <1>5 DEF SlotInv, SlotTypes, Spaced, Greatest, Least
<1>8. \A l, m \in Lanes : InSlot(l)' /\ InSlot(m)' /\ l # m =>
        sleep'[l] + Spacing <= sleep'[m] \/ sleep'[m] + Spacing <= sleep'[l]
  BY <1>4, <1>5 DEF SlotInv, SlotTypes, Spaced
<1> QED  BY <1>3, <1>6, <1>7, <1>8 DEF SlotInv, Spaced

\* Every step keeps the slots' part of the invariant.
LEMMA NextKeepsSlots == SlotInv /\ LaneInv /\ [Next]_vars => SlotInv'
<1> SUFFICES ASSUME SlotInv, LaneInv, [Next]_vars PROVE SlotInv'
  OBVIOUS
<1>0. LaneTypes
  BY DEF LaneInv
<1>1. CASE UNCHANGED vars
  BY <1>1, SlotFrame DEF vars, threadVars, slotVars, InSlot
<1>2. CASE \E l \in Lanes, k \in Threads : ThreadStep(l, k)
  BY <1>2, ReserveKeepsSlots, TakeKeepsSlots, RunKeepsSlots
<1>3. CASE Next /\ ~ \E l \in Lanes, k \in Threads : ThreadStep(l, k)
  BY <1>0, <1>3, LoopKeepsSlots, ThreadsKeepSlots, TickKeepsSlots DEF Next
<1> QED  BY <1>1, <1>2, <1>3

-----------------------------------------------------------------------------
(* Types *)

\* The rest of TypeOK, in parts.  Deadlines reach as far as clock steps have
\* moved them, whatever set them; the start-up queue holds the lanes that reserved.
FlagTypes ==
  /\ todo \subseteq Lanes /\ joining \in Lanes /\ evt \in BOOLEAN
  /\ async \in [Lanes -> BOOLEAN] /\ worker \in [Lanes -> BOOLEAN]
  /\ stopping \in BOOLEAN /\ moved \in BOOLEAN /\ closed \subseteq {"mnt", "control"}

ClockTypes ==
  /\ loops \in 0..MaxLoops /\ jumps \in 0..MaxJumps /\ spent \in 0..MaxCycle
  /\ nxt \in Int /\ nxt <= ScrapeInterval + Skew + jumps * MaxStep
  /\ lag \in Int /\ lag <= spent + jumps * MaxStep

PlanTypes ==
  /\ wait \in [Lanes -> Int] /\ delay \in [Lanes -> Nat]
  /\ fails \in [Lanes -> 0..MaxFailures]
  /\ \A l \in Lanes : /\ Earliest <= wait[l] /\ wait[l] <= delay[l] + jumps * MaxStep
                       /\ delay[l] \in 1..Greatest(Interval[l], Backoff)

RunTypes == svc \in [Lanes -> 0..MaxService] /\ idle \in [Lanes -> Nat]

QueueTypes ==
  /\ started \subseteq Lanes /\ slotAt <= Cardinality(started) * Spacing
  /\ \A l \in Lanes : sleep[l] <= Cardinality(started) * Spacing

TypeInv == FlagTypes /\ ClockTypes /\ PlanTypes /\ RunTypes /\ QueueTypes

LEMMA Parameters ==
  /\ Interval \in [Lanes -> Nat \ {0}] /\ ScrapeInterval \in Nat \ {0}
  /\ MaxFailures \in Nat \ {0}
  /\ Backoff \in Nat /\ Skew \in Nat /\ Spacing \in Nat /\ MaxCycle \in Nat
  /\ MaxService \in Nat /\ MaxStep \in Nat /\ MaxJumps \in Nat /\ MaxLoops \in Nat
  /\ Mnt \in Lanes /\ IsFiniteSet(Lanes)
BY AuxAssumption

LEMMA Products ==
  /\ \A i, n \in Nat : i * n \in Nat /\ (i + 1) * n = i * n + n
  /\ \A i, j, n \in Nat : i <= j => i * n <= j * n
<1>1. \A i, n \in Nat : i * n \in Nat /\ (i + 1) * n = i * n + n
  OBVIOUS
<1>2. \A i, j, n \in Nat : i <= j => i * n <= j * n
  OBVIOUS
<1> QED  BY <1>1, <1>2

LEMMA EarliestFacts ==
  /\ MaxJumps * MaxStep \in Nat /\ Earliest \in Int /\ Earliest <= 0
  /\ Earliest + MaxCycle + MaxJumps * MaxStep = 0
  /\ \A j \in 0..MaxJumps : j * MaxStep \in Nat /\ j * MaxStep <= MaxJumps * MaxStep
BY Parameters, Products DEF Earliest

\* The next boundary is at most a scrape interval away, or two when a deadline
\* ahead is within the skew allowance.
LEMMA BoundaryFacts ==
  ASSUME NEW n \in Int
  PROVE  /\ NextDeadline(n) \in Int /\ NextDeadline(n) <= ScrapeInterval + Skew
         /\ n <= 0 => NextDeadline(n) <= ScrapeInterval
<1> USE Parameters
<1>1. CASE n + ScrapeInterval > 0
  BY <1>1 DEF NextDeadline
<1>2. CASE n + ScrapeInterval <= 0
  <2> DEFINE m == -(n + ScrapeInterval)
             q == m \div ScrapeInterval
  <2>1. m \in Nat
    BY <1>2
  <2>2. NextDeadline(n) = (q + 1) * ScrapeInterval - m
    BY <1>2 DEF NextDeadline
  <2> HIDE DEF m
  <2>3. q \in Nat /\ ScrapeInterval * q <= m
    BY <2>1
  <2>4. (q + 1) * ScrapeInterval = ScrapeInterval * q + ScrapeInterval
    BY <2>3
  <2>5. ScrapeInterval * q \in Nat
    BY <2>3
  <2> HIDE DEF q
  <2> QED  BY <2>1, <2>2, <2>3, <2>4, <2>5
<1> QED  BY <1>1, <1>2

\* The steps of loop() and main().
LoopStep ==
  \/ StartLoop \/ EndCycle \/ NextCycle \/ Shutdown \/ LeaveLoop
  \/ Joined \/ LoopReturns \/ Teardown \/ Exit
  \/ \E l \in Lanes : PassOver(l) \/ Trigger(l) \/ StopLane(l)

LEMMA LoopFrame ==
  ASSUME LoopStep
  PROVE  UNCHANGED <<planVars, slotVars, sleep, svc, jumps>>
BY DEF LoopStep, StartLoop, EndCycle, NextCycle, Shutdown, LeaveLoop, Joined, LoopReturns,
       Teardown, Exit, PassOver, Trigger, Visit, StopLane, threadVars

\* What a thread's step leaves alone.
LEMMA ThreadFrame ==
  ASSUME NEW l \in Lanes, NEW k \in Threads, ThreadStep(l, k)
  PROVE  UNCHANGED <<loopVars, async, worker, stopping, closed, jumps>>
BY DEF ThreadStep, NotDue, Later, Reserve, TakeSlot, Succeed, FailRun, CrashRun, Collected,
       Release, EndThread, laneVars

LEMMA NextCases ==
  ASSUME Next
  PROVE  \/ LoopStep \/ \E l \in Lanes, k \in Threads : ThreadStep(l, k)
         \/ Tick \/ \E n \in Jumps : ClockStep(n)
BY DEF Next, LoopStep

LEMMA NextKeepsFlags ==
  ASSUME FlagTypes, Next
  PROVE  FlagTypes'
<1> USE Parameters
<1>1. CASE StartLoop \/ EndCycle \/ NextCycle \/ Shutdown \/ LeaveLoop
  BY <1>1 DEF FlagTypes, StartLoop, StillStopping, Alive, EndCycle, NextCycle, Shutdown,
              LeaveLoop, SetEvent, laneVars
<1>2. CASE Joined \/ LoopReturns \/ Teardown \/ Exit
  BY <1>2 DEF FlagTypes, Joined, LoopReturns, Teardown, Exit, laneVars
<1>3. CASE \E l \in Lanes : PassOver(l) \/ Trigger(l)
  BY <1>3 DEF FlagTypes, PassOver, Trigger, Visit
<1>4. ASSUME NEW l \in Lanes, StopLane(l) PROVE FlagTypes'
  <2>1. (l = Mnt /\ worker[l]) \in BOOLEAN /\ stopping' \in BOOLEAN
    BY <1>4 DEF FlagTypes, StopLane
  <2>2. async' \in [Lanes -> BOOLEAN]
    BY <1>4, <2>1 DEF FlagTypes, StopLane
  <2> QED  BY <1>4, <2>1, <2>2 DEF FlagTypes, StopLane
<1>5. CASE \E l \in Lanes, k \in Threads : ThreadStep(l, k)
  BY <1>5, ThreadFrame DEF FlagTypes, loopVars
<1>6. CASE Tick \/ \E n \in Jumps : ClockStep(n)
  BY <1>6 DEF FlagTypes, Tick, ClockStep, laneVars
<1> QED  BY <1>1, <1>2, <1>3, <1>4, <1>5, <1>6 DEF Next

LEMMA NextKeepsClock ==
  ASSUME ClockTypes, Next
  PROVE  ClockTypes'
<1> USE Parameters, EarliestFacts
<1> DEFINE J == jumps * MaxStep
<1>0. J \in Nat
  BY DEF ClockTypes
<1>1. CASE LoopStep
  <2>1. jumps' = jumps
    BY <1>1, LoopFrame
  <2>2. CASE StartLoop \/ LeaveLoop
    BY <1>0, <2>1, <2>2 DEF ClockTypes, StartLoop, LeaveLoop
  <2>3. CASE EndCycle
    BY <1>0, <2>1, <2>3, BoundaryFacts DEF ClockTypes, EndCycle
  <2>4. CASE ~ (StartLoop \/ LeaveLoop \/ EndCycle)
    BY <1>1, <2>1, <2>4 DEF ClockTypes, LoopStep, NextCycle, Shutdown, Joined, LoopReturns,
       Teardown, Exit, PassOver, Trigger, Visit, StopLane
  <2> QED  BY <2>2, <2>3, <2>4
<1>2. CASE \E l \in Lanes, k \in Threads : ThreadStep(l, k)
  BY <1>2, ThreadFrame DEF ClockTypes, loopVars
<1>3. CASE Tick
  BY <1>0, <1>3 DEF ClockTypes, Tick
<1>4. ASSUME NEW n \in Jumps, ClockStep(n) PROVE ClockTypes'
  <2>1. n \in Int /\ -MaxStep <= n /\ n <= MaxStep
    BY AuxAssumption
  <2>2. jumps' = jumps + 1 /\ (jumps + 1) * MaxStep = J + MaxStep /\ jumps < MaxJumps
    BY <1>4, Products DEF ClockTypes, ClockStep
  <2> HIDE DEF J
  <2> QED  BY <1>0, <1>4, <2>1, <2>2 DEF ClockTypes, ClockStep, J
<1> QED  BY <1>1, <1>2, <1>3, <1>4, NextCases

LEMMA NextKeepsPlan ==
  ASSUME ClockTypes, PlanTypes, Next
  PROVE  PlanTypes'
<1> USE Parameters, EarliestFacts
<1> DEFINE J == jumps * MaxStep
<1>0. J \in Nat
  BY DEF ClockTypes
<1>1. CASE LoopStep
  BY <1>1, LoopFrame DEF PlanTypes, planVars
<1>2. ASSUME NEW l \in Lanes, NEW k \in Threads, ThreadStep(l, k) PROVE PlanTypes'
  <2>1. jumps' = jumps
    BY <1>2, ThreadFrame
  <2>2. CASE UNCHANGED planVars
    BY <2>1, <2>2 DEF PlanTypes, planVars
  <2>3. ASSUME NEW d \in 1..Greatest(Interval[l], Backoff), Schedule(l, d),
               fails' \in [Lanes -> 0..MaxFailures]
        PROVE  PlanTypes'
    <3>1. /\ wait' \in [Lanes -> Int] /\ wait'[l] = d
          /\ \A m \in Lanes \ {l} : wait'[m] = wait[m]
      BY <2>3 DEF PlanTypes, Schedule
    <3>2. /\ delay' \in [Lanes -> Nat] /\ delay'[l] = d
          /\ \A m \in Lanes \ {l} : delay'[m] = delay[m]
      BY <2>3 DEF PlanTypes, Schedule
    <3> QED  BY <1>0, <2>1, <2>3, <3>1, <3>2 DEF PlanTypes
  <2>4. CASE Succeed(l, k)
    <3>1. Interval[l] \in 1..Greatest(Interval[l], Backoff)
      BY DEF Greatest
    <3>2. fails' \in [Lanes -> 0..MaxFailures]
      BY <2>4 DEF Succeed, PlanTypes
    <3> QED  BY <2>3, <2>4, <3>1, <3>2 DEF Succeed
  <2>5. CASE FailRun(l, k)
    <3>1. fails' \in [Lanes -> 0..MaxFailures]
      BY <2>5 DEF FailRun, BackOff, PlanTypes, Least
    <3>2. Retry(l, fails'[l]) \in 1..Greatest(Interval[l], Backoff)
      BY DEF Retry, Greatest, Least
    <3> QED  BY <2>3, <2>5, <3>1, <3>2 DEF FailRun, BackOff
  <2> QED  BY <1>2, <2>2, <2>4, <2>5 DEF ThreadStep, NotDue, Later, Reserve, TakeSlot, CrashRun,
                                         Release, EndThread
<1>3. CASE Tick
  <2>1. wait' = [l \in Lanes |-> Greatest(Earliest, wait[l] - 1)] /\ UNCHANGED <<delay, fails, jumps>>
    BY <1>3 DEF Tick
  <2> QED  BY <1>0, <2>1 DEF PlanTypes, Greatest
<1>4. ASSUME NEW n \in Jumps, ClockStep(n) PROVE PlanTypes'
  <2>1. n \in Int /\ -MaxStep <= n
    BY AuxAssumption
  <2>2. jumps' = jumps + 1 /\ (jumps + 1) * MaxStep = J + MaxStep
    BY <1>4, Products DEF ClockTypes, ClockStep
  <2>3. wait' = [l \in Lanes |-> Greatest(Earliest, wait[l] - n)] /\ UNCHANGED <<delay, fails>>
    BY <1>4 DEF ClockStep
  <2>4. \A l \in Lanes : wait[l] <= delay[l] + J
    BY DEF PlanTypes
  <2> HIDE DEF J
  <2>5. \A l \in Lanes : wait'[l] <= delay'[l] + (J + MaxStep)
    BY <1>0, <2>1, <2>3, <2>4 DEF PlanTypes, Greatest
  <2> QED  BY <1>0, <2>1, <2>2, <2>3, <2>5 DEF PlanTypes, Greatest
<1> QED  BY <1>1, <1>2, <1>3, <1>4, NextCases

LEMMA NextKeepsRuns ==
  ASSUME RunTypes, LaneTypes, Next
  PROVE  RunTypes'
<1> USE Parameters
<1>1. CASE LoopStep
  <2>1. idle' \in [Lanes -> Nat]
    BY <1>1 DEF RunTypes, LoopStep, StartLoop, EndCycle, NextCycle, Shutdown, LeaveLoop, Joined,
       LoopReturns, Teardown, Exit, PassOver, Trigger, Visit, StopLane
  <2> QED  BY <1>1, <2>1, LoopFrame DEF RunTypes
<1>2. ASSUME NEW l \in Lanes, NEW k \in Threads, ThreadStep(l, k) PROVE RunTypes'
  BY <1>2 DEF RunTypes, ThreadStep, NotDue, Later, Reserve, TakeSlot, Succeed, FailRun, CrashRun,
              Collected, Release, EndThread
<1>3. CASE Tick
  <2>1. \A l \in Lanes : (\E k \in Threads : tpc[l][k] = "collect") => svc[l] < MaxService
    BY <1>3 DEF Tick, MayWait
  <2>2. svc' = [l \in Lanes |-> IF \E k \in Threads : tpc[l][k] = "collect"
                                  THEN svc[l] + 1 ELSE svc[l]]
    BY <1>3 DEF Tick
  <2>3. svc' \in [Lanes -> 0..MaxService]
    BY <2>1, <2>2 DEF RunTypes
  <2>4. idle' = [l \in Lanes |-> IF Suspended \/ Active(l) # {} \/ (l = Mnt /\ stopping)
                                   THEN idle[l] ELSE idle[l] + 1]
    BY <1>3 DEF Tick
  <2> QED  BY <2>3, <2>4 DEF RunTypes
<1>4. CASE \E n \in Jumps : ClockStep(n)
  BY <1>4 DEF RunTypes, ClockStep, threadVars
<1> QED  BY <1>1, <1>2, <1>3, <1>4, NextCases

\* A reservation takes the queue a spacing further for the one lane more in it.
LEMMA NextKeepsQueue ==
  ASSUME QueueTypes, SlotTypes, Next
  PROVE  QueueTypes'
<1> USE Parameters
<1> DEFINE N == Cardinality(started)
<1>0. N \in Nat /\ IsFiniteSet(started) /\ N * Spacing \in Nat
  BY FS_Subset, FS_CardinalityType, Products DEF QueueTypes
<1>1. CASE LoopStep
  BY <1>1, LoopFrame DEF QueueTypes, slotVars
<1>2. ASSUME NEW l \in Lanes, NEW k \in Threads, ThreadStep(l, k) PROVE QueueTypes'
  <2>1. CASE Reserve(l, k)
    <3>1. Cardinality(started') = N + 1 /\ started' \subseteq Lanes
      BY <1>0, <2>1, FS_AddElement DEF Reserve, ReserveSlot, QueueTypes
    <3>2. (N + 1) * Spacing = N * Spacing + Spacing
      BY <1>0, Products
    <3>3. slotAt' = slotAt + Spacing /\ sleep' = [sleep EXCEPT ![l] = slotAt]
      BY <2>1 DEF Reserve, ReserveSlot
    <3>4. slotAt <= N * Spacing /\ \A m \in Lanes : sleep[m] <= N * Spacing
      BY DEF QueueTypes
    <3> HIDE DEF N
    <3>5. slotAt' <= N * Spacing + Spacing /\ \A m \in Lanes : sleep'[m] <= N * Spacing + Spacing
      BY <1>0, <3>3, <3>4 DEF SlotTypes
    <3> QED  BY <3>1, <3>2, <3>5 DEF QueueTypes
  <2>2. CASE ~ Reserve(l, k)
    BY <1>2, <2>2 DEF QueueTypes, ThreadStep, NotDue, Later, TakeSlot, Succeed, FailRun,
                      CrashRun, Collected, Release, EndThread, slotVars
  <2> QED  BY <2>1, <2>2
<1>3. CASE Tick
  <2>1. /\ sleep' = [l \in Lanes |-> Greatest(0, sleep[l] - 1)] /\ started' = started
        /\ slotAt' = Greatest(0, slotAt - 1)
    BY <1>3 DEF Tick
  <2>2. slotAt <= N * Spacing /\ \A m \in Lanes : sleep[m] <= N * Spacing
    BY DEF QueueTypes
  <2> HIDE DEF N
  <2>3. slotAt' <= N * Spacing /\ \A m \in Lanes : sleep'[m] <= N * Spacing
    BY <1>0, <2>1, <2>2 DEF SlotTypes, Greatest
  <2> QED  BY <2>1, <2>3 DEF QueueTypes, N
<1>4. CASE \E n \in Jumps : ClockStep(n)
  BY <1>4 DEF QueueTypes, ClockStep, threadVars, slotVars
<1> QED  BY <1>1, <1>2, <1>3, <1>4, NextCases

LEMMA InitTypes == Init => TypeInv
<1> SUFFICES ASSUME Init PROVE TypeInv
  OBVIOUS
<1> USE Parameters, EarliestFacts
<1>1. FlagTypes
  BY DEF Init, FlagTypes
<1>2. ClockTypes
  BY DEF Init, ClockTypes
<1>3. PlanTypes
  BY DEF Init, PlanTypes, Greatest
<1>4. RunTypes
  BY DEF Init, RunTypes
<1>5. QueueTypes
  <2>1. Cardinality(started) = 0
    BY FS_EmptySet DEF Init
  <2> QED  BY <2>1 DEF Init, QueueTypes
<1> QED  BY <1>1, <1>2, <1>3, <1>4, <1>5 DEF TypeInv

LEMMA StutterKeepsTypes == ASSUME TypeInv, UNCHANGED vars PROVE TypeInv'
BY DEF vars, loopVars, laneVars, threadVars, planVars, slotVars, TypeInv, FlagTypes, ClockTypes,
       PlanTypes, RunTypes, QueueTypes

LEMMA TypesFollow == ASSUME AuxInv, TypeInv PROVE TypeOK
<1> USE Parameters, EarliestFacts
<1>1. Cardinality(started) * Spacing <= Spacing * Cardinality(Lanes)
  <2>1. /\ Cardinality(started) \in Nat /\ Cardinality(Lanes) \in Nat
        /\ Cardinality(started) <= Cardinality(Lanes)
    BY FS_Subset, FS_CardinalityType DEF TypeInv, QueueTypes
  <2>2. Cardinality(started) * Spacing <= Cardinality(Lanes) * Spacing
    BY <2>1, Products
  <2> QED  BY <2>1, <2>2
<1>2. /\ sleep \in [Lanes -> 0..(Spacing * Cardinality(Lanes))]
      /\ slotAt \in 0..(Spacing * Cardinality(Lanes)) /\ sinceSlot \in 0..Spacing
      /\ started \subseteq Lanes
  <2>1. Cardinality(Lanes) \in Nat /\ Spacing * Cardinality(Lanes) \in Int
    BY FS_CardinalityType
  <2>2. IsFiniteSet(started) /\ Cardinality(started) \in Nat
    BY FS_Subset, FS_CardinalityType DEF TypeInv, QueueTypes
  <2> QED  BY <1>1, <2>1, <2>2, Products DEF AuxInv, SlotTypes, TypeInv, QueueTypes
<1>3. /\ nxt <= ScrapeInterval + Skew - Earliest /\ lag <= MaxCycle - Earliest
      /\ \A l \in Lanes : wait[l] \in Earliest..(delay[l] - Earliest)
  <2> DEFINE J == jumps * MaxStep
  <2>1. J \in Nat /\ J <= MaxJumps * MaxStep
    BY DEF TypeInv, ClockTypes
  <2>2. /\ nxt <= ScrapeInterval + Skew + J /\ lag <= spent + J
        /\ \A l \in Lanes : wait[l] <= delay[l] + J
    BY DEF TypeInv, ClockTypes, PlanTypes
  <2> HIDE DEF J
  <2> QED  BY <2>1, <2>2 DEF TypeInv, ClockTypes, PlanTypes
<1>4. tpc \in [Lanes -> [Threads -> Working \cup {"fin", "exit", "dead"}]]
  <2>1. ThreadStates = Working \cup {"fin", "exit", "dead"}
    BY DEF ThreadStates, Busy
  <2> QED  BY <2>1 DEF AuxInv, LaneInv, LaneTypes
<1>5. /\ mpc \in {"off", "cycle", "wait", "stop", "join", "down", "exited"}
      /\ inflight \in [Lanes -> BOOLEAN]
  BY DEF AuxInv, LaneInv, LaneTypes
<1> QED  BY <1>2, <1>3, <1>4, <1>5 DEF TypeInv, FlagTypes, ClockTypes, PlanTypes, RunTypes, TypeOK
-----------------------------------------------------------------------------
(* How long a lane rests *)

\* What run_cycle will see of the lane's deadline, and whether its visit in this
\* cycle starts a run.
SeenWait(l) == IF l = Mnt THEN wait[l] ELSE wait[l] + lag
Sure(l) == l \in todo /\ Due(SeenWait(l), delay[l])

\* A deadline that ends within the skew allowance is kept by loop().
NextWait == ScrapeInterval + (IF nxt > 0 THEN Skew ELSE 0)

\* Ticks to the next visit whose cycle begins from here, or that is sure.
Distance(l) ==
  IF mpc = "wait" THEN (IF moved \/ nxt <= 0 THEN 0 ELSE nxt) + MaxCycle
  ELSE IF Sure(l) THEN MaxCycle - spent
  ELSE 2 * MaxCycle - spent + NextWait

Running == mpc \in {"cycle", "wait"}
Kept(l) == inflight[l] \/ (l = Mnt /\ stopping)     \* idle does not count
Period == ScrapeInterval + 2 * MaxCycle
Delay(l) == Greatest(1, delay[l])

\* The lane's rest and what is left of it.  A deadline too far ahead counts as
\* due until time has brought it near; one that is near is waited for, one that
\* has passed is met by the next visit.
Pace(l) ==
  /\ mpc = "cycle" /\ nxt > 0 => idle[l] <= spent
  /\ mpc = "wait" /\ ~moved =>
       nxt <= ScrapeInterval \/ idle[l] + nxt <= Skew + ScrapeInterval + MaxCycle
  /\ wait[l] > Delay(l) + Skew => idle[l] + Distance(l) <= Skew + Period
  /\ wait[l] \in 1..(Delay(l) + Skew) => idle[l] + wait[l] <= Delay(l) + 2 * Skew + Period
  /\ wait[l] <= 0 => idle[l] + Distance(l) <= Delay(l) + 2 * (Skew + Period)

Paced ==
  /\ mpc = "wait" => lag = 0 /\ spent = 0
  /\ Running => \A l \in Lanes : Kept(l) => idle[l] = 0
  /\ Running /\ ~evt => \A l \in Lanes : Pace(l)

\* The rest of a lane as numbers: the types behind Pace.
LEMMA PaceTypes ==
  ASSUME TypeInv, NEW l \in Lanes
  PROVE  /\ idle[l] \in Nat /\ wait[l] \in Int /\ delay[l] \in Nat \ {0}
         /\ Delay(l) = delay[l] /\ Delay(l) \in Nat \ {0}
         /\ spent \in Nat /\ spent <= MaxCycle /\ nxt \in Int /\ lag \in Int
BY Parameters DEF TypeInv, ClockTypes, PlanTypes, RunTypes, Delay, Greatest

LEMMA PaceTypesNext ==
  ASSUME TypeInv', NEW l \in Lanes
  PROVE  /\ idle'[l] \in Nat /\ wait'[l] \in Int /\ delay'[l] \in Nat \ {0}
         /\ Delay(l)' = delay'[l] /\ Delay(l)' \in Nat \ {0}
         /\ spent' \in Nat /\ spent' <= MaxCycle /\ nxt' \in Int /\ lag' \in Int
BY Parameters DEF TypeInv, ClockTypes, PlanTypes, RunTypes, Delay, Greatest

\* A lane that has not rested yet is in time.
LEMMA FreshLane ==
  ASSUME TypeInv', NEW l \in Lanes, idle'[l] = 0, mpc' \in {"cycle", "wait"},
         mpc' = "wait" /\ ~moved' => nxt' <= Skew + ScrapeInterval + MaxCycle
  PROVE  Pace(l)'
<1> USE Parameters, PaceTypesNext
<1>1. Distance(l)' \in Int /\ Distance(l)' <= Skew + Period
  BY DEF Distance, NextWait, Period
<1> QED  BY <1>1 DEF Pace, Period

\* The pace of a lane depends on loop()'s state and its own.
LEMMA SamePace ==
  ASSUME NEW l \in Lanes, Pace(l), UNCHANGED <<mpc, nxt, spent, moved, lag>>,
         l \in todo' <=> l \in todo,
         idle'[l] = idle[l], wait'[l] = wait[l], delay'[l] = delay[l]
  PROVE  Pace(l)'
BY DEF Pace, Distance, NextWait, Sure, SeenWait, Delay

\* How far loop() can be from its boundary when a lane starts to rest.
LEMMA BoundaryNear ==
  ASSUME TypeInv, NEW l \in Lanes, Pace(l), mpc = "wait", ~moved
  PROVE  nxt <= Skew + ScrapeInterval + MaxCycle
BY Parameters, PaceTypes DEF Pace

\* Steps of loop().
LEMMA LoopKeepsPace ==
  ASSUME TypeInv, TypeInv', Paced, LoopStep
  PROVE  Paced'
<1> USE Parameters
<1>1. CASE Shutdown
  BY <1>1 DEF Shutdown, SetEvent, laneVars, Paced, Running, Kept
<1>2. CASE LeaveLoop \/ Joined \/ LoopReturns \/ Teardown \/ Exit \/ \E l \in Lanes : StopLane(l)
  BY <1>2 DEF LeaveLoop, Joined, LoopReturns, Teardown, Exit, StopLane, Paced, Running
<1>3. CASE StartLoop
  <2>1. mpc' = "cycle" /\ \A l \in Lanes : idle'[l] = 0
    BY <1>3 DEF StartLoop
  <2> QED  BY <2>1, FreshLane DEF Paced
<1>4. CASE EndCycle
  <2>1. /\ mpc = "cycle" /\ mpc' = "wait" /\ nxt' = NextDeadline(nxt) /\ lag' = 0 /\ spent' = 0
        /\ todo = {} /\ UNCHANGED <<evt, moved, inflight, stopping, wait, delay, idle>>
    BY <1>4 DEF EndCycle, laneVars, planVars
  <2>2. ASSUME NEW l \in Lanes, Pace(l) PROVE Pace(l)'
    <3>1. /\ nxt \in Int /\ nxt' \in Int /\ nxt' <= ScrapeInterval + Skew
          /\ nxt <= 0 => nxt' <= ScrapeInterval
      BY <2>1, PaceTypes, BoundaryFacts
    <3>2. /\ Distance(l) \in Int /\ Distance(l)' \in Int /\ Distance(l)' <= Distance(l)
          /\ Delay(l)' = Delay(l)
      BY <2>1, <3>1, PaceTypes DEF Distance, NextWait, Sure, Delay
    <3>3. nxt <= 0 \/ idle[l] <= spent
      BY <2>1, <2>2, PaceTypes DEF Pace
    <3>4. nxt' <= ScrapeInterval \/ idle'[l] + nxt' <= Skew + ScrapeInterval + MaxCycle
      BY <2>1, <3>1, <3>3, PaceTypes
    <3> QED  BY <2>1, <2>2, <3>2, <3>4, PaceTypes DEF Pace, Period
  <2> QED  BY <2>1, <2>2 DEF Paced, Running, Kept
<1>5. CASE NextCycle
  <2>1. /\ mpc = "wait" /\ mpc' = "cycle" /\ nxt <= 0 /\ todo' = Lanes
        /\ UNCHANGED <<nxt, lag, spent, evt, inflight, stopping, wait, delay, idle>>
    BY <1>5 DEF NextCycle, laneVars, planVars
  <2>2. lag = 0 /\ spent = 0
    BY <2>1 DEF Paced
  <2>3. ASSUME NEW l \in Lanes, Pace(l) PROVE Pace(l)'
    <3>1. Distance(l) = MaxCycle /\ Delay(l)' = Delay(l)
      BY <2>1, PaceTypes DEF Distance, Delay
    <3>2. wait[l] <= 0 \/ wait[l] > Delay(l) + Skew => Sure(l)'
      BY <2>1, <2>2, PaceTypes DEF Sure, SeenWait, Due, Delay
    <3>3. wait[l] <= 0 \/ wait[l] > Delay(l) + Skew => Distance(l)' = MaxCycle
      BY <2>1, <2>2, <3>2 DEF Distance
    <3> QED  BY <2>1, <2>3, <3>1, <3>3, PaceTypes DEF Pace
  <2> QED  BY <2>1, <2>3 DEF Paced, Running, Kept
<1>6. ASSUME NEW m \in Lanes, PassOver(m) PROVE Paced'
  <2>1. /\ mpc = "cycle" /\ m \in todo /\ todo' = todo \ {m} /\ ~ Admit(m)
        /\ UNCHANGED <<mpc, nxt, lag, spent, moved, evt, inflight, stopping, wait, delay, idle>>
    BY <1>6 DEF PassOver, Visit, planVars
  <2>2. ASSUME NEW l \in Lanes, Pace(l), ~evt, Kept(l) => idle[l] = 0 PROVE Pace(l)'
    <3>1. CASE l # m
      BY <2>1, <2>2, <3>1, SamePace
    <3>2. CASE l = m /\ Kept(m)
      BY <2>1, <2>2, <3>2, FreshLane
    <3>3. CASE l = m /\ ~ Kept(m)
      <4>1. ~ Sure(m)
        BY <2>1, <2>2, <3>3 DEF Admit, Kept, Sure, SeenWait
      <4>2. Distance(m)' = Distance(m)
        BY <2>1, <4>1 DEF Distance, NextWait, Sure
      <4> QED  BY <2>1, <2>2, <3>3, <4>2 DEF Pace, Delay
    <3> QED  BY <3>1, <3>2, <3>3
  <2> QED  BY <2>1, <2>2 DEF Paced, Running, Kept
<1>7. ASSUME NEW m \in Lanes, Trigger(m) PROVE Paced'
  <2>1. /\ mpc = "cycle" /\ todo' = todo \ {m}
        /\ inflight' = [inflight EXCEPT ![m] = TRUE] /\ idle' = [idle EXCEPT ![m] = 0]
        /\ UNCHANGED <<mpc, nxt, lag, spent, moved, evt, stopping, wait, delay>>
    BY <1>7 DEF Trigger, Visit, planVars
  <2>2. /\ idle'[m] = 0
        /\ \A l \in Lanes \ {m} : idle'[l] = idle[l] /\ (Kept(l)' => Kept(l))
    BY <2>1 DEF TypeInv, RunTypes, Kept
  <2>3. ASSUME NEW l \in Lanes, Pace(l) PROVE Pace(l)'
    <3>1. CASE l # m
      BY <2>1, <2>2, <2>3, <3>1, SamePace
    <3>2. CASE l = m
      BY <2>1, <2>2, <3>2, FreshLane
    <3> QED  BY <3>1, <3>2
  <2> QED  BY <2>1, <2>2, <2>3 DEF Paced, Running
<1> QED  BY <1>1, <1>2, <1>3, <1>4, <1>5, <1>6, <1>7 DEF LoopStep

\* Threads: the end of a run lets its lane rest afresh, whatever deadline the run
\* has set; no other step of a thread touches what the lane waits for.
LEMMA ThreadKeepsPace ==
  ASSUME AuxInv, TypeInv, TypeInv', Paced, NEW m \in Lanes, NEW k \in Threads, ThreadStep(m, k)
  PROVE  Paced'
<1>1. UNCHANGED <<mpc, todo, nxt, lag, spent, moved, evt, stopping>>
  BY ThreadFrame DEF loopVars
<1>2. /\ \A l \in Lanes : l # m =>
           idle'[l] = idle[l] /\ wait'[l] = wait[l] /\ delay'[l] = delay[l]
      /\ \/ idle'[m] = idle[m] /\ wait'[m] = wait[m] /\ delay'[m] = delay[m]
         \/ idle'[m] = 0
      /\ \A l \in Lanes : inflight'[l] => inflight[l]
  <2>1. CASE NotDue(m, k) \/ Later(m, k) \/ Reserve(m, k) \/ TakeSlot(m, k) \/ EndThread(m, k)
    BY <2>1 DEF NotDue, Later, Reserve, TakeSlot, EndThread, planVars, laneVars
  <2>2. CASE Release(m, k)
    BY <2>2 DEF Release, planVars, AuxInv, LaneInv, LaneTypes
  <2>3. CASE Succeed(m, k) \/ FailRun(m, k) \/ CrashRun(m, k)
    <3>1. idle' = [idle EXCEPT ![m] = 0] /\ UNCHANGED inflight
      BY <2>3 DEF Succeed, FailRun, CrashRun, Collected, laneVars
    <3>2. \A l \in Lanes : l # m => wait'[l] = wait[l] /\ delay'[l] = delay[l]
      BY <2>3 DEF Succeed, FailRun, CrashRun, BackOff, Schedule, planVars, TypeInv, PlanTypes
    <3> QED  BY <3>1, <3>2 DEF TypeInv, RunTypes
  <2> QED  BY <2>1, <2>2, <2>3 DEF ThreadStep
<1>3. ASSUME NEW l \in Lanes, Running, Pace(l) PROVE Pace(l)'
  <2>1. CASE l # m \/ idle'[m] # 0
    BY <1>1, <1>2, <1>3, <2>1, SamePace
  <2>2. CASE l = m /\ idle'[m] = 0
    <3>1. mpc' = "wait" /\ ~moved' => nxt' <= Skew + ScrapeInterval + MaxCycle
      BY <1>1, <1>3, BoundaryNear
    <3> QED  BY <1>1, <1>3, <2>2, <3>1, FreshLane DEF Running
  <2> QED  BY <2>1, <2>2
<1>4. \A l \in Lanes : Kept(l)' => Kept(l)
  BY <1>1, <1>2 DEF Kept
<1> QED  BY <1>1, <1>2, <1>3, <1>4 DEF Paced, Running

\* A step of the clock lets every lane rest afresh.  Set back, it suspends the
\* wait of loop(); set forward, it only brings the boundary nearer.
LEMMA ClockStepKeepsPace ==
  ASSUME TypeInv, TypeInv', Paced, NEW n \in Jumps, ClockStep(n)
  PROVE  Paced'
<1> USE Parameters
<1>1. /\ mpc \in {"cycle", "wait"} /\ UNCHANGED <<mpc, evt, spent, inflight, stopping>>
      /\ nxt' = nxt - n /\ moved' = (moved \/ (mpc = "wait" /\ n < 0))
      /\ lag' = IF mpc = "cycle" THEN lag + n ELSE lag
      /\ \A l \in Lanes : idle'[l] = 0
  BY DEF ClockStep, laneVars
<1>2. n \in Int
  BY AuxAssumption
<1>3. ASSUME NEW l \in Lanes, Pace(l) PROVE Pace(l)'
  <2>1. mpc' = "wait" /\ ~moved' => nxt' <= Skew + ScrapeInterval + MaxCycle
    <3> SUFFICES ASSUME mpc' = "wait", ~moved' PROVE nxt' <= Skew + ScrapeInterval + MaxCycle
      OBVIOUS
    <3>1. ~moved /\ ~(n < 0) /\ mpc = "wait"
      BY <1>1, Zenon
    <3>2. nxt <= Skew + ScrapeInterval + MaxCycle /\ nxt \in Int
      BY <3>1, <1>3, BoundaryNear, PaceTypes
    <3> QED  BY <1>1, <1>2, <3>1, <3>2
  <2> QED  BY <1>1, <2>1, FreshLane
<1>4. mpc' = "wait" => lag' = 0 /\ spent' = 0
  BY <1>1 DEF Paced
<1> QED  BY <1>1, <1>3, <1>4 DEF Paced, Running

\* What a tick changes.  The ghost stands still exactly under Suspended or Kept,
\* because the mark of a lane stands for its run.
LEMMA TickFacts ==
  ASSUME AuxInv, TypeInv, Tick
  PROVE  /\ (mpc = "cycle" /\ spent < MaxCycle) \/ (mpc = "wait" /\ nxt > 0)
         /\ UNCHANGED <<mpc, todo, evt, moved, inflight, stopping, delay>>
         /\ nxt' = nxt - 1
         /\ mpc = "cycle" => spent' = spent + 1 /\ lag' = lag + 1
         /\ mpc = "wait" => spent' = spent /\ lag' = lag
         /\ \A l \in Lanes :
              /\ wait'[l] = Greatest(Earliest, wait[l] - 1)
              /\ Suspended \/ Kept(l) => idle'[l] = idle[l]
              /\ ~Suspended /\ ~Kept(l) => idle'[l] = idle[l] + 1
<1>1. (mpc = "cycle" /\ spent < MaxCycle) \/ (mpc = "wait" /\ nxt > 0)
  BY DEF Tick
<1>2. ASSUME NEW l \in Lanes PROVE Active(l) # {} <=> inflight[l]
  <2>1. /\ tpc[l]["older"] \in {"exit", "dead"}
        /\ inflight[l] <=> tpc[l]["last"] \in Busy
    BY <1>1 DEF AuxInv, LaneInv, OneThread
  <2> QED  BY <2>1 DEF Active, Threads, Busy, Working
<1>3. \A l \in Lanes : idle'[l] = IF Suspended \/ Kept(l) THEN idle[l] ELSE idle[l] + 1
  BY <1>2 DEF Tick, Kept
<1> QED  BY <1>1, <1>3 DEF Tick, laneVars

\* The ticks of loop()'s wait.
LEMMA WaitTickKeepsPace ==
  ASSUME AuxInv, TypeInv, TypeInv', Tick, mpc = "wait", NEW l \in Lanes, Pace(l), ~Kept(l)
  PROVE  Pace(l)'
<1> USE Parameters
<1> DEFINE w == wait[l]
           d == delay[l]
           i == idle[l]
<1>1. /\ i \in Nat /\ w \in Int /\ d \in Nat \ {0} /\ nxt \in Int /\ nxt > 0 /\ nxt' = nxt - 1
      /\ Delay(l) = d /\ Delay(l)' = d
  BY TickFacts, PaceTypes, PaceTypesNext
<1>2. wait'[l] \in Int /\ (wait'[l] > 0 => wait'[l] = w - 1) /\ (wait'[l] <= 0 => w <= 1)
  BY <1>1, TickFacts, EarliestFacts DEF Greatest
<1>3. mpc' = "wait" /\ moved' = moved
  BY TickFacts
<1>4. CASE moved
  <2>1. idle'[l] = i
    BY <1>4, TickFacts DEF Suspended
  <2>2. Distance(l) = MaxCycle /\ Distance(l)' = MaxCycle
    BY <1>3, <1>4 DEF Distance
  <2> QED  BY <1>1, <1>2, <1>3, <1>4, <2>1, <2>2 DEF Pace, Period
<1>5. CASE ~moved
  <2>1. idle'[l] = i + 1
    BY <1>5, TickFacts DEF Suspended
  <2>2. Distance(l) = nxt + MaxCycle /\ Distance(l)' = nxt - 1 + MaxCycle
    BY <1>1, <1>3, <1>5 DEF Distance
  <2>3. nxt <= ScrapeInterval \/ i + nxt <= Skew + ScrapeInterval + MaxCycle
    BY <1>5 DEF Pace
  <2> HIDE DEF w, d, i
  <2>4. nxt' <= ScrapeInterval \/ idle'[l] + nxt' <= Skew + ScrapeInterval + MaxCycle
    BY <1>1, <2>1, <2>3
  <2>5. wait'[l] > d + Skew => idle'[l] + Distance(l)' <= Skew + Period
    BY <1>1, <1>2, <2>1, <2>2 DEF Pace, Period, w, i
  <2>6. wait'[l] \in 1..(d + Skew) => idle'[l] + wait'[l] <= d + 2 * Skew + Period
    BY <1>1, <1>2, <2>1, <2>2 DEF Pace, Period, w, i
  <2>7. wait'[l] <= 0 => idle'[l] + Distance(l)' <= d + 2 * (Skew + Period)
    <3> SUFFICES ASSUME wait'[l] <= 0 PROVE idle'[l] + Distance(l)' <= d + 2 * (Skew + Period)
      OBVIOUS
    <3>1. CASE w <= 0
      BY <1>1, <3>1, <2>1, <2>2 DEF Pace, Period, w, i
    <3>2. CASE w = 1
      <4>1. i + 1 <= d + 2 * Skew + Period
        BY <1>1, <3>2 DEF Pace, Period, w, i
      <4> QED  BY <1>1, <2>1, <2>2, <2>3, <4>1 DEF Period
    <3> QED  BY <1>1, <1>2, <3>1, <3>2
  <2> QED  BY <1>1, <1>3, <2>4, <2>5, <2>6, <2>7 DEF Pace
<1> QED  BY <1>4, <1>5

\* Earliest is far enough back for what a cycle sees.
LEMMA FarPast ==
  ASSUME NEW e \in Int, NEW g \in Int, NEW c \in Int, NEW s \in Int, NEW j \in Int,
         NEW n \in Int, e + c + n = 0, g <= s + j, s <= c, j <= n
  PROVE  e + g <= 0
OBVIOUS

\* The ticks of a cycle: a visit that is sure stays so, because the cycle's now
\* does not move and a passed deadline stays passed.
LEMMA CycleTickKeepsPace ==
  ASSUME AuxInv, TypeInv, TypeInv', Tick, mpc = "cycle", NEW l \in Lanes, Pace(l), ~Kept(l)
  PROVE  Pace(l)'
<1> USE Parameters
<1> DEFINE w == wait[l]
           d == delay[l]
           i == idle[l]
<1>1. /\ i \in Nat /\ w \in Int /\ d \in Nat \ {0} /\ nxt \in Int /\ nxt' = nxt - 1
      /\ spent \in Nat /\ spent < MaxCycle /\ spent' = spent + 1
      /\ Delay(l) = d /\ Delay(l)' = d /\ delay'[l] = d
      /\ idle'[l] = i + 1
  BY TickFacts, PaceTypes, PaceTypesNext DEF Suspended
<1>2. /\ wait'[l] \in Int /\ (wait'[l] > 0 => wait'[l] = w - 1) /\ (wait'[l] <= 0 => w <= 1)
      /\ wait'[l] = w - 1 \/ wait'[l] = Earliest
  BY <1>1, TickFacts, EarliestFacts DEF Greatest
<1>3. mpc' = "cycle" /\ todo' = todo
  BY TickFacts
<1>4. lag \in Int /\ lag' = lag + 1 /\ Earliest + lag' <= 0
  <2>1. lag' \in Int /\ lag' <= spent' + jumps' * MaxStep /\ spent' \in 0..MaxCycle
        /\ jumps' \in 0..MaxJumps
    BY DEF TypeInv, ClockTypes
  <2>2. lag \in Int /\ lag' = lag + 1
    BY PaceTypes, TickFacts
  <2> DEFINE J == jumps' * MaxStep
             K == MaxJumps * MaxStep
  <2>3. J \in Nat /\ K \in Nat /\ J <= K /\ Earliest \in Int /\ Earliest + MaxCycle + K = 0
    BY <2>1, EarliestFacts
  <2>4. lag' <= spent' + J
    BY <2>1
  <2> HIDE DEF J, K
  <2>5. Earliest + lag' <= 0
    <3>1. J \in Int /\ K \in Int /\ MaxCycle \in Int
          /\ lag' \in Int /\ spent' \in Int /\ spent' <= MaxCycle
      BY <2>3, PaceTypesNext
    <3> QED  BY <2>3, <2>4, <3>1, FarPast, Zenon
  <2> QED  BY <2>2, <2>5
<1>5. Sure(l) /\ (wait'[l] <= 0 \/ wait'[l] > d + Skew) => Sure(l)'
  <2>1. CASE l = Mnt
    BY <1>1, <1>3, <2>1 DEF Sure, SeenWait, Due, Greatest
  <2>2. CASE l # Mnt
    <3>1. SeenWait(l) = w + lag /\ SeenWait(l)' = wait'[l] + lag'
      BY <2>2 DEF SeenWait
    <3>2. SeenWait(l)' = SeenWait(l) \/ SeenWait(l)' <= 0
      BY <1>1, <1>2, <1>4, <3>1, EarliestFacts
    <3> QED  BY <1>1, <1>3, <3>1, <3>2 DEF Sure, Due
  <2> QED  BY <2>1, <2>2
<1>6. /\ Distance(l) \in Int /\ Distance(l) >= 1
      /\ Sure(l) => Distance(l) = MaxCycle - spent
      /\ ~Sure(l) => Distance(l) = 2 * MaxCycle - spent + NextWait
  BY <1>1 DEF Distance, NextWait
<1>7. /\ Distance(l)' \in Int
      /\ Sure(l)' => Distance(l)' = MaxCycle - spent - 1
      /\ ~Sure(l)' => Distance(l)' = 2 * MaxCycle - spent - 1 + NextWait'
  BY <1>1, <1>3 DEF Distance, NextWait
<1>8. /\ NextWait \in Nat /\ NextWait' \in Nat /\ NextWait' <= NextWait
      /\ NextWait' <= ScrapeInterval + Skew /\ (nxt' <= 0 => NextWait' = ScrapeInterval)
  BY <1>1 DEF NextWait
<1>9. wait'[l] <= 0 \/ wait'[l] > d + Skew => Distance(l)' <= Distance(l) - 1
  BY <1>1, <1>5, <1>6, <1>7, <1>8
<1>10. nxt' > 0 => i + 1 <= spent'
  BY <1>1 DEF Pace
<1> HIDE DEF w, d, i
<1>11. wait'[l] > d + Skew => idle'[l] + Distance(l)' <= Skew + Period
  BY <1>1, <1>2, <1>6, <1>7, <1>9 DEF Pace, Period, w, i
<1>12. wait'[l] \in 1..(d + Skew) => idle'[l] + wait'[l] <= d + 2 * Skew + Period
  BY <1>1, <1>2, <1>6 DEF Pace, Period, w, i
<1>13. wait'[l] <= 0 => idle'[l] + Distance(l)' <= d + 2 * (Skew + Period)
  <2> SUFFICES ASSUME wait'[l] <= 0 PROVE idle'[l] + Distance(l)' <= d + 2 * (Skew + Period)
    OBVIOUS
  <2>1. CASE w <= 0
    BY <1>1, <1>6, <1>7, <1>9, <2>1 DEF Pace, Period, w, i
  <2>2. CASE w = 1
    <3>1. i + 1 <= d + 2 * Skew + Period
      BY <1>1, <2>2 DEF Pace, Period, w, i
    <3>2. Distance(l)' <= 2 * MaxCycle - spent - 1 + NextWait'
      BY <1>1, <1>7, <1>8
    <3> QED  BY <1>1, <1>7, <1>8, <1>10, <3>1, <3>2 DEF Period
  <2> QED  BY <1>1, <1>2, <2>1, <2>2
<1> QED  BY <1>1, <1>3, <1>10, <1>11, <1>12, <1>13 DEF Pace

\* A tick.
LEMMA TickKeepsPace ==
  ASSUME AuxInv, TypeInv, TypeInv', Paced, Tick
  PROVE  Paced'
<1> USE Parameters
<1>1. /\ mpc \in {"cycle", "wait"}
      /\ UNCHANGED <<mpc, todo, evt, moved, inflight, stopping, delay>> /\ nxt' = nxt - 1
      /\ mpc = "wait" => spent' = spent /\ lag' = lag
  BY TickFacts
<1>2. \A l \in Lanes : (Kept(l)' <=> Kept(l)) /\ (Kept(l) => idle'[l] = 0)
  BY <1>1, TickFacts DEF Paced, Running, Kept
<1>3. ASSUME NEW l \in Lanes, Pace(l) PROVE Pace(l)'
  <2>1. CASE Kept(l)
    <3>1. mpc' = "wait" /\ ~moved' => nxt' <= Skew + ScrapeInterval + MaxCycle
      BY <1>1, <1>3, BoundaryNear, PaceTypes
    <3> QED  BY <1>1, <1>2, <2>1, <3>1, FreshLane
  <2>2. CASE ~Kept(l)
    BY <1>1, <1>3, <2>2, WaitTickKeepsPace, CycleTickKeepsPace
  <2> QED  BY <2>1, <2>2
<1> QED  BY <1>1, <1>2, <1>3 DEF Paced, Running

\* Every step.
LEMMA NextKeepsPace ==
  ASSUME AuxInv, TypeInv, TypeInv', Paced, [Next]_vars
  PROVE  Paced'
<1>1. CASE Next
  BY <1>1, NextCases, LoopKeepsPace, ThreadKeepsPace, TickKeepsPace, ClockStepKeepsPace
<1>2. CASE UNCHANGED vars
  BY <1>2 DEF vars, loopVars, laneVars, planVars, Paced, Running, Kept, Pace, Distance, NextWait,
              Sure, SeenWait, Delay
<1> QED  BY <1>1, <1>2

\* The initial state: no loop() runs yet.
LEMMA InitPaced == Init => Paced
BY DEF Init, Paced, Running

\* No lane rests longer than its pace allows: a visit lies ahead.
LEMMA PaceBounds ==
  ASSUME TypeInv, NEW l \in Lanes, Running, Pace(l)
  PROVE  idle[l] <= Delay(l) + 2 * (Skew + Period)
<1> USE Parameters, PaceTypes
<1>1. Distance(l) \in Nat
  BY DEF Distance, NextWait, Running
<1>2. CASE wait[l] > Delay(l) + Skew
  BY <1>1, <1>2 DEF Pace, Period
<1>3. CASE wait[l] \in 1..(Delay(l) + Skew)
  BY <1>3 DEF Pace, Period
<1>4. CASE wait[l] <= 0
  BY <1>1, <1>4 DEF Pace, Period
<1> QED  BY <1>2, <1>3, <1>4

-----------------------------------------------------------------------------
(* The theorems *)

\* The invariant holds throughout: the mark of a lane stands for the run of its
\* last thread, and reservations lie apart.
THEOREM LanesInvariant == Spec => []AuxInv
<1>1. AuxInv /\ [Next]_vars => AuxInv'
  BY NextKeepsLanes, NextKeepsSlots DEF AuxInv, SlotInv
<1> QED  BY InitInv, <1>1, PTL DEF Spec

\* A lane never runs its collector twice at once, whatever join times out and
\* however often loop() is called, and its inflight mark is held exactly as long
\* as its run (scheduler.py:1082, 1186, 1243).
THEOREM LanesCollectOnce == Spec => []OneCollection
<1>1. AuxInv => OneCollection
  <2> SUFFICES ASSUME AuxInv, NEW l \in Lanes
               PROVE  /\ Cardinality(Active(l)) <= 1
                      /\ mpc # "exited" => (inflight[l] <=> Active(l) # {})
    BY DEF OneCollection
  <2>1. /\ tpc[l]["older"] \in {"exit", "dead"}
        /\ mpc # "exited" => (inflight[l] <=> tpc[l]["last"] \in Busy)
    BY DEF AuxInv, LaneInv, OneThread
  <2>2. Active(l) = IF tpc[l]["last"] \in Busy THEN {"last"} ELSE {}
    BY <2>1 DEF Active, Threads, Busy, Working
  <2>3. Cardinality({"last"}) = 1 /\ Cardinality({}) = 0
    BY FS_EmptySet, FS_Singleton
  <2> QED  BY <2>1, <2>2, <2>3
<1> QED  BY LanesInvariant, <1>1, PTL

\* main() closes the MnT client under no thread that may still use it
\* (__main__.py:275-281).
THEOREM MntClientKept == Spec => []MntClientUse
<1>1. AuxInv => MntClientUse
  BY AuxAssumption DEF AuxInv, LaneInv, OneThread, ClosedLast, MntClientUse, Threads, Working
<1> QED  BY LanesInvariant, <1>1, PTL

\* First attempts that take a slot start a spacing apart, for any number of
\* lanes and any order of reservations (scheduler.py:798-803).
THEOREM SlotsStaySpaced == Spec => SlotsSpaced
<1>1. AuxInv /\ [Next]_vars =>
        [\A l \in Lanes, k \in Threads : TakeSlot(l, k) => sinceSlot = Spacing]_vars
  BY SlotTaken DEF AuxInv, SlotInv
<1> QED  BY LanesInvariant, <1>1, PTL DEF Spec, SlotsSpaced

\* Types and pace hold throughout: what a deadline, a boundary and the start-up
\* queue can reach, and how long each free lane has still to rest.
THEOREM RestInvariant == Spec => [](AuxInv /\ TypeInv /\ Paced)
<1>1. Init => AuxInv /\ TypeInv /\ Paced
  BY InitInv, InitTypes, InitPaced
<1>2. AuxInv /\ TypeInv /\ Paced /\ [Next]_vars => (AuxInv /\ TypeInv /\ Paced)'
  <2> SUFFICES ASSUME AuxInv, TypeInv, Paced, [Next]_vars PROVE (AuxInv /\ TypeInv /\ Paced)'
    OBVIOUS
  <2>1. AuxInv'
    BY NextKeepsLanes, NextKeepsSlots DEF AuxInv, SlotInv
  <2>2. CASE Next
    <3>1. FlagTypes' /\ ClockTypes' /\ PlanTypes' /\ RunTypes' /\ QueueTypes'
      BY <2>2, NextKeepsFlags, NextKeepsClock, NextKeepsPlan, NextKeepsRuns, NextKeepsQueue
         DEF TypeInv, AuxInv, LaneInv
    <3> QED  BY <2>1, <3>1, NextKeepsPace DEF TypeInv
  <2>3. CASE UNCHANGED vars
    BY <2>1, <2>3, StutterKeepsTypes, NextKeepsPace
  <2> QED  BY <2>2, <2>3
<1> QED  BY <1>1, <1>2, PTL DEF Spec

\* Deadlines, the next boundary and the start-up queue stay within what the
\* intervals, the clock's steps and the number of lanes allow.
THEOREM TypeCorrect == Spec => []TypeOK
<1>1. AuxInv /\ TypeInv /\ Paced => TypeOK
  BY TypesFollow
<1> QED  BY RestInvariant, <1>1, PTL

\* However often and however far the wall clock is set, a free lane is run again
\* within its delay, twice the skew allowance, two scrape intervals and the
\* cycles around them (scheduler.py:227-235, 607-616).
THEOREM LanesNotSuspended == Spec => []NoSuspension
<1>1. AuxInv /\ TypeInv /\ Paced => NoSuspension
  <2> SUFFICES ASSUME TypeInv, Paced, NEW l \in Lanes, mpc \in {"cycle", "wait"}, ~evt
               PROVE  idle[l] <= Greatest(1, delay[l])
                                   + 2 * (Skew + ScrapeInterval + 2 * MaxCycle)
    BY DEF NoSuspension
  <2>1. idle[l] <= Delay(l) + 2 * (Skew + Period)
    BY PaceBounds DEF Paced, Running
  <2> QED  BY <2>1, Parameters, PaceTypes DEF Delay, Period
<1> QED  BY RestInvariant, <1>1, PTL
=============================================================================
