------------------------------- MODULE PacingGate -------------------------------
(***************************************************************************)
(* The shared pacing gate of clients/dataconnect.py.  The exporter service *)
(* and every operator CLI are processes that serialize their Oracle        *)
(* statements with an flock on one small file, and pace them by the        *)
(* deadline that file holds.  A request is a single statement (_query) or  *)
(* a batch (query_many); a reporting statement is charged its duration     *)
(* times 100/duty - 1, a catalog or point lookup only its duration.        *)
(*                                                                         *)
(* Deadlines are kept as the time that remains until them; an expired,     *)
(* zero or missing deadline is 0.  A tick moves every process's clock;     *)
(* only statements and waits take time.  A process may die at any point.   *)
(***************************************************************************)
EXTENDS Integers

CONSTANTS Proc,         \* the processes that share the gate
          None,         \* no process
          Factor,       \* 100 / max_duty_cycle - 1
          MaxDuration,  \* MAX_STATEMENT_TIMEOUT_PERIODS * timeout
          MinGap,       \* min_query_interval
          LeaseCap,     \* MAX_CRASH_LEASE_SECONDS
          MaxBatch,     \* MAX_BATCH_QUERIES
          MaxLocal,     \* bound: cooldown a failed gate leaves in the process
          MaxCrashes,   \* bound: process deaths
          TornWrites    \* may a write stop between its truncation and its data

ASSUME GateConstants ==
  /\ None \notin Proc
  /\ Factor \in Nat /\ MaxDuration \in Nat \ {0} /\ MinGap \in Nat
  /\ LeaseCap \in Nat /\ MaxBatch \in Nat \ {0}
  /\ MaxLocal \in Nat /\ MaxLocal >= MinGap
  /\ MaxCrashes \in Nat /\ TornWrites \in BOOLEAN

VARIABLES
  file,      \* time left of the deadline in the pacing file
  lock,      \* the process that holds the flock
  pc,        \* where each process is
  req,       \* the request each process is serving
  local,     \* time left of _next_query_at, per process
  \* the gate owner's own variables
  kept,      \* time left of the deadline read on acquisition
  used,      \* Oracle time of the request so far (_batch_duration)
  ran,       \* Oracle time of the current statement
  gap,       \* time left of the fixed pause inside a batch
  left,      \* statements of the batch not completed yet
  torn,      \* the file is truncated and its new content not written
  crashes,   \* process deaths so far
  \* ghosts: what the database is owed, as time left
  owed,      \* largest measured cooldown of a finished request
  silence,   \* lease of a statement whose process died before it was measured
  measured   \* measured cooldown of the statements of a batch so far

ownerVars == <<kept, used, ran, gap, left, torn>>
ghostVars == <<owed, silence, measured>>
vars == <<file, lock, pc, req, local, ownerVars, crashes, ghostVars>>

Least(a, b) == IF a < b THEN a ELSE b
Greatest(a, b) == IF a > b THEN a ELSE b

\* query, query_if_ready, query_catalog, query_catalog_if_ready,
\* query_endpoint_lookup (adaptive FALSE) and query_many (batch).
Request == {r \in [adaptive : BOOLEAN, wait : BOOLEAN, batch : BOOLEAN] :
              r.batch => r.adaptive /\ r.wait}

\* Where a process holds the flock: waiting out the cooldown, writing the first
\* lease, at work, writing a completed cooldown, pausing, writing the lease of
\* the next statement, releasing.
Inside == {"cool", "lease", "query", "complete", "gap", "renew", "release"}

Init ==
  /\ file = 0 /\ lock = None
  /\ pc = [p \in Proc |-> "idle"]
  /\ req \in [Proc -> {[adaptive |-> TRUE, wait |-> TRUE, batch |-> FALSE]}]
  /\ local = [p \in Proc |-> 0]
  /\ kept = 0 /\ used = 0 /\ ran = 0 /\ gap = 0 /\ left = 0 /\ torn = FALSE
  /\ crashes = 0
  /\ owed = 0 /\ silence = 0 /\ measured = 0

Goto(p, l) == pc' = [pc EXCEPT ![p] = l]

\* The flock and the owner's variables end with the owner's hold on the gate.
Freed ==
  /\ lock' = None
  /\ kept' = 0 /\ used' = 0 /\ ran' = 0 /\ gap' = 0 /\ left' = 0 /\ torn' = FALSE
FreedBy(p) == IF lock = p THEN Freed ELSE UNCHANGED <<lock, ownerVars>>

--------------------------------------------------------------------------------
(* Entering the gate: _query, query_many and _shared_gate *)

Call(p) ==
  /\ pc[p] = "idle"
  /\ \E r \in Request : req' = [req EXCEPT ![p] = r]
  /\ Goto(p, "local")
  /\ UNCHANGED <<file, lock, local, ownerVars, crashes, ghostVars>>

\* The process's own cooldown has passed.
LocalReady(p) ==
  /\ pc[p] = "local" /\ local[p] = 0
  /\ Goto(p, "poll")
  /\ UNCHANGED <<file, lock, req, local, ownerVars, crashes, ghostVars>>

\* A non-blocking request gives up (local cooldown, gate in use), a blocking one
\* is cancelled by shutdown while it waits for its own cooldown.
GiveUp(p) ==
  /\ \/ pc[p] = "local" /\ local[p] > 0
     \/ pc[p] = "poll" /\ lock # None /\ ~req[p].wait
  /\ Goto(p, "idle")
  /\ UNCHANGED <<file, lock, req, local, ownerVars, crashes, ghostVars>>

\* Mutant: the deadline is read and served without the flock.
AcquireAnyway(p) ==
  /\ pc[p] = "poll"
  /\ lock' = p
  /\ kept' = IF req[p].adaptive THEN 0 ELSE file
  /\ left' \in IF req[p].batch THEN 1..MaxBatch ELSE {1}
  /\ Goto(p, "cool")
  /\ UNCHANGED <<file, req, local, used, ran, gap, torn, crashes, ghostVars>>

\* flock succeeds and the deadline is read.
Acquire(p) ==
  /\ pc[p] = "poll" /\ lock = None
  /\ lock' = p
  /\ kept' = IF req[p].adaptive THEN 0 ELSE file
  /\ left' \in IF req[p].batch THEN 1..MaxBatch ELSE {1}
  /\ Goto(p, "cool")
  /\ UNCHANGED <<file, req, local, used, ran, gap, torn, crashes, ghostVars>>

\* A non-blocking reporting request finds a cooldown running.
Defer(p) ==
  /\ pc[p] = "cool" /\ file > 0 /\ req[p].adaptive /\ ~req[p].wait
  /\ Freed
  /\ Goto(p, "idle")
  /\ UNCHANGED <<file, req, local, crashes, ghostVars>>

\* The cooldown has passed; metadata and point lookups do not wait for it.
Enter(p) ==
  /\ pc[p] = "cool" /\ (file = 0 \/ ~req[p].adaptive)
  /\ Goto(p, "lease")
  /\ UNCHANGED <<file, lock, req, local, ownerVars, crashes, ghostVars>>

\* _shared_gate raises: cancelled by shutdown while polling or cooling, or the
\* file fails.  A single statement charges the time it waited to the process.
Fails(p) ==
  /\ pc[p] \in {"poll", "cool", "lease"}
  /\ lock = p /\ torn => TornWrites
  /\ IF req[p].batch THEN UNCHANGED local
     ELSE \E k \in MinGap..MaxLocal : local' = [local EXCEPT ![p] = k]
  /\ Goto(p, "idle")
  /\ UNCHANGED <<file, req, crashes, ghostVars>>

\* Mutant: the error path does not close the descriptor.
GateErrorLeaky(p) == Fails(p) /\ UNCHANGED <<lock, ownerVars>>

\* Closing the descriptor drops the flock.
GateError(p) == Fails(p) /\ FreedBy(p)

--------------------------------------------------------------------------------
(* Writing the file: _write_shared_deadline, ftruncate and then write *)

Truncate(p) ==
  /\ pc[p] \in {"lease", "renew", "complete", "release"} /\ ~torn
  /\ file' = 0 /\ torn' = TRUE
  /\ UNCHANGED <<lock, pc, req, local, kept, used, ran, gap, left, crashes,
                 ghostVars>>

Write(value) == torn /\ file' = value

\* The charge for u ticks of Oracle time.
Charge(r, u) == IF r.adaptive THEN u * Factor ELSE u

\* Mutant: no lease is left behind for the case of a crash.
NoLease(p) == 0

\* The pessimistic lease of the next statement, capped.
Lease(p) ==
  Least(LeaseCap, Greatest(MinGap, Charge(req[p], used + MaxDuration)))

WriteLease(p) ==
  /\ pc[p] \in {"lease", "renew"}
  /\ Write(Greatest(Lease(p), kept))
  /\ torn' = FALSE
  /\ ran' = 0
  /\ Goto(p, "query")
  /\ UNCHANGED <<lock, req, local, kept, used, gap, left, crashes, ghostVars>>

Cooldown(p) == Greatest(MinGap, Charge(req[p], used))

\* The statement returns or fails, after its one reconnect.  Only a batch goes on
\* to publish what its completed statements cost.
EndStatement(p) ==
  /\ pc[p] = "query"
  /\ \/ req[p].batch /\ Goto(p, "complete")
     \/ Goto(p, "release")
  /\ UNCHANGED <<file, lock, req, local, ownerVars, crashes, ghostVars>>

\* What the completed statements of the batch cost is published.
WriteComplete(p) ==
  /\ pc[p] = "complete"
  /\ Write(Cooldown(p))
  /\ measured' = Greatest(measured, Cooldown(p))
  /\ torn' = FALSE
  /\ left' = left - 1
  /\ IF left > 1 THEN gap' = MinGap /\ Goto(p, "gap")
                 ELSE UNCHANGED gap /\ Goto(p, "release")
  /\ UNCHANGED <<lock, req, local, kept, used, ran, crashes, owed, silence>>

\* The fixed pause before the next statement of a batch is over.
Resume(p) ==
  /\ pc[p] = "gap" /\ gap = 0
  /\ Goto(p, "renew")
  /\ UNCHANGED <<file, lock, req, local, ownerVars, crashes, ghostVars>>

\* The batch fails between statements: its pause is cancelled or a write fails.
Abort(p) ==
  /\ \/ pc[p] = "gap"
     \/ pc[p] \in {"renew", "complete"} /\ (torn => TornWrites)
  /\ torn' = FALSE
  /\ Goto(p, "release")
  /\ UNCHANGED <<file, lock, req, local, kept, used, ran, gap, left, crashes,
                 ghostVars>>

\* The finally clauses: the local cooldown, and the end of the flock.
Unlock(p) ==
  /\ Freed
  /\ local' = [local EXCEPT ![p] = Cooldown(p)]
  /\ Goto(p, "idle")

\* Mutant: a metadata lookup publishes only its own cooldown.
ReleaseShort(p) ==
  /\ pc[p] = "release"
  /\ Write(Cooldown(p))
  /\ Unlock(p)
  /\ owed' = Greatest(owed, Cooldown(p))
  /\ UNCHANGED <<req, crashes, silence, measured>>

\* _release_shared_gate: the measured cooldown, never shorter than a deadline
\* that a metadata lookup found running.
Release(p) ==
  /\ pc[p] = "release"
  /\ Write(Greatest(Cooldown(p), kept))
  /\ Unlock(p)
  /\ owed' = Greatest(owed, Cooldown(p))
  /\ UNCHANGED <<req, crashes, silence, measured>>

\* The write fails: the flock is dropped all the same and the request reported
\* as an error, because its cooldown was not durably published.
ReleaseError(p) ==
  /\ pc[p] = "release" /\ (torn => TornWrites)
  /\ Unlock(p)
  /\ UNCHANGED <<file, req, crashes, ghostVars>>

--------------------------------------------------------------------------------
(* Process death and time *)

\* The statement of p is in the database, or over and its cost not published.
Unpublished(p) ==
  pc[p] \in {"query", "complete"} \/ (pc[p] = "release" /\ ~req[p].batch)

\* The kernel drops the flock; another process of the same name starts afresh.
\* The ghost keeps what is left of the lease of a statement nobody measured.
Crash(p) ==
  /\ pc[p] # "idle" /\ crashes < MaxCrashes
  /\ lock = p /\ torn => TornWrites
  /\ crashes' = crashes + 1
  /\ FreedBy(p)
  /\ local' = [local EXCEPT ![p] = 0]
  /\ Goto(p, "idle")
  /\ silence' =
       IF Unpublished(p)
         THEN Greatest(silence,
                Least(LeaseCap, Greatest(MinGap, Charge(req[p], MaxDuration))) - ran)
         ELSE silence
  /\ UNCHANGED <<file, req, owed, measured>>

Down(n) == IF n > 0 THEN n - 1 ELSE 0
Working == lock # None /\ pc[lock] = "query"

Tick ==
  /\ ~torn
  /\ lock # None => pc[lock] \in {"cool", "query", "gap"}
  /\ Working => ran < MaxDuration
  /\ used' = IF Working THEN used + 1 ELSE used
  /\ ran' = IF Working THEN ran + 1 ELSE ran
  /\ file' = Down(file) /\ kept' = Down(kept) /\ gap' = Down(gap)
  /\ local' = [p \in Proc |-> Down(local[p])]
  /\ owed' = Down(owed) /\ silence' = Down(silence) /\ measured' = Down(measured)
  /\ UNCHANGED <<lock, pc, req, left, torn, crashes>>

--------------------------------------------------------------------------------

Step(p) == \/ LocalReady(p) \/ GiveUp(p) \/ Acquire(p) \/ Defer(p) \/ Enter(p)
           \/ Truncate(p) \/ WriteLease(p) \/ EndStatement(p) \/ WriteComplete(p)
           \/ Resume(p) \/ Release(p)

Fault(p) == Call(p) \/ GateError(p) \/ Abort(p) \/ ReleaseError(p) \/ Crash(p)

Next == Tick \/ \E p \in Proc : Step(p) \/ Fault(p)

Spec == Init /\ [][Next]_vars

\* Processes keep running, statements end (Oracle's call timeout) and time passes.
FairSpec == Spec /\ WF_vars(Tick) /\ \A p \in Proc : WF_vars(Step(p))

--------------------------------------------------------------------------------
(* Properties *)

TypeOK ==
  /\ file \in Nat /\ lock \in Proc \cup {None}
  /\ pc \in [Proc -> Inside \cup {"idle", "local", "poll"}]
  /\ req \in [Proc -> Request] /\ local \in [Proc -> Nat]
  /\ kept \in Nat /\ used \in Nat /\ ran \in 0..MaxDuration /\ gap \in Nat
  /\ left \in 0..MaxBatch /\ torn \in BOOLEAN /\ crashes \in 0..MaxCrashes
  /\ owed \in Nat /\ silence \in Nat /\ measured \in Nat

\* A reporting request is about to reach the database.
Starts(p) == pc[p] = "lease" /\ pc'[p] = "query" /\ req[p].adaptive

\* "separate processes cannot bypass the cooldown": no reporting request reaches
\* the database while the measured cooldown of a request finished in any process
\* is still running, whatever metadata lookups, errors and deaths came between.
CooldownHonoured == [][\A p \in Proc : Starts(p) => owed = 0]_vars

\* "process or host loss during a reporting query therefore cannot turn restart
\* into an immediate second database hit": the lease outlives a process that dies
\* in a statement or before it has published what the statement cost.
CrashSilence == [][\A p \in Proc : Starts(p) => silence = 0]_vars

\* "Measured post-completion cooldowns ... are exempt" from the cap on crash
\* leases: what the completed statements of a batch cost is paid in full, also
\* when a later statement of the batch takes the process down.
MeasuredExempt == [][\A p \in Proc : Starts(p) => measured = 0]_vars

\* The flock serializes the statements of all processes, and only its owner is
\* ever between acquisition and release.
OneOwner == \A p \in Proc : pc[p] \in Inside => lock = p

\* The request the database is serving, and what it is owed.
InService == {p \in Proc : pc[p] \in {"query", "complete", "gap", "renew", "release"}}
Serving == {[proc |-> p, reporting |-> req[p].adaptive] : p \in InService}
Running == \E p \in Proc : pc[p] = "query"
Rest == Greatest(owed, silence)

Paced == INSTANCE PacedDatabase WITH
           serving <- Serving, running <- Running, since <- ran, busy <- used, rest <- Rest

\* The gate keeps what PacedDatabase promises: for all its files, locks, polls and
\* deaths the database serves one request of all processes at a time, measured in
\* full, and no reporting request before the rest that measured cooldowns and
\* crash leases give it is over (clients/dataconnect.py 395-530, 587-850).
ImplementsPaced == Paced!Spec

\* The gate is always given up again: no error path keeps the flock.
GateFreed == lock # None ~> lock = None
================================================================================
