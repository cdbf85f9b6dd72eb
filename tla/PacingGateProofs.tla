---------------------------- MODULE PacingGateProofs ----------------------------
(***************************************************************************)
(* What TLAPS proves of PacingGate for every set of processes, every duty  *)
(* cycle, lease cap and batch size: the flock has one owner, and, as long  *)
(* as no write of the pacing file is torn, no reporting request reaches    *)
(* the database while a measured cooldown or a crash lease still runs.     *)
(***************************************************************************)
EXTENDS PacingGate, TLAPS

\* Charges and leases are natural numbers, and Oracle time already used by a
\* batch only makes the charge of its next statement larger.
LEMMA ChargeFacts ==
  /\ \A r \in Request : \A u \in Nat : Charge(r, u) \in Nat
  /\ \A r \in Request : \A u \in Nat :
       Charge(r, MaxDuration) <= Charge(r, u + MaxDuration)
<1>1. ASSUME NEW r \in Request, NEW u \in Nat
      PROVE  /\ Charge(r, u) \in Nat
             /\ Charge(r, MaxDuration) <= Charge(r, u + MaxDuration)
  <2>1. u * Factor \in Nat /\ MaxDuration * Factor \in Nat
    BY GateConstants
  <2>2. (u + MaxDuration) * Factor = u * Factor + MaxDuration * Factor
    BY GateConstants
  <2>3. r.adaptive \in BOOLEAN
    BY DEF Request
  <2> QED  BY <2>1, <2>2, <2>3, GateConstants DEF Charge
<1> QED  BY <1>1

\* Facts about the numbers the gate writes, in a state of the right type.
LEMMA NumberFacts ==
  ASSUME TypeOK, NEW p \in Proc
  PROVE  Cooldown(p) \in Nat /\ Lease(p) \in Nat
<1>1. req[p] \in Request /\ used \in Nat /\ used + MaxDuration \in Nat
  BY GateConstants DEF TypeOK
<1>2. Charge(req[p], used) \in Nat /\ Charge(req[p], used + MaxDuration) \in Nat
  BY <1>1, ChargeFacts
<1> QED  BY <1>2, GateConstants DEF Cooldown, Lease, Least, Greatest

\* The lease that the statement of a dead process leaves behind, measured from
\* the statement's start: what the crash ghost is set from.
BaseLease(p) == Least(LeaseCap, Greatest(MinGap, Charge(req[p], MaxDuration)))

\* Every lease covers the lease of a single statement.
LEMMA LeaseCovers ==
  ASSUME TypeOK, NEW p \in Proc
  PROVE  BaseLease(p) \in Nat /\ BaseLease(p) <= Lease(p)
<1>1. req[p] \in Request /\ used \in Nat /\ MaxDuration \in Nat
  BY GateConstants DEF TypeOK
<1>2. /\ Charge(req[p], MaxDuration) \in Nat
      /\ Charge(req[p], used + MaxDuration) \in Nat
      /\ Charge(req[p], MaxDuration) <= Charge(req[p], used + MaxDuration)
  BY <1>1, ChargeFacts, GateConstants
<1> QED  BY <1>2, GateConstants DEF BaseLease, Lease, Least, Greatest

--------------------------------------------------------------------------------
(* Types and the ownership of the flock *)

\* The writes happen inside the gate, a process inside it owns the flock, and
\* conversely the flock is never left with a process outside.
Owner == /\ OneOwner
         /\ lock # None => pc[lock] \in Inside
         /\ torn => lock # None /\ pc[lock] \in {"lease", "renew", "complete", "release"}

\* left counts the statements a batch still has to complete.
Counted ==
  lock # None /\ pc[lock] \in {"cool", "lease", "query", "complete", "gap", "renew"}
    => left >= 1

TInv == TypeOK /\ Owner /\ Counted

\* The initial state has the right type and nobody is in the gate.
LEMMA TInvInit == Init => TInv
<1> SUFFICES ASSUME Init PROVE TInv
  OBVIOUS
<1>1. [adaptive |-> TRUE, wait |-> TRUE, batch |-> FALSE] \in Request
  BY DEF Request
<1>2. TypeOK
  <2>1. req \in [Proc -> Request]
    BY <1>1 DEF Init
  <2>2. ran \in 0..MaxDuration /\ left \in 0..MaxBatch /\ crashes \in 0..MaxCrashes
    BY GateConstants DEF Init
  <2>3. torn \in BOOLEAN
    BY DEF Init
  <2> QED  BY <2>1, <2>2, <2>3 DEF Init, TypeOK, Inside
<1>3. Owner /\ Counted
  BY GateConstants DEF Init, Owner, OneOwner, Counted, Inside
<1> QED  BY <1>2, <1>3 DEF TInv

\* A process that leaves the gate leaves it free and in order.
LEMMA Leave ==
  ASSUME TInv, NEW p \in Proc, Freed, pc' = [pc EXCEPT ![p] = "idle"], lock = p
  PROVE  /\ Owner' /\ Counted'
         /\ pc' \in [Proc -> Inside \cup {"idle", "local", "poll"}]
         /\ lock' \in Proc \cup {None}
         /\ kept' \in Nat /\ used' \in Nat /\ ran' \in 0..MaxDuration /\ gap' \in Nat
         /\ left' \in 0..MaxBatch /\ torn' \in BOOLEAN
<1>1. pc \in [Proc -> Inside \cup {"idle", "local", "poll"}]
  BY DEF TInv, TypeOK
<1>2. pc' \in [Proc -> Inside \cup {"idle", "local", "poll"}]
  BY <1>1
<1>3. ~torn' /\ lock' = None
  BY DEF Freed
<1>4. \A q \in Proc : pc'[q] \notin Inside
  BY <1>1, GateConstants DEF TInv, Owner, OneOwner, Inside
<1>5. Owner' /\ Counted'
  BY <1>3, <1>4 DEF Owner, OneOwner, Counted
<1>6. torn' \in BOOLEAN
  BY <1>3 DEF Freed
<1> QED  BY <1>2, <1>5, <1>6, GateConstants DEF Freed

\* A process that moves on inside the gate is still its only owner.
LEMMA Stay ==
  ASSUME TInv, NEW p \in Proc, NEW l \in Inside, pc[p] \in Inside,
         pc' = [pc EXCEPT ![p] = l], UNCHANGED lock, torn' = FALSE
  PROVE  Owner' /\ pc' \in [Proc -> Inside \cup {"idle", "local", "poll"}]
<1>1. pc \in [Proc -> Inside \cup {"idle", "local", "poll"}]
  BY DEF TInv, TypeOK
<1>2. lock = p /\ p # None
  BY GateConstants DEF TInv, Owner, OneOwner
<1>3. pc'[p] = l /\ \A q \in Proc \ {p} : pc'[q] \notin Inside
  BY <1>1, <1>2 DEF TInv, Owner, OneOwner
<1> QED  BY <1>1, <1>2, <1>3 DEF Owner, OneOwner

\* Every step keeps the types, the single owner and the batch counter.
LEMMA TInvStep == TInv /\ [Next]_vars => TInv'
<1> SUFFICES ASSUME TInv, [Next]_vars PROVE TInv'
  OBVIOUS
<1> USE GateConstants DEF TInv, Goto, ownerVars, ghostVars
<1>1. ASSUME NEW p \in Proc, Call(p) PROVE TInv'
  BY <1>1 DEF Call, TypeOK, Owner, OneOwner, Counted, Inside
<1>2. ASSUME NEW p \in Proc, LocalReady(p) \/ GiveUp(p) PROVE TInv'
  BY <1>2 DEF LocalReady, GiveUp, TypeOK, Owner, OneOwner, Counted, Inside
<1>3. ASSUME NEW p \in Proc, Acquire(p) PROVE TInv'
  BY <1>3 DEF Acquire, TypeOK, Owner, OneOwner, Counted, Inside
<1>4. ASSUME NEW p \in Proc, Defer(p) PROVE TInv'
  <2>1. lock = p
    BY <1>4 DEF Defer, Owner, OneOwner, Inside
  <2> QED  BY <1>4, <2>1, Leave DEF Defer, TypeOK
<1>5. ASSUME NEW p \in Proc, Enter(p) PROVE TInv'
  BY <1>5 DEF Enter, TypeOK, Owner, OneOwner, Counted, Inside
<1>6. ASSUME NEW p \in Proc, GateError(p) PROVE TInv'
  <2>1. local' \in [Proc -> Nat]
    BY <1>6 DEF GateError, Fails, TypeOK
  <2>2. CASE lock = p
    BY <1>6, <2>1, <2>2, Leave DEF GateError, Fails, FreedBy, TypeOK
  <2>3. CASE lock # p
    <3>1. pc[p] = "poll"
      BY <1>6, <2>3 DEF GateError, Fails, Owner, OneOwner, Inside
    <3>2. TypeOK'
      BY <1>6, <2>1, <2>3 DEF GateError, Fails, FreedBy, TypeOK
    <3>3. Owner' /\ Counted'
      BY <1>6, <2>3, <3>1 DEF GateError, Fails, FreedBy, TypeOK, Owner, OneOwner,
                              Counted, Inside
    <3> QED  BY <3>2, <3>3
  <2> QED  BY <2>2, <2>3
<1>7. ASSUME NEW p \in Proc, Truncate(p) PROVE TInv'
  BY <1>7 DEF Truncate, TypeOK, Owner, OneOwner, Counted, Inside
<1>8. ASSUME NEW p \in Proc, WriteLease(p) PROVE TInv'
  <2>1. Greatest(Lease(p), kept) \in Nat
    BY NumberFacts DEF TypeOK, Greatest
  <2>2. Owner' /\ pc' \in [Proc -> Inside \cup {"idle", "local", "poll"}]
    BY <1>8, Stay DEF WriteLease, Inside
  <2>3. TypeOK'
    <3>1. torn' \in BOOLEAN
      BY <1>8 DEF WriteLease
    <3>2. ran' \in 0..MaxDuration
      BY <1>8 DEF WriteLease
    <3> QED  BY <1>8, <2>1, <2>2, <3>1, <3>2 DEF WriteLease, Write, TypeOK
  <2>4. Counted'
    BY <1>8 DEF WriteLease, TypeOK, Owner, OneOwner, Counted, Inside
  <2> QED  BY <2>2, <2>3, <2>4
<1>9. ASSUME NEW p \in Proc, EndStatement(p) PROVE TInv'
  BY <1>9 DEF EndStatement, TypeOK, Owner, OneOwner, Counted, Inside
<1>10. ASSUME NEW p \in Proc, WriteComplete(p) PROVE TInv'
  <2>1. Cooldown(p) \in Nat /\ Greatest(measured, Cooldown(p)) \in Nat
    BY NumberFacts DEF TypeOK, Greatest
  <2>2. lock = p /\ p # None /\ left >= 1 /\ left \in Nat
    BY <1>10 DEF WriteComplete, TypeOK, Owner, OneOwner, Counted, Inside
  <2>3. PICK l \in Inside : /\ pc' = [pc EXCEPT ![p] = l]
                            /\ l \in {"gap", "release"} /\ (l = "gap" => left > 1)
                            /\ gap' \in Nat
    BY <1>10 DEF WriteComplete, Inside, TypeOK
  <2>4. Owner' /\ pc' \in [Proc -> Inside \cup {"idle", "local", "poll"}]
    BY <1>10, <2>3, Stay DEF WriteComplete, Inside
  <2>5. left' = left - 1 /\ left' \in 0..MaxBatch
    BY <1>10, <2>2 DEF WriteComplete, TypeOK
  <2>6. TypeOK'
    BY <1>10, <2>1, <2>3, <2>4, <2>5 DEF WriteComplete, Write, TypeOK
  <2>7. Counted'
    BY <1>10, <2>2, <2>3, <2>5 DEF WriteComplete, TypeOK, Counted
  <2> QED  BY <2>4, <2>6, <2>7
<1>11. ASSUME NEW p \in Proc, Resume(p) \/ Abort(p) PROVE TInv'
  BY <1>11 DEF Resume, Abort, TypeOK, Owner, OneOwner, Counted, Inside
<1>12. ASSUME NEW p \in Proc, Release(p) PROVE TInv'
  <2>1. /\ Cooldown(p) \in Nat /\ Greatest(Cooldown(p), kept) \in Nat
        /\ Greatest(owed, Cooldown(p)) \in Nat
    BY NumberFacts DEF TypeOK, Greatest
  <2>2. lock = p
    BY <1>12 DEF Release, Owner, OneOwner, Inside
  <2> QED  BY <1>12, <2>1, <2>2, Leave DEF Release, Write, Unlock, TypeOK
<1>13. ASSUME NEW p \in Proc, ReleaseError(p) PROVE TInv'
  <2>1. Cooldown(p) \in Nat
    BY NumberFacts DEF TypeOK
  <2>2. lock = p
    BY <1>13 DEF ReleaseError, Owner, OneOwner, Inside
  <2> QED  BY <1>13, <2>1, <2>2, Leave DEF ReleaseError, Unlock, TypeOK
<1>14. ASSUME NEW p \in Proc, Crash(p) PROVE TInv'
  <2>1. silence' \in Nat
    <3>1. silence' = IF Unpublished(p)
                       THEN Greatest(silence, BaseLease(p) - ran) ELSE silence
      BY <1>14 DEF Crash, BaseLease
    <3> QED  BY <3>1, LeaseCovers DEF TypeOK, Greatest
  <2>2. local' \in [Proc -> Nat] /\ crashes' \in 0..MaxCrashes
    BY <1>14 DEF Crash, TypeOK
  <2>3. CASE lock = p
    BY <1>14, <2>1, <2>2, <2>3, Leave DEF Crash, FreedBy, TypeOK
  <2>4. CASE lock # p
    <3>1. pc[p] \notin Inside
      BY <2>4 DEF Owner, OneOwner
    <3>2. TypeOK'
      BY <1>14, <2>1, <2>2, <2>4 DEF Crash, FreedBy, TypeOK
    <3>3. Owner' /\ Counted'
      BY <1>14, <2>4, <3>1 DEF Crash, FreedBy, TypeOK, Owner, OneOwner, Counted,
                               Inside
    <3> QED  BY <3>2, <3>3
  <2> QED  BY <2>3, <2>4
<1>15. CASE Tick
  <2>1. \A n \in Nat : Down(n) \in Nat
    BY DEF Down
  <2>2. TypeOK'
    <3>1. used' \in Nat /\ ran' \in 0..MaxDuration
      BY <1>15 DEF Tick, TypeOK
    <3>2. local' \in [Proc -> Nat]
      BY <1>15, <2>1 DEF Tick, TypeOK
    <3>3. /\ file' \in Nat /\ kept' \in Nat /\ gap' \in Nat
          /\ owed' \in Nat /\ silence' \in Nat /\ measured' \in Nat
      BY <1>15, <2>1 DEF Tick, TypeOK
    <3> QED  BY <1>15, <3>1, <3>2, <3>3 DEF Tick, TypeOK
  <2> QED
    BY <1>15, <2>2 DEF Tick, Owner, OneOwner, Counted, Inside
<1>16. CASE UNCHANGED vars
  BY <1>16 DEF vars, TypeOK, Owner, OneOwner, Counted, Inside
<1> QED
  BY <1>1, <1>2, <1>3, <1>4, <1>5, <1>6, <1>7, <1>8, <1>9, <1>10, <1>11, <1>12,
     <1>13, <1>14, <1>15, <1>16 DEF Next, Step, Fault

\* The type invariant of the gate, with the ownership it needs.
THEOREM TypeCorrect == Spec => []TypeOK
<1>1. TInv => TypeOK
  BY DEF TInv
<1> QED  BY TInvInit, TInvStep, <1>1, PTL DEF Spec

\* The flock serializes: in every behaviour, whatever fails or dies, a process
\* between acquisition and release is the owner, so there is at most one.
THEOREM SingleOwner == Spec => []OneOwner
<1>1. TInv => OneOwner
  BY DEF TInv, Owner
<1> QED  BY TInvInit, TInvStep, <1>1, PTL DEF Spec

--------------------------------------------------------------------------------
(* What the database is owed *)

\* Until the cost of a statement is being written, its lease still covers what a
\* crash would leave owing.
Covered ==
  lock # None /\ Unpublished(lock) /\ ~torn => file + ran >= BaseLease(lock)

\* Only a batch pauses between statements, and a batch is a reporting request.
Batched ==
  lock # None /\ pc[lock] \in {"complete", "gap", "renew"}
    => req[lock].adaptive /\ req[lock].batch

\* The deadline in the file covers every cooldown and crash lease that still
\* runs.  While the file is being rewritten it is the owner that covers them: a
\* reporting owner past the cooldown found nothing owed, a metadata or point
\* lookup keeps the deadline it found.
Debt ==
  /\ ~torn => owed <= file /\ silence <= file
  /\ lock # None /\ req[lock].adaptive /\ pc[lock] # "cool"
       => owed = 0 /\ silence = 0
  /\ lock # None /\ ~req[lock].adaptive => owed <= kept /\ silence <= kept

PInv == TInv /\ Covered /\ Batched /\ Debt

\* Nothing is owed initially.
LEMMA PInvInit == Init => PInv
<1> SUFFICES ASSUME Init PROVE Covered /\ Batched /\ Debt
  BY TInvInit DEF PInv
<1> QED  BY DEF Init, Covered, Unpublished, Batched, Debt

\* Every lookup and every reporting statement is one or the other.
LEMMA KindOfRequest ==
  ASSUME TypeOK, NEW p \in Proc
  PROVE  req[p].adaptive \in BOOLEAN /\ (req[p].batch => req[p].adaptive)
BY DEF TypeOK, Request

\* Without torn writes, every step keeps the file covering what is owed.
LEMMA PInvStep ==
  ASSUME ~TornWrites
  PROVE  PInv /\ [Next]_vars => PInv'
<1> SUFFICES ASSUME PInv, [Next]_vars PROVE Covered' /\ Batched' /\ Debt'
  BY TInvStep DEF PInv
<1>0. TInv /\ TInv' /\ TypeOK /\ TypeOK' /\ None \notin Proc
  BY TInvStep, GateConstants DEF PInv, TInv
<1> USE <1>0
<1>a. ASSUME NEW p \in Proc, pc[p] \in Inside PROVE lock = p /\ p # None
  BY <1>a DEF TInv, Owner, OneOwner
<1> USE DEF Goto, ownerVars, ghostVars
<1>1. ASSUME NEW p \in Proc, Call(p) \/ LocalReady(p) \/ GiveUp(p)
      PROVE  Covered' /\ Batched' /\ Debt'
  <2>1. lock # p
    BY <1>1 DEF Call, LocalReady, GiveUp, TInv, Owner, Inside
  <2>2. lock # None => pc'[lock] = pc[lock] /\ req'[lock] = req[lock]
    BY <1>1, <2>1 DEF Call, LocalReady, GiveUp, TypeOK
  <2> QED
    BY <1>1, <2>2 DEF Call, LocalReady, GiveUp, PInv, Covered, Unpublished, Batched, Debt,
                      BaseLease
<1>2. ASSUME NEW p \in Proc, Acquire(p) PROVE Covered' /\ Batched' /\ Debt'
  <2>1. lock' = p /\ pc'[p] = "cool" /\ ~torn
    BY <1>2 DEF Acquire, TypeOK, TInv, Owner
  <2> QED
    BY <1>2, <2>1, KindOfRequest DEF Acquire, PInv, Covered, Unpublished, Batched, Debt
<1>3. ASSUME NEW p \in Proc, Defer(p) PROVE Covered' /\ Batched' /\ Debt'
  <2>1. lock = p /\ ~torn
    BY <1>3, <1>a DEF Defer, TInv, Owner, Inside
  <2> QED
    BY <1>3, <2>1 DEF Defer, Freed, PInv, Covered, Unpublished, Batched, Debt
<1>4. ASSUME NEW p \in Proc, Enter(p) PROVE Covered' /\ Batched' /\ Debt'
  <2>1. lock = p /\ p # None /\ ~torn /\ pc'[p] = "lease"
    BY <1>4, <1>a DEF Enter, TInv, Owner, Inside, TypeOK
  <2> QED
    BY <1>4, <2>1, KindOfRequest DEF Enter, PInv, Covered, Unpublished, Batched, Debt, TypeOK
<1>5. ASSUME NEW p \in Proc, GateError(p) PROVE Covered' /\ Batched' /\ Debt'
  <2>1. CASE lock = p
    BY <1>5, <2>1 DEF GateError, Fails, FreedBy, Freed, PInv, Covered, Unpublished, Batched,
                      Debt
  <2>2. CASE lock # p
    <3>1. lock # None => pc'[lock] = pc[lock]
      BY <1>5, <2>2 DEF GateError, Fails, TypeOK
    <3> QED
      BY <1>5, <2>2, <3>1 DEF GateError, Fails, FreedBy, PInv, Covered, Unpublished, Batched,
                              Debt, BaseLease
  <2> QED  BY <2>1, <2>2
<1>6. ASSUME NEW p \in Proc, Truncate(p) PROVE Covered' /\ Batched' /\ Debt'
  <2>1. lock = p
    BY <1>6, <1>a DEF Truncate, Inside
  <2> QED
    BY <1>6, <2>1 DEF Truncate, PInv, Covered, Unpublished, Batched, Debt
<1>7. ASSUME NEW p \in Proc, WriteLease(p) PROVE Covered' /\ Batched' /\ Debt'
  <2>1. lock = p /\ p # None /\ pc'[p] = "query"
    BY <1>7, <1>a DEF WriteLease, Inside, TypeOK
  <2>2. file' >= BaseLease(p) /\ file' >= kept /\ file' \in Nat
    BY <1>7, LeaseCovers, NumberFacts DEF WriteLease, Write, Greatest, TypeOK
  <2>3. BaseLease(p)' = BaseLease(p)
    BY <1>7 DEF WriteLease, BaseLease
  <2>4. Covered' /\ Batched'
    BY <1>7, <2>1, <2>2, <2>3, LeaseCovers DEF WriteLease, Covered, Unpublished, Batched
  <2>5. Debt'
    BY <1>7, <2>1, <2>2, KindOfRequest DEF WriteLease, PInv, Debt, TypeOK
  <2> QED  BY <2>4, <2>5
<1>8. ASSUME NEW p \in Proc, EndStatement(p) PROVE Covered' /\ Batched' /\ Debt'
  <2>1. lock = p /\ p # None /\ pc'[p] \in {"complete", "release"}
    BY <1>8, <1>a DEF EndStatement, Inside, TypeOK
  <2>2. pc'[p] = "complete" => req[p].adaptive /\ req[p].batch
    BY <1>8, KindOfRequest DEF EndStatement, TypeOK
  <2>3. UNCHANGED <<lock, file, ran, torn, req, kept, owed, silence>> /\ ~torn /\ pc[p] = "query"
    BY <1>8, <2>1 DEF EndStatement, TInv, Owner
  <2>4. Covered'
    BY <2>1, <2>3 DEF PInv, Covered, Unpublished, BaseLease
  <2>5. Batched' /\ Debt'
    BY <2>1, <2>2, <2>3 DEF PInv, Batched, Debt
  <2> QED  BY <2>4, <2>5
<1>9. ASSUME NEW p \in Proc, WriteComplete(p) PROVE Covered' /\ Batched' /\ Debt'
  <2>1. lock = p /\ p # None /\ pc'[p] \in {"gap", "release"}
    BY <1>9, <1>a DEF WriteComplete, Inside, TypeOK
  <2>2. req[p].adaptive /\ req[p].batch /\ owed = 0 /\ silence = 0
    BY <1>9, <2>1 DEF WriteComplete, PInv, Batched, Debt
  <2>3. lock' = p /\ req' = req /\ owed' = 0 /\ silence' = 0 /\ file' \in Nat
    BY <1>9, <2>1, <2>2 DEF WriteComplete, TypeOK
  <2>4. Batched' /\ Debt'
    BY <2>1, <2>2, <2>3 DEF Batched, Debt
  <2>5. Covered'
    BY <2>1, <2>2, <2>3 DEF Covered, Unpublished
  <2> QED  BY <2>4, <2>5
<1>10. ASSUME NEW p \in Proc, Resume(p) \/ Abort(p)
       PROVE  Covered' /\ Batched' /\ Debt'
  <2>1. lock = p /\ p # None /\ pc'[p] \in {"renew", "release"}
    BY <1>10, <1>a DEF Resume, Abort, Inside, TypeOK
  <2>2. req[p].adaptive /\ req[p].batch /\ owed = 0 /\ silence = 0
    BY <1>10, <2>1 DEF Resume, Abort, PInv, Batched, Debt
  <2>3. lock' = p /\ req' = req /\ owed' = 0 /\ silence' = 0 /\ file' \in Nat
    BY <1>10, <2>1, <2>2 DEF Resume, Abort, TypeOK
  <2>4. Batched' /\ Debt'
    BY <2>1, <2>2, <2>3 DEF Batched, Debt
  <2>5. Covered'
    BY <2>1, <2>2, <2>3 DEF Covered, Unpublished
  <2> QED  BY <2>4, <2>5
<1>11. ASSUME NEW p \in Proc, Release(p) PROVE Covered' /\ Batched' /\ Debt'
  <2>1. lock = p /\ p # None
    BY <1>11, <1>a DEF Release, Inside
  <2>2. owed <= Greatest(Cooldown(p), kept) /\ silence <= Greatest(Cooldown(p), kept)
    BY <1>11, <2>1, NumberFacts, KindOfRequest
       DEF Release, PInv, Debt, Greatest, TypeOK
  <2>3. owed' <= file' /\ silence' <= file'
    BY <1>11, <2>2, NumberFacts DEF Release, Write, Greatest, TypeOK
  <2>4. lock' = None
    BY <1>11 DEF Release, Unlock, Freed
  <2> QED  BY <2>3, <2>4 DEF Covered, Unpublished, Batched, Debt
<1>12. ASSUME NEW p \in Proc, ReleaseError(p) PROVE Covered' /\ Batched' /\ Debt'
  <2>1. lock' = None /\ ~torn
    BY <1>12 DEF ReleaseError, Unlock, Freed
  <2> QED
    BY <1>12, <2>1 DEF ReleaseError, PInv, Covered, Unpublished, Batched, Debt
<1>13. ASSUME NEW p \in Proc, Crash(p) PROVE Covered' /\ Batched' /\ Debt'
  <2>1. silence' = IF Unpublished(p)
                     THEN Greatest(silence, BaseLease(p) - ran) ELSE silence
    BY <1>13 DEF Crash, BaseLease
  <2>2. CASE lock = p
    <3>1. ~torn /\ lock' = None
      BY <1>13, <2>2 DEF Crash, FreedBy, Freed
    <3>2. silence' <= file
      BY <2>1, <2>2, <3>1, LeaseCovers DEF PInv, Covered, Unpublished, Debt, Greatest, TypeOK
    <3> QED
      BY <1>13, <3>1, <3>2 DEF Crash, PInv, Covered, Unpublished, Batched, Debt
  <2>3. CASE lock # p
    <3>1. ~Unpublished(p) /\ (lock # None => pc'[lock] = pc[lock])
      BY <1>13, <2>3, <1>a DEF Crash, Unpublished, Inside, TypeOK
    <3> QED
      BY <1>13, <2>1, <2>3, <3>1 DEF Crash, FreedBy, PInv, Covered, Unpublished, Batched, Debt,
                                     BaseLease
  <2> QED  BY <2>2, <2>3
<1>14. CASE Tick
  <2>1. Covered'
    <3>1. ASSUME lock # None, pc[lock] = "query"
          PROVE  file' + ran' >= BaseLease(lock)
      BY <1>14, <3>1, LeaseCovers
         DEF Tick, Working, Down, PInv, Covered, Unpublished, TypeOK
    <3> QED  BY <1>14, <3>1 DEF Tick, Covered, Unpublished, BaseLease
  <2>2. Batched' /\ Debt'
    BY <1>14 DEF Tick, Down, PInv, Batched, Debt, TypeOK
  <2> QED  BY <2>1, <2>2
<1>15. CASE UNCHANGED vars
  BY <1>15 DEF vars, PInv, Covered, Unpublished, Batched, Debt, BaseLease
<1> QED
  BY <1>1, <1>2, <1>3, <1>4, <1>5, <1>6, <1>7, <1>8, <1>9, <1>10, <1>11, <1>12,
     <1>13, <1>14, <1>15 DEF Next, Step, Fault

\* A reporting request that reaches the database finds nothing owed.
LEMMA NothingOwed ==
  ASSUME PInv, NEW p \in Proc, Starts(p)
  PROVE  owed = 0 /\ silence = 0
<1>1. lock = p /\ p # None
  BY GateConstants DEF PInv, TInv, Owner, OneOwner, Starts, Inside
<1> QED  BY <1>1 DEF PInv, Debt, Starts

\* As long as no write of the pacing file is torn, no interleaving of exporter
\* and CLI requests, lookups, errors and deaths lets a reporting request reach
\* the database before every measured cooldown is over.
THEOREM CooldownKept ==
  ASSUME ~TornWrites
  PROVE  Spec => CooldownHonoured
<1>1. PInv /\ [Next]_vars => [\A p \in Proc : Starts(p) => owed = 0]_vars
  BY NothingOwed
<1> QED  BY PInvInit, PInvStep, <1>1, PTL DEF Spec, CooldownHonoured

\* Under the same assumption the lease of a statement whose process died keeps
\* every other process and its successor away from the database.
THEOREM LeaseKept ==
  ASSUME ~TornWrites
  PROVE  Spec => CrashSilence
<1>1. PInv /\ [Next]_vars => [\A p \in Proc : Starts(p) => silence = 0]_vars
  BY NothingOwed
<1> QED  BY PInvInit, PInvStep, <1>1, PTL DEF Spec, CrashSilence

--------------------------------------------------------------------------------
(* What the gate promises the database *)

\* The meters of a request stand at zero until its first statement.
Fresh == lock = None \/ pc[lock] \in {"cool", "lease"} => used = 0 /\ ran = 0

RInv == PInv /\ Fresh

\* Every step keeps the meters of a new request at zero.
LEMMA FreshStep == TInv /\ Fresh /\ [Next]_vars => Fresh'
<1> SUFFICES ASSUME TInv, Fresh, [Next]_vars PROVE Fresh'
  OBVIOUS
<1>0. TypeOK /\ Owner /\ OneOwner /\ None \notin Proc
  BY GateConstants DEF TInv, Owner
<1> USE DEF Goto, ownerVars
<1>1. ASSUME NEW p \in Proc, Call(p) \/ LocalReady(p) \/ GiveUp(p) PROVE Fresh'
  <2>1. lock # p /\ lock' = lock /\ (lock # None => pc'[lock] = pc[lock]) /\ UNCHANGED <<used, ran>>
    BY <1>0, <1>1 DEF Call, LocalReady, GiveUp, TypeOK, Owner, Inside
  <2> QED  BY <2>1 DEF Fresh
<1>2. ASSUME NEW p \in Proc, Acquire(p) PROVE Fresh'
  BY <1>2 DEF Acquire, Fresh
<1>3. ASSUME NEW p \in Proc, Defer(p) \/ Release(p) \/ ReleaseError(p) PROVE Fresh'
  BY <1>3 DEF Defer, Release, ReleaseError, Unlock, Freed, Fresh
<1>4. ASSUME NEW p \in Proc, GateError(p) \/ Crash(p) PROVE Fresh'
  <2>1. FreedBy(p) /\ pc' = [pc EXCEPT ![p] = "idle"]
    BY <1>4 DEF GateError, Fails, Crash
  <2>2. CASE lock = p
    BY <2>1, <2>2 DEF FreedBy, Freed, Fresh
  <2>3. CASE lock # p
    <3>1. lock' = lock /\ UNCHANGED <<used, ran>> /\ (lock # None => pc'[lock] = pc[lock])
      BY <1>0, <2>1, <2>3 DEF FreedBy, TypeOK
    <3> QED  BY <3>1 DEF Fresh
  <2> QED  BY <2>2, <2>3
<1>5. ASSUME NEW p \in Proc, Enter(p) \/ Truncate(p) PROVE Fresh'
  <2>1. lock = p /\ lock' = lock /\ UNCHANGED <<used, ran>>
    BY <1>0, <1>5 DEF Enter, Truncate, OneOwner, Inside
  <2>2. pc[p] \in {"cool", "lease"} \/ pc'[p] = pc[p]
    BY <1>5 DEF Enter, Truncate
  <2> QED  BY <2>1, <2>2 DEF Fresh
<1>6. ASSUME NEW p \in Proc,
             WriteLease(p) \/ EndStatement(p) \/ WriteComplete(p) \/ Resume(p) \/ Abort(p)
      PROVE  Fresh'
  <2>1. lock = p /\ lock' = lock
    BY <1>0, <1>6 DEF WriteLease, EndStatement, WriteComplete, Resume, Abort, OneOwner, Inside
  <2>2. pc'[p] \in {"query", "complete", "release", "gap", "renew"}
    BY <1>0, <1>6 DEF WriteLease, EndStatement, WriteComplete, Resume, Abort, TypeOK
  <2> QED  BY <1>0, <2>1, <2>2 DEF Fresh
<1>7. CASE Tick
  <2>1. Working => ~(lock = None \/ pc[lock] \in {"cool", "lease"})
    BY DEF Working
  <2> QED  BY <1>7, <2>1 DEF Tick, Fresh
<1>8. CASE UNCHANGED vars
  BY <1>8 DEF vars, Fresh
<1> QED  BY <1>1, <1>2, <1>3, <1>4, <1>5, <1>6, <1>7, <1>8 DEF Next, Step, Fault

\* Serving and Running, read off the owner of the flock.
LEMMA OwnerServed ==
  ASSUME TInv
  PROVE  /\ InService = IF lock # None /\ pc[lock] \in Inside \ {"cool", "lease"} THEN {lock} ELSE {}
         /\ Running <=> lock # None /\ pc[lock] = "query"
<1>1. /\ \A p \in Proc : pc[p] \in Inside => lock = p
      /\ lock \in Proc \cup {None} /\ None \notin Proc
  BY GateConstants DEF TInv, TypeOK, Owner, OneOwner
<1> QED  BY <1>1 DEF InService, Running, Inside

\* What the abstract module charges is what the gate writes.
LEMMA SameCharge ==
  ASSUME TypeOK, NEW p \in Proc, NEW r, r.reporting = req[p].adaptive
  PROVE  Paced!Cost(r, used) = Cooldown(p) /\ Paced!Lease(r) = BaseLease(p)
<1>1. /\ Charge(req[p], used) \in Nat /\ Charge(req[p], MaxDuration) \in Nat
      /\ req[p].adaptive \in BOOLEAN
  BY ChargeFacts, KindOfRequest, GateConstants DEF TypeOK
<1> QED  BY <1>1, GateConstants DEF Paced!Cost, Paced!Lease, Paced!Longer, Cooldown, BaseLease,
            Charge, Greatest, Least

\* Outside of a statement or a release the gate moves and the database sees nothing.
LEMMA Unseen ==
  ASSUME RInv, NEW p \in Proc,
         \/ Call(p) \/ LocalReady(p) \/ GiveUp(p) \/ Acquire(p) \/ Defer(p) \/ Enter(p)
         \/ GateError(p) \/ Truncate(p) \/ (Crash(p) /\ pc[p] \notin Inside \ {"cool", "lease"})
  PROVE  UNCHANGED <<Serving, Running, ran, used, Rest>>
<1>0. TypeOK /\ Owner /\ OneOwner /\ None \notin Proc /\ Fresh
  BY GateConstants DEF RInv, PInv, TInv, Owner
<1> DEFINE Outside == {"idle", "local", "poll", "cool", "lease"}
<1>1. /\ \A q \in Proc \ {p} : pc'[q] = pc[q] /\ req'[q] = req[q]
      /\ \/ pc'[p] = pc[p] /\ req'[p] = req[p]
         \/ pc[p] \in Outside /\ pc'[p] \in Outside
  <2>1. CASE Call(p) \/ LocalReady(p) \/ GiveUp(p) \/ Acquire(p) \/ Defer(p) \/ Enter(p)
    BY <1>0, <2>1 DEF Call, LocalReady, GiveUp, Acquire, Defer, Enter, Goto, TypeOK
  <2>2. CASE GateError(p) \/ Truncate(p)
    BY <1>0, <2>2 DEF GateError, Fails, Truncate, Goto, TypeOK
  <2>3. CASE Crash(p) /\ pc[p] \notin Inside \ {"cool", "lease"}
    BY <1>0, <2>3 DEF Crash, Goto, TypeOK, Inside
  <2> QED  BY <2>1, <2>2, <2>3
<1>2. owed' = owed /\ silence' = silence
  <2>1. CASE Crash(p) /\ pc[p] \notin Inside \ {"cool", "lease"}
    BY <2>1 DEF Crash, Unpublished, Inside
  <2>2. CASE \/ Call(p) \/ LocalReady(p) \/ GiveUp(p) \/ Acquire(p) \/ Defer(p) \/ Enter(p)
             \/ GateError(p) \/ Truncate(p)
    BY <2>2 DEF Call, LocalReady, GiveUp, Acquire, Defer, Enter, GateError, Fails, Truncate,
                ghostVars
  <2> QED  BY <2>1, <2>2
<1>3. InService' = InService /\ (Running' <=> Running)
  BY <1>1 DEF InService, Running
<1>4. \A q \in InService : req'[q] = req[q]
  BY <1>1 DEF InService
<1>5. Serving' = Serving
  BY <1>3, <1>4 DEF Serving
<1>6. used' = used /\ ran' = ran
  <2>1. CASE Defer(p)
    <3>1. lock = p /\ pc[p] = "cool"
      BY <1>0, <2>1 DEF Defer, OneOwner, Inside
    <3> QED  BY <1>0, <2>1, <3>1 DEF Defer, Freed, Fresh
  <2>2. CASE GateError(p) \/ (Crash(p) /\ pc[p] \notin Inside \ {"cool", "lease"})
    <3>1. lock = p => pc[p] \in {"cool", "lease"}
      BY <1>0, <2>2 DEF GateError, Fails, Owner, Inside
    <3> QED  BY <1>0, <2>2, <3>1 DEF GateError, Crash, FreedBy, Freed, ownerVars, Fresh
  <2>3. CASE Call(p) \/ LocalReady(p) \/ GiveUp(p) \/ Acquire(p) \/ Enter(p) \/ Truncate(p)
    BY <2>3 DEF Call, LocalReady, GiveUp, Acquire, Enter, Truncate, ownerVars
  <2> QED  BY <2>1, <2>2, <2>3
<1>7. Running' = Running
  BY <1>3 DEF Running
<1> QED  BY <1>2, <1>5, <1>6, <1>7 DEF Rest

\* The steps that the database sees, by what they are for it.
LEMMA Seen ==
  ASSUME RInv, ~TornWrites, NEW p \in Proc,
         \/ WriteLease(p) \/ EndStatement(p) \/ WriteComplete(p) \/ Resume(p) \/ Abort(p)
         \/ Release(p) \/ ReleaseError(p) \/ (Crash(p) /\ pc[p] \in Inside \ {"cool", "lease"})
  PROVE  Paced!Next \/ UNCHANGED <<Serving, Running, ran, used, Rest>>
<1> DEFINE r == [proc |-> p, reporting |-> req[p].adaptive]
<1>0. /\ TInv /\ TypeOK /\ Owner /\ OneOwner /\ None \notin Proc /\ Fresh
      /\ lock = p /\ p # None /\ pc[p] \in Inside
  BY GateConstants DEF RInv, PInv, TInv, Owner, OneOwner, WriteLease, EndStatement, WriteComplete,
     Resume, Abort, Release, ReleaseError, Inside
<1>1. \A q \in Proc : pc'[q] \in Inside => lock' = q
  <2>1. TInv'
    BY <1>0, TInvStep DEF Next, Step, Fault
  <2> QED  BY <2>1 DEF TInv, Owner, OneOwner
<1>2. r \in Paced!Requests /\ r.reporting = req[p].adaptive
  BY <1>0, KindOfRequest DEF Paced!Requests
<1>3. /\ pc[p] \notin {"cool", "lease"} => Serving = {r}
      /\ pc[p] \in {"cool", "lease"} => Serving = {}
      /\ Running = (pc[p] = "query")
  <2>1. InService = IF pc[p] \in Inside \ {"cool", "lease"} THEN {p} ELSE {}
    BY <1>0, OwnerServed
  <2>2. Running = (pc[p] = "query")
    BY <1>0, OwnerServed DEF Running
  <2> QED  BY <1>0, <2>1, <2>2 DEF Serving
<1>4. req' = req
  BY DEF WriteLease, EndStatement, WriteComplete, Resume, Abort, Release, ReleaseError, Crash
<1>5. ASSUME lock' = p, pc'[p] \in Inside \ {"cool", "lease"}
      PROVE  Serving' = {r} /\ Running' = (pc'[p] = "query")
  <2>1. InService' = {p}
    BY <1>0, <1>1, <1>5 DEF InService, Inside
  <2>2. Running' = (pc'[p] = "query")
    BY <1>0, <1>1, <1>5 DEF Running, Inside
  <2> QED  BY <1>4, <2>1, <2>2 DEF Serving
<1>6. ASSUME Freed PROVE Serving' = {} /\ Running' = FALSE /\ used' = 0 /\ ran' = 0
  <2>1. InService' = {} /\ Running' = FALSE /\ used' = 0 /\ ran' = 0
    BY <1>0, <1>1, <1>6 DEF Freed, InService, Running, Inside
  <2> QED  BY <2>1 DEF Serving
<1>7. Paced!Cost(r, used) = Cooldown(p) /\ Paced!Lease(r) = BaseLease(p)
  BY <1>0, <1>2, SameCharge
<1> HIDE DEF r
<1>8. CASE WriteLease(p)
  <2>1. lock' = p /\ pc'[p] = "query" /\ ran' = 0 /\ used' = used /\ Rest' = Rest
    BY <1>0, <1>8 DEF WriteLease, Goto, TypeOK, ghostVars, Rest
  <2>2. Serving' = {r} /\ Running' = TRUE
    BY <1>5, <2>1 DEF Inside
  <2>3. CASE pc[p] = "lease"
    <3>1. used' = 0 /\ Serving = {}
      BY <1>0, <1>3, <2>1, <2>3 DEF Fresh
    <3>2. r.reporting => Rest = 0
      BY <1>0, <1>2, <2>3 DEF RInv, PInv, Debt, Rest, Greatest
    <3>3. Paced!Open(r)
      BY <2>1, <2>2, <3>1, <3>2 DEF Paced!Open
    <3> QED  BY <1>2, <3>3 DEF Paced!Next
  <2>4. CASE pc[p] = "renew"
    <3>1. r.reporting /\ Serving = {r} /\ Running = FALSE
      BY <1>0, <1>2, <1>3, <2>4 DEF RInv, PInv, Batched
    <3>2. Paced!NextStatement(r)
      BY <2>1, <2>2, <3>1 DEF Paced!NextStatement
    <3> QED  BY <3>1, <3>2 DEF Paced!Next, Paced!Serve
  <2> QED  BY <1>8, <2>3, <2>4 DEF WriteLease
<1>9. CASE EndStatement(p)
  <2>1. /\ pc[p] = "query" /\ lock' = p /\ pc'[p] \in {"complete", "release"}
        /\ ran' = ran /\ used' = used /\ Rest' = Rest
    BY <1>0, <1>9 DEF EndStatement, Goto, TypeOK, ownerVars, ghostVars, Rest
  <2>2. Serving = {r} /\ Running = TRUE /\ Serving' = {r} /\ Running' = FALSE
    BY <1>3, <1>5, <2>1 DEF Inside
  <2> QED  BY <2>1, <2>2 DEF Paced!EndStatement, Paced!Next
<1>10. CASE WriteComplete(p) \/ Resume(p) \/ Abort(p)
  <2>1. /\ pc[p] \in {"complete", "gap", "renew"} /\ pc'[p] \in {"gap", "renew", "release"}
        /\ lock' = p /\ ran' = ran /\ used' = used /\ Rest' = Rest
    BY <1>0, <1>10 DEF WriteComplete, Resume, Abort, Goto, TypeOK, ownerVars, ghostVars, Rest
  <2>2. Serving = {r} /\ Running = FALSE /\ Serving' = {r} /\ Running' = FALSE
    BY <1>3, <1>5, <2>1 DEF Inside
  <2> QED  BY <2>1, <2>2
<1>11. CASE Release(p)
  <2>1. pc[p] = "release" /\ Freed /\ owed' = Greatest(owed, Cooldown(p)) /\ silence' = silence
    BY <1>11 DEF Release, Unlock
  <2>2. Rest' = Paced!Longer(Rest, Paced!Cost(r, used))
    BY <1>0, <1>7, <2>1, NumberFacts DEF Rest, Greatest, Paced!Longer, TypeOK
  <2>3. Serving = {r} /\ Running = FALSE
    BY <1>3, <2>1
  <2>4. Paced!Close(r)
    BY <1>6, <2>1, <2>2, <2>3 DEF Paced!Close, Paced!Over
  <2> QED  BY <2>3, <2>4 DEF Paced!Next, Paced!Serve
<1>12. CASE ReleaseError(p)
  <2>1. pc[p] = "release" /\ Freed /\ Rest' = Rest
    BY <1>12 DEF ReleaseError, Unlock, ghostVars, Rest
  <2>2. Serving = {r} /\ Running = FALSE
    BY <1>3, <2>1
  <2>3. Paced!Fail
    BY <1>6, <2>1, <2>2 DEF Paced!Fail, Paced!Over
  <2> QED  BY <2>2, <2>3 DEF Paced!Next, Paced!Serve
<1>13. CASE Crash(p) /\ pc[p] \in Inside \ {"cool", "lease"}
  <2>1. /\ Freed /\ owed' = owed
        /\ silence' = IF Unpublished(p) THEN Greatest(silence, BaseLease(p) - ran) ELSE silence
    BY <1>0, <1>13 DEF Crash, FreedBy, BaseLease
  <2>2. Rest' = IF Unpublished(p) THEN Paced!Longer(Rest, Paced!Lease(r) - ran) ELSE Rest
    BY <1>0, <1>7, <2>1, LeaseCovers DEF Rest, Greatest, Paced!Longer, TypeOK
  <2>3. Serving = {r} /\ (Running => Unpublished(p))
    BY <1>3, <1>13 DEF Unpublished
  <2>4. Paced!Die(r)
    BY <1>6, <2>1, <2>2, <2>3 DEF Paced!Die, Paced!Over
  <2> QED  BY <2>3, <2>4 DEF Paced!Next, Paced!Serve
<1> QED  BY <1>8, <1>9, <1>10, <1>11, <1>12, <1>13

\* Time passes for the database as for the gate.
LEMMA TimePasses ==
  ASSUME RInv, Tick
  PROVE  Paced!Next
<1>0. TInv /\ TypeOK
  BY DEF RInv, PInv, TInv
<1>1. Running = Working
  BY <1>0, OwnerServed DEF Working, Running
<1>2. Serving' = Serving /\ Running' = Running
  BY DEF Tick, Serving, InService, Running
<1>3. Rest' = IF Rest > 0 THEN Rest - 1 ELSE 0
  BY <1>0 DEF Tick, Rest, Greatest, Down, TypeOK
<1> QED  BY <1>1, <1>2, <1>3 DEF Tick, Paced!Elapse, Paced!Next

\* As long as no write of the pacing file is torn the gate implements
\* PacedDatabase: flock, leases and cooldowns of any number of processes, which
\* may fail or die anywhere, are to the database one client that lets it rest.
THEOREM PacingRefined ==
  ASSUME ~TornWrites
  PROVE  Spec => ImplementsPaced
<1>1. Init => RInv /\ Paced!Init
  <2>1. Init => Fresh /\ Running = FALSE /\ Serving = {} /\ Rest = 0
    BY DEF Init, Fresh, Running, Serving, InService, Rest, Greatest
  <2> QED  BY <2>1, PInvInit DEF RInv, Paced!Init, Init
<1>2. RInv /\ [Next]_vars => RInv'
  BY PInvStep, FreshStep DEF RInv, PInv
<1>3. RInv /\ [Next]_vars => [Paced!Next]_(Paced!vars)
  <2> SUFFICES ASSUME RInv, [Next]_vars
               PROVE  Paced!Next \/ UNCHANGED <<Serving, Running, ran, used, Rest>>
    BY DEF Paced!vars
  <2>1. CASE UNCHANGED vars
    BY <2>1 DEF vars, ownerVars, ghostVars, Serving, InService, Running, Rest
  <2>2. CASE Tick
    BY <2>2, TimePasses
  <2>3. ASSUME NEW p \in Proc, Step(p) \/ Fault(p)
        PROVE  Paced!Next \/ UNCHANGED <<Serving, Running, ran, used, Rest>>
    BY <2>3, Seen, Unseen DEF Step, Fault
  <2> QED  BY <2>1, <2>2, <2>3 DEF Next
<1> QED  BY <1>1, <1>2, <1>3, PTL DEF Spec, ImplementsPaced, Paced!Spec
================================================================================
