---------------------------- MODULE AuthGuardProofs ----------------------------
(***************************************************************************)
(* The lockout bound of AuthGuard for every number of clients, threads and *)
(* probes, every threshold and backoff.                                    *)
(***************************************************************************)
EXTENDS AuthGuard, FunctionTheorems, FiniteSetTheorems, TLAPS

At(L) == {c \in Caller : pc[c] \in L}

May == At({"wait", "send"})       \* may still be rejected
Rec == At({"record"})             \* rejected and not yet recorded
Past == At({"wait", "send", "record"})

--------------------------------------------------------------------------------
(* Counting *)

\* What one more reset of the guard allows.
K == Threshold - 1 + Width
Allow(r) == r * K

\* The width and the allowance are natural numbers, and the allowance is linear.
LEMMA AllowFacts ==
  /\ Width \in Nat /\ Cardinality(Client) \in Nat /\ Cardinality(Probe) \in Nat
  /\ IsFiniteSet(Probe)
  /\ K \in Nat /\ Width <= K /\ K = Threshold - 1 + Width
  /\ Allow(0) = 0
  /\ \A r \in Nat : Allow(r) \in Nat /\ Allow(r + 1) = Allow(r) + K
<1>1. IsFiniteSet(Probe)
  BY GuardConstants, FS_Subset
<1>2. Cardinality(Client) \in Nat /\ Cardinality(Probe) \in Nat
  BY <1>1, GuardConstants, FS_CardinalityType
<1>3. Width \in Nat
  BY <1>2 DEF Width
<1>4. K \in Nat /\ Width <= K
  BY <1>3, GuardConstants DEF K
<1>5. ASSUME NEW k \in Nat, NEW r \in Nat
      PROVE  r * k \in Nat /\ (r + 1) * k = r * k + k /\ 0 * k = 0
  OBVIOUS
<1> QED  BY <1>1, <1>2, <1>3, <1>4, <1>5 DEF Allow, K

\* Sets of callers are finite, and bounded by those that contain them.
LEMMA AtFacts ==
  ASSUME NEW L
  PROVE  IsFiniteSet(At(L)) /\ Cardinality(At(L)) \in Nat
<1>1. At(L) \in SUBSET Caller
  BY DEF At
<1>2. IsFiniteSet(At(L))
  BY <1>1, GuardConstants, FS_Subset
<1> QED  BY <1>2, FS_CardinalityType

\* A caller is past the check in one of two ways.
LEMMA PastFacts ==
  /\ Cardinality(May) \in Nat /\ Cardinality(Rec) \in Nat
  /\ Cardinality(Past) \in Nat
  /\ Cardinality(May) + Cardinality(Rec) = Cardinality(Past)
<1>1. /\ IsFiniteSet(May) /\ IsFiniteSet(Rec)
      /\ Cardinality(May) \in Nat /\ Cardinality(Rec) \in Nat
      /\ Cardinality(Past) \in Nat
  BY AtFacts DEF May, Rec, Past
<1>2. May \cup Rec = Past /\ May \cap Rec = {}
  BY DEF May, Rec, Past, At
<1>3. Cardinality(May \cup Rec)
        = Cardinality(May) + Cardinality(Rec) - Cardinality(May \cap Rec)
  BY <1>1, FS_Union
<1>4. Cardinality({}) = 0
  BY FS_EmptySet
<1> QED  BY <1>1, <1>2, <1>3, <1>4

\* The effect of one caller's move on such a set.
LEMMA MoveCounts ==
  ASSUME TypeOK, NEW c \in Caller, NEW l, Goto(c, l), NEW L
  PROVE  Cardinality(At(L)') =
           Cardinality(At(L)) + (IF l \in L THEN 1 ELSE 0)
                              - (IF pc[c] \in L THEN 1 ELSE 0)
<1>1. /\ pc'[c] = l
      /\ \A x \in Caller : x # c => pc'[x] = pc[x]
  BY DEF Goto, TypeOK
<1>2. IsFiniteSet(At(L)) /\ Cardinality(At(L)) \in Nat
  BY AtFacts
<1>3. c \in At(L) <=> pc[c] \in L
  BY DEF At
<1>4. CASE l \in L
  <2>1. At(L)' = At(L) \cup {c}
    BY <1>1, <1>4 DEF At
  <2>2. Cardinality(At(L) \cup {c}) =
          IF c \in At(L) THEN Cardinality(At(L)) ELSE Cardinality(At(L)) + 1
    BY <1>2, FS_AddElement
  <2> QED  BY <1>2, <1>3, <1>4, <2>1, <2>2
<1>5. CASE l \notin L
  <2>1. At(L)' = At(L) \ {c}
    BY <1>1, <1>5 DEF At
  <2>2. Cardinality(At(L) \ {c}) =
          IF c \in At(L) THEN Cardinality(At(L)) - 1 ELSE Cardinality(At(L))
    BY <1>2, FS_RemoveElement
  <2> QED  BY <1>2, <1>3, <1>5, <2>1, <2>2
<1> QED  BY <1>4, <1>5

--------------------------------------------------------------------------------
(* The inductive invariant *)

\* The file is truncated only by a caller that is updating it, and a request past
\* its start holds its client's transport lock until it is answered or recorded.
Locked ==
  /\ flock # None => pc[flock] \in Recording
  /\ \A c \in Caller \ Probe :
       pc[c] \in {"check", "wait", "send", "record"} => Holds(c)

\* While the guard blocks, what was rejected and what may still be is paid for;
\* while it does not, the rejections are recorded, about to be, or lost, and those
\* recorded since it was last cleared stay below the threshold.
Budget ==
  /\ deadline > 0 =>
       rejected + Cardinality(May) <= Allow(resets + 1) + lost
  /\ deadline = 0 =>
       /\ rejected <= Allow(resets) + recorded + Cardinality(Rec) + lost
       /\ recorded <= Threshold - 1 /\ recorded <= failures

IInv == TypeOK /\ Locked /\ Budget

\* The transport locks leave at most one request of each client past the check.
LEMMA WidthBound == TypeOK /\ Locked => Cardinality(Past) <= Width
<1> SUFFICES ASSUME TypeOK, Locked PROVE Cardinality(Past) <= Width
  OBVIOUS
<1> DEFINE R == Past \ Probe
           P == Past \cap Probe
           f == [c \in R |-> ClientOf[c]]
<1>1. \A c \in R : c \in Caller /\ ClientOf[c] \in Client /\ transport[ClientOf[c]] = c
  BY GuardConstants DEF Locked, Holds, Past, At
<1>2. f \in Injection(R, Client)
  <2>1. f \in [R -> Client]
    BY <1>1
  <2>2. \A a, b \in R : f[a] = f[b] => a = b
    BY <1>1
  <2> QED  BY <2>1, <2>2 DEF Injection, IsInjective
<1>3. IsFiniteSet(R) /\ Cardinality(R) <= Cardinality(Client)
  BY <1>2, GuardConstants, FS_Injection
<1>4. IsFiniteSet(P) /\ Cardinality(P) <= Cardinality(Probe)
  <2>1. P \in SUBSET Probe
    OBVIOUS
  <2> QED  BY <2>1, AllowFacts, FS_Subset
<1>5. Cardinality(R) \in Nat /\ Cardinality(P) \in Nat
  BY <1>3, <1>4, FS_CardinalityType
<1>6. Past = R \cup P /\ R \cap P = {}
  OBVIOUS
<1>7. Cardinality(R \cup P) = Cardinality(R) + Cardinality(P) - Cardinality(R \cap P)
  BY <1>3, <1>4, FS_Union
<1>e. Cardinality({}) = 0
  BY FS_EmptySet
<1>f. Cardinality(Past) = Cardinality(R \cup P) /\ Cardinality(R \cap P) = 0
  BY <1>6, <1>e, Zenon
<1> HIDE DEF R, P
<1>8. Cardinality(Past) = Cardinality(R) + Cardinality(P)
  BY <1>5, <1>7, <1>f
<1> QED  BY <1>3, <1>4, <1>5, <1>8, AllowFacts DEF Width

\* The invariant implies the bound.
LEMMA BudgetBounds ==
  ASSUME IInv
  PROVE  LockoutBound
<1>1. /\ rejected \in Nat /\ recorded \in Nat /\ resets \in Nat /\ lost \in Nat
      /\ deadline \in Nat /\ Threshold \in Nat
  BY GuardConstants DEF IInv, TypeOK
<1>2. /\ Cardinality(May) \in Nat /\ Cardinality(Rec) \in Nat
      /\ Cardinality(Rec) <= Width
  BY PastFacts, WidthBound, AllowFacts DEF IInv
<1>3. /\ Allow(resets) \in Nat /\ Allow(resets + 1) = Allow(resets) + K
      /\ K \in Nat /\ K = Threshold - 1 + Width /\ Width \in Nat
  BY <1>1, AllowFacts
<1>4. rejected <= Allow(resets + 1) + lost
  BY <1>1, <1>2, <1>3 DEF IInv, Budget
<1> QED  BY <1>4 DEF LockoutBound, Allow, K

--------------------------------------------------------------------------------
(* Every step preserves it *)

\* Nobody is past the check and nothing is recorded initially.
LEMMA InvInit == Init => IInv
<1> SUFFICES ASSUME Init PROVE IInv
  OBVIOUS
<1>1. TypeOK
  BY GuardConstants DEF Init, TypeOK
<1>2. Locked
  BY DEF Init, Locked
<1>3. Cardinality(Rec) \in Nat
  BY PastFacts
<1>4. Budget
  BY <1>3, AllowFacts, GuardConstants DEF Init, Budget
<1> QED  BY <1>1, <1>2, <1>4 DEF IInv

\* Every step keeps the state well typed.
LEMMA TypeStep == TypeOK /\ [Next]_vars => TypeOK'
<1> SUFFICES ASSUME TypeOK, [Next]_vars PROVE TypeOK'
  OBVIOUS
<1> USE GuardConstants DEF TypeOK, guard, ghosts, Recording
<1>1. ASSUME NEW c \in Caller
      PROVE  /\ ClientOf[c] \in Client
             /\ Take(c) => transport' \in [Client -> Caller \cup {None}]
             /\ Give(c) => transport' \in [Client -> Caller \cup {None}]
  BY DEF Take, Give
<1>2. Cleared => /\ failures' \in 0..Threshold /\ deadline' \in 0..Backoff
                 /\ recorded' \in Nat /\ resets' \in Nat
  BY DEF Cleared
<1>3. ASSUME NEW c \in Caller, Step(c) \/ Begin(c) \/ Lose(c) PROVE TypeOK'
  <2>0. Unseen(c) => rejected' \in Nat /\ lost' \in 0..MaxLosses
    BY DEF Unseen
  <2>1. CASE Begin(c)
    BY <1>1, <2>1 DEF Begin, Goto
  <2>2. CASE Refused(c)
    BY <1>1, <2>2 DEF Refused, Goto
  <2>3. CASE Admitted(c)
    BY <2>3 DEF Admitted, Goto
  <2>4. CASE Send(c)
    BY <1>1, <2>4 DEF Send, Goto
  <2>5. CASE Rejected(c)
    BY <1>1, <2>5 DEF Rejected, Goto
  <2>6. CASE Accepted(c)
    BY <1>1, <2>6 DEF Accepted, Goto
  <2>7. CASE Unanswered(c)
    BY <1>1, <2>0, <2>7 DEF Unanswered, Goto
  <2>8. CASE Update(c)
    BY <2>8 DEF Update, Goto
  <2>9. CASE WriteFailure(c)
    BY <1>1, <2>9 DEF WriteFailure, NewDeadline, Least, Done, Goto
  <2>10. CASE WriteSuccess(c)
    BY <1>1, <1>2, <2>10 DEF WriteSuccess, Done, Goto
  <2>11. CASE Lose(c)
    <3>1. rejected' \in Nat /\ lost' \in 0..MaxLosses
      BY <2>0, <2>11 DEF Lose
    <3>2. /\ failures' \in 0..Threshold /\ deadline' \in 0..Backoff
          /\ recorded' \in Nat /\ resets' \in Nat
          /\ flock' \in Caller \cup {None}
      BY <1>2, <2>11 DEF Lose
    <3>3. /\ transport' \in [Client -> Caller \cup {None}]
          /\ pc' \in [Caller -> {"idle", "check", "wait", "send"} \cup Recording]
      BY <1>1, <2>11 DEF Lose, Goto
    <3> QED  BY <2>11, <3>1, <3>2, <3>3 DEF Lose
  <2> QED  BY <1>3, <2>1, <2>2, <2>3, <2>4, <2>5, <2>6, <2>7, <2>8, <2>9, <2>10,
              <2>11 DEF Step
<1>4. CASE ChangePassword
  BY <1>4 DEF ChangePassword
<1>5. CASE Tick
  BY <1>5 DEF Tick
<1>6. CASE UNCHANGED vars
  BY <1>6 DEF vars
<1> QED  BY <1>3, <1>4, <1>5, <1>6 DEF Next

\* The state is always well typed; in particular the backoff never exceeds its
\* configured length.
THEOREM TypeCorrect == Spec => []TypeOK
<1>1. Init => TypeOK
  BY InvInit DEF IInv
<1> QED  BY <1>1, TypeStep, PTL DEF Spec

\* Every step keeps the locks where they belong.
LEMMA LockStep == TypeOK /\ Locked /\ [Next]_vars => Locked'
<1> SUFFICES ASSUME TypeOK, Locked, [Next]_vars PROVE Locked'
  OBVIOUS
<1> USE GuardConstants DEF Locked, guard, ghosts, Recording
<1>1. ASSUME NEW c \in Caller, Step(c) \/ Begin(c) \/ Lose(c) PROVE Locked'
  <2>0. ASSUME NEW l, Goto(c, l)
        PROVE  pc'[c] = l /\ \A x \in Caller : x # c => pc'[x] = pc[x]
    BY <2>0 DEF Goto, TypeOK
  <2>a. ASSUME Take(c) \/ Give(c)
        PROVE  \A x \in Caller : x # c /\ Holds(x) => Holds(x)'
    BY <2>a DEF Take, Give, Holds, TypeOK
  <2>b. Take(c) => Holds(c)'
    BY DEF Take, Holds, TypeOK
  <2>c. UNCHANGED transport => \A x \in Caller : Holds(x) => Holds(x)'
    BY DEF Holds
  <2>d. flock # None => flock \in Caller
    BY DEF TypeOK
  <2>e. ASSUME NEW l, Goto(c, l), Take(c) \/ Give(c) \/ UNCHANGED transport,
               \/ flock' = None
               \/ flock' = flock /\ (flock = c => l \in Recording),
               \/ c \in Probe \/ l \notin {"check", "wait", "send", "record"}
               \/ Holds(c)'
        PROVE  Locked'
    BY <2>0, <2>a, <2>c, <2>d, <2>e
  <2>1. CASE Begin(c)
    <3>1. flock # c
      BY <2>1 DEF Begin
    <3> QED  BY <2>1, <2>b, <2>e, <3>1 DEF Begin
  <2>2. CASE Refused(c)
    BY <2>2, <2>e DEF Refused
  <2>3. CASE Admitted(c)
    <3>1. c \in Probe \/ Holds(c)'
      BY <2>3, <2>c DEF Admitted
    <3> DEFINE l == IF Holds(c) THEN "send" ELSE "wait"
    <3>2. Goto(c, l) /\ UNCHANGED <<transport, flock>> /\ flock # c
      BY <2>3 DEF Admitted
    <3> HIDE DEF l
    <3> QED  BY <2>e, <3>1, <3>2
  <2>4. CASE Send(c)
    <3>1. flock # c
      BY <2>4 DEF Send
    <3> QED  BY <2>4, <2>b, <2>e, <3>1 DEF Send
  <2>5. CASE Rejected(c)
    <3>1. flock # c
      BY <2>5 DEF Rejected
    <3>2. c \in Probe \/ Holds(c)'
      BY <2>5, <2>c DEF Rejected
    <3> QED  BY <2>5, <2>e, <3>1, <3>2 DEF Rejected
  <2>6. CASE Accepted(c)
    BY <2>6, <2>e DEF Accepted
  <2>7. CASE Unanswered(c)
    <3>1. flock # c
      BY <2>7 DEF Unanswered
    <3> QED  BY <2>7, <2>e, <3>1 DEF Unanswered
  <2>8. CASE Update(c)
    BY <2>0, <2>8 DEF Update, Holds, Unchanged
  <2>9. CASE WriteFailure(c)
    BY <2>9, <2>e DEF WriteFailure, Done
  <2>10. CASE WriteSuccess(c)
    BY <2>10, <2>e DEF WriteSuccess, Done
  <2>11. CASE Lose(c)
    <3>1. \/ flock' = None
          \/ flock' = flock /\ flock # c
      BY <2>11, Zenon DEF Lose
    <3>2. Give(c) /\ Goto(c, "idle")
      BY <2>11 DEF Lose
    <3> QED  BY <2>e, <3>1, <3>2
  <2> QED  BY <1>1, <2>1, <2>2, <2>3, <2>4, <2>5, <2>6, <2>7, <2>8, <2>9, <2>10,
              <2>11 DEF Step
<1>2. CASE ChangePassword
  BY <1>2 DEF ChangePassword, Holds
<1>3. CASE Tick
  BY <1>3 DEF Tick, Holds
<1>4. CASE UNCHANGED vars
  BY <1>4 DEF vars, Holds
<1> QED  BY <1>1, <1>2, <1>3, <1>4 DEF Next

\* The counts after caller c has moved to l.
LEMMA Moved ==
  ASSUME TypeOK, NEW c \in Caller, NEW l, Goto(c, l)
  PROVE  /\ Cardinality(May') = Cardinality(May)
              + (IF l \in {"wait", "send"} THEN 1 ELSE 0)
              - (IF pc[c] \in {"wait", "send"} THEN 1 ELSE 0)
         /\ Cardinality(Rec') = Cardinality(Rec)
              + (IF l = "record" THEN 1 ELSE 0)
              - (IF pc[c] = "record" THEN 1 ELSE 0)
<1>1. Cardinality(At({"wait", "send"})') = Cardinality(At({"wait", "send"}))
        + (IF l \in {"wait", "send"} THEN 1 ELSE 0)
        - (IF pc[c] \in {"wait", "send"} THEN 1 ELSE 0)
  BY MoveCounts
<1>2. Cardinality(At({"record"})') = Cardinality(At({"record"}))
        + (IF l \in {"record"} THEN 1 ELSE 0)
        - (IF pc[c] \in {"record"} THEN 1 ELSE 0)
  BY MoveCounts
<1>3. (l \in {"record"} <=> l = "record") /\ (pc[c] \in {"record"} <=> pc[c] = "record")
  OBVIOUS
<1> QED  BY <1>1, <1>2, <1>3 DEF May, Rec

\* Every step stays within the budget.
LEMMA BudgetStep == IInv /\ [Next]_vars => Budget'
<1> SUFFICES ASSUME IInv, [Next]_vars PROVE Budget'
  OBVIOUS
<1> DEFINE m == Cardinality(May)
           r == Cardinality(Rec)
           a == Allow(resets)
<1>0. TypeOK /\ Locked /\ Budget
  BY DEF IInv
<1>1. /\ rejected \in Nat /\ recorded \in Nat /\ resets \in Nat /\ lost \in Nat
      /\ failures \in Nat /\ deadline \in Nat
      /\ Threshold \in Nat /\ Threshold > 0 /\ Backoff \in Nat /\ Backoff > 0
  BY <1>0, GuardConstants DEF TypeOK
<1>2. /\ m \in Nat /\ r \in Nat /\ m + r <= Width
  BY <1>0, PastFacts, WidthBound
<1>3. /\ a \in Nat /\ Allow(resets + 1) = a + K /\ Allow(0) = 0 /\ Allow(0 + 1) = K
      /\ K \in Nat /\ K = Threshold - 1 + Width /\ Width \in Nat
  BY <1>1, AllowFacts
<1>4. /\ deadline > 0 => rejected + m <= a + K + lost
      /\ deadline = 0 => /\ rejected <= a + recorded + r + lost
                         /\ recorded <= Threshold - 1 /\ recorded <= failures
  BY <1>0, <1>3 DEF Budget
<1>5. /\ Cardinality(May') \in Nat /\ Cardinality(Rec') \in Nat
      /\ Cardinality(May') <= Width /\ failures' \in Nat /\ deadline' \in Nat
  <2>1. TypeOK' /\ Locked'
    BY <1>0, TypeStep, LockStep
  <2>2. (TypeOK /\ Locked => Cardinality(Past) <= Width)'
    BY WidthBound, PTL
  <2>3. (/\ Cardinality(May) \in Nat /\ Cardinality(Rec) \in Nat
         /\ Cardinality(Past) \in Nat
         /\ Cardinality(May) + Cardinality(Rec) = Cardinality(Past))'
    BY PastFacts, PTL
  <2>4. failures' \in Nat /\ deadline' \in Nat
    BY <2>1, GuardConstants DEF TypeOK
  <2> QED  BY <1>3, <2>1, <2>2, <2>3, <2>4
<1>6. ASSUME NEW x \in Nat, x = resets', rejected' \in Nat, lost' \in Nat,
             deadline' > 0 => rejected' + Cardinality(May') <= Allow(x) + K + lost',
             deadline' = 0 =>
               /\ rejected' <= Allow(x) + recorded' + Cardinality(Rec') + lost'
               /\ recorded' <= Threshold - 1 /\ recorded' <= failures'
      PROVE  Budget'
  <2>1. Allow(x + 1) = Allow(x) + K
    BY AllowFacts
  <2>2. Allow(resets)' = Allow(x) /\ Allow(resets + 1)' = Allow(x + 1)
    BY <1>6 DEF Allow
  <2> QED  BY <1>6, <2>1, <2>2 DEF Budget
\* Nothing is counted any more.
<1>7. ASSUME rejected' = 0, recorded' = 0, resets' = 0, lost' = 0 PROVE Budget'
  BY <1>1, <1>3, <1>5, <1>6, <1>7
\* The guard is cleared: what was rejected is paid for by one more reset.
<1>8. ASSUME Cleared, rejected' = rejected, lost' \in Nat, lost' >= lost PROVE Budget'
  <2>1. rejected <= a + K + lost
    BY <1>1, <1>2, <1>3, <1>4
  <2>2. deadline' = 0 /\ recorded' = 0
    BY <1>8 DEF Cleared
  <2>3. CASE rejected > 0
    <3>1. resets' = resets + 1 /\ resets + 1 \in Nat
      BY <1>1, <1>8, <2>3 DEF Cleared
    <3> QED  BY <1>1, <1>3, <1>5, <1>6, <1>8, <2>1, <2>2, <3>1
  <2>4. CASE rejected = 0
    <3>1. resets' = resets
      BY <1>8, <2>4 DEF Cleared
    <3> QED  BY <1>1, <1>3, <1>5, <1>6, <1>8, <2>2, <2>4, <3>1
  <2> QED  BY <1>1, <2>3, <2>4
<1>9. ASSUME NEW c \in Caller, Step(c) \/ Begin(c) \/ Lose(c) PROVE Budget'
  <2>0. ASSUME NEW l, Goto(c, l)
        PROVE  /\ Cardinality(May') = m + (IF l \in {"wait", "send"} THEN 1 ELSE 0)
                                        - (IF pc[c] \in {"wait", "send"} THEN 1 ELSE 0)
               /\ Cardinality(Rec') = r + (IF l = "record" THEN 1 ELSE 0)
                                        - (IF pc[c] = "record" THEN 1 ELSE 0)
    BY <1>0, <2>0, Moved
  \* A move that changes nothing but the place of the caller.
  <2>a. ASSUME NEW l, Goto(c, l), UNCHANGED <<guard, ghosts>>,
               pc[c] # "record", l # "record",
               l \in {"wait", "send"} => pc[c] \in {"wait", "send"} \/ deadline = 0
        PROVE  Budget'
    <3>1. /\ UNCHANGED <<deadline, failures, rejected, recorded, resets, lost>>
      BY <2>a DEF guard, ghosts
    <3>2. Cardinality(Rec') = r /\ (deadline > 0 => Cardinality(May') <= m)
      BY <1>1, <1>2, <2>0, <2>a
    <3> QED  BY <1>1, <1>2, <1>3, <1>4, <1>5, <1>6, <3>1, <3>2
  <2>1. CASE Begin(c)
    BY <2>1, <2>a DEF Begin
  <2>2. CASE Refused(c)
    BY <2>2, <2>a DEF Refused
  <2>3. CASE Admitted(c)
    BY <2>3, <2>a DEF Admitted
  <2>4. CASE Send(c)
    BY <2>4, <2>a DEF Send
  <2>5. CASE Rejected(c)
    <3>1. /\ rejected' = rejected + 1 /\ pc[c] = "send" /\ Goto(c, "record")
          /\ UNCHANGED <<deadline, failures, recorded, resets, lost>>
      BY <2>5 DEF Rejected, guard
    <3>2. Cardinality(May') = m - 1 /\ Cardinality(Rec') = r + 1
      BY <1>2, <2>0, <3>1
    <3> QED  BY <1>1, <1>2, <1>3, <1>4, <1>5, <1>6, <3>1, <3>2
  <2>6. CASE Accepted(c)
    BY <1>7, <2>6 DEF Accepted
  <2>7. CASE Unanswered(c)
    <3>1. PICK more \in {0, 1} : rejected' = rejected + more /\ lost' = lost + more
      BY <2>7 DEF Unanswered, Unseen
    <3>2. /\ pc[c] = "send" /\ Goto(c, "idle")
          /\ UNCHANGED <<deadline, failures, recorded, resets>>
      BY <2>7 DEF Unanswered, guard
    <3>3. Cardinality(May') = m - 1 /\ Cardinality(Rec') = r
      BY <1>2, <2>0, <3>2
    <3> QED  BY <1>1, <1>2, <1>3, <1>4, <1>5, <1>6, <3>1, <3>2, <3>3
  <2>8. CASE Update(c)
    <3>1. UNCHANGED <<deadline, failures, rejected, recorded, resets, lost>>
      BY <2>8 DEF Update, ghosts
    <3>2. Cardinality(May') = m /\ Cardinality(Rec') = r
      <4>1. CASE Unchanged(c)
        BY <1>2, <2>0, <2>8, <4>1 DEF Update, Unchanged
      <4>2. CASE ~Unchanged(c)
        BY <2>8, <4>2 DEF Update, May, Rec, At
      <4> QED  BY <4>1, <4>2
    <3> QED  BY <1>1, <1>2, <1>3, <1>4, <1>5, <1>6, <3>1, <3>2
  <2>9. CASE WriteFailure(c)
    <3>1. /\ failures' = Least(Threshold, failures + 1)
          /\ deadline' = NewDeadline
          /\ recorded' = recorded + 1
          /\ UNCHANGED <<rejected, resets, lost>>
          /\ pc[c] = "record" /\ Goto(c, "idle")
      BY <2>9 DEF WriteFailure, Done
    <3>2. Cardinality(May') = m /\ Cardinality(Rec') = r - 1
      BY <1>2, <2>0, <3>1
    <3>3. CASE failures + 1 >= Threshold
      <4>1. deadline' = Backoff
        BY <3>1, <3>3 DEF NewDeadline
      <4> QED  BY <1>1, <1>2, <1>3, <1>4, <1>5, <1>6, <3>1, <3>2, <4>1
    <3>4. CASE failures + 1 < Threshold
      <4>1. deadline' = deadline /\ failures' = failures + 1
        BY <1>1, <3>1, <3>4 DEF NewDeadline, Least
      <4> QED  BY <1>1, <1>2, <1>3, <1>4, <1>5, <1>6, <3>1, <3>2, <3>4, <4>1
    <3> QED  BY <1>1, <3>3, <3>4
  <2>10. CASE WriteSuccess(c)
    BY <1>1, <1>8, <2>10 DEF WriteSuccess
  <2>11. CASE Lose(c)
    <3>1. PICK more \in {0, 1} :
            /\ rejected' = rejected + more
            /\ lost' = lost + (IF pc[c] = "record" THEN 1 ELSE more)
            /\ more = 1 => pc[c] = "send"
      <4>1. CASE pc[c] = "record"
        BY <1>1, <2>11, <4>1 DEF Lose
      <4>2. CASE pc[c] # "record"
        BY <1>1, <2>11, <4>2 DEF Lose, Unseen
      <4> QED  BY <4>1, <4>2
    <3>2. CASE flock = c
      <4>1. pc[c] \in Recording /\ c # None
        BY <1>0, <3>2, GuardConstants DEF Locked
      <4>2. more = 0
        BY <3>1, <4>1 DEF Recording
      <4>3. Cleared
        BY <2>11, <3>2 DEF Lose
      <4> QED  BY <1>1, <1>8, <3>1, <4>2, <4>3
    <3>3. CASE flock # c
      <4>1. Goto(c, "idle") /\ UNCHANGED <<deadline, failures, recorded, resets>>
        BY <2>11, <3>3 DEF Lose, guard
      <4>2. /\ Cardinality(May') = m - (IF pc[c] \in {"wait", "send"} THEN 1 ELSE 0)
            /\ Cardinality(Rec') = r - (IF pc[c] = "record" THEN 1 ELSE 0)
        BY <1>2, <2>0, <4>1
      <4> QED  BY <1>1, <1>2, <1>3, <1>4, <1>5, <1>6, <3>1, <4>1, <4>2
    <3> QED  BY <3>2, <3>3
  <2> QED  BY <1>9, <2>1, <2>2, <2>3, <2>4, <2>5, <2>6, <2>7, <2>8, <2>9, <2>10,
              <2>11 DEF Step
<1>10. ASSUME UNCHANGED <<pc, failures, rejected, recorded, resets, lost>>,
              deadline' > 0 <=> deadline > 0
       PROVE  Budget'
  <2>1. Cardinality(May') = m /\ Cardinality(Rec') = r
    BY <1>10 DEF May, Rec, At
  <2> QED  BY <1>1, <1>2, <1>3, <1>4, <1>5, <1>6, <1>10, <2>1
<1>11. CASE ChangePassword
  BY <1>10, <1>11 DEF ChangePassword, guard, ghosts
<1>12. CASE Tick
  <2>1. CASE deadline = 1
    BY <1>7, <1>12, <2>1 DEF Tick
  <2>2. CASE deadline # 1
    BY <1>1, <1>10, <1>12, <2>2 DEF Tick, ghosts
  <2> QED  BY <2>1, <2>2
<1>13. CASE UNCHANGED vars
  BY <1>10, <1>13 DEF vars, guard, ghosts
<1> QED  BY <1>9, <1>11, <1>12, <1>13 DEF Next

\* The inductive invariant holds in every reachable state.
LEMMA Invariance == Spec => []IInv
<1>1. IInv /\ [Next]_vars => IInv'
  BY TypeStep, LockStep, BudgetStep DEF IInv
<1> QED  BY InvInit, <1>1, PTL DEF Spec

\* However many threads and processes share the guard, the server rejects no more
\* logins before the backoff than the threshold and the width of the check allow.
THEOREM LockoutBounded == Spec => []LockoutBound
<1>1. IInv => LockoutBound
  BY BudgetBounds
<1> QED  BY <1>1, Invariance, PTL
================================================================================
