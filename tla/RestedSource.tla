------------------------------ MODULE RestedSource ------------------------------
(***************************************************************************)
(* What the Data Connect lane promises the source it reports from, however *)
(* its threads, its queue and its restarts are arranged.  One attempt is   *)
(* made at a time.  It is an inspection, or a report that the contract of  *)
(* the last inspection allows, and only an inspection changes the          *)
(* contract.  An attempt begins when its dataset is owed no rest, and      *)
(* earns it one: the full cadence after a success or when failures have    *)
(* become persistent, the retry floor before that.  No rest is ever        *)
(* shortened, and after the source is closed no attempt is made.           *)
(***************************************************************************)
EXTENDS Naturals

CONSTANTS Dataset, Inspection,  \* the datasets, and the one that inspects
          Cadence, Floor,       \* the rests an attempt can earn
          Persistent            \* failures in a row that count as persistent

VARIABLES attempt,   \* the dataset being attempted, a set of at most one
          answered,  \* the source has answered the attempt
          contract,  \* the reports the last inspection allows
          streak,    \* failures in a row of each dataset, up to Persistent
          rest,      \* time left of the rest each dataset is owed
          open       \* the source has not been closed

vars == <<attempt, answered, contract, streak, rest, open>>

Zero == [d \in Dataset |-> 0]

Init ==
  /\ attempt = {} /\ answered = FALSE /\ contract = {}
  /\ streak = Zero /\ rest = Zero /\ open = TRUE

Failed(n) == IF n < Persistent THEN n + 1 ELSE n
Earned(d, n) == IF n \in {0, Persistent} THEN Cadence[d] ELSE Floor

Begin(d) ==
  /\ attempt = {} /\ open
  /\ d = Inspection \/ d \in contract
  /\ rest[d] = 0
  /\ attempt' = {d}
  /\ UNCHANGED <<answered, contract, streak, rest, open>>

Answer(d) ==
  /\ attempt = {d} /\ ~answered
  /\ answered' = TRUE
  /\ \E n \in {0, Failed(streak[d])} : streak' = [streak EXCEPT ![d] = n]
  /\ \/ UNCHANGED contract
     \/ d = Inspection /\ contract' \in SUBSET (Dataset \ {Inspection})
  /\ UNCHANGED <<attempt, rest, open>>

Over(d) ==
  /\ attempt' = {} /\ answered' = FALSE
  /\ rest' = [rest EXCEPT ![d] = Earned(d, streak'[d])]
  /\ UNCHANGED <<contract, open>>

Conclude(d) == attempt = {d} /\ answered /\ UNCHANGED streak /\ Over(d)

\* The attempt cannot be begun, or not be concluded: another failure.
Fault(d) ==
  /\ attempt = {} \/ (attempt = {d} /\ answered)
  /\ rest[d] = 0
  /\ streak' = [streak EXCEPT ![d] = Failed(@)]
  /\ Over(d)

Close ==
  /\ attempt = {} /\ open' = FALSE
  /\ UNCHANGED <<attempt, answered, contract, streak, rest>>

Elapse ==
  /\ rest' = [d \in Dataset |-> IF rest[d] > 0 THEN rest[d] - 1 ELSE 0]
  /\ UNCHANGED <<attempt, answered, contract, streak, open>>

Next == \/ \E d \in Dataset : Begin(d) \/ Answer(d) \/ Conclude(d) \/ Fault(d)
        \/ Close \/ Elapse

Spec == Init /\ [][Next]_vars
=================================================================================
