----------------------------- MODULE PacedDatabase -----------------------------
(***************************************************************************)
(* What the pacing gate promises the Oracle database, whatever files,      *)
(* locks and processes it is made of.  One request is served at a time,    *)
(* statement by statement.  A reporting request begins only when the       *)
(* database is owed no rest; what a request cost is owed when it is over,  *)
(* and what its lease has left is owed when its process does not live to   *)
(* see the end of a statement, or to say what it cost.  A request that     *)
(* ends with an error may owe nothing.  Lookups need not wait, but make no *)
(* rest shorter.                                                           *)
(***************************************************************************)
EXTENDS Integers

CONSTANTS Proc,         \* the processes that send requests
          Factor,       \* rest owed for a unit of reporting time
          MaxDuration,  \* longest statement
          MinGap,       \* shortest rest
          LeaseCap      \* longest rest owed for a statement nobody measured

VARIABLES serving,   \* the request being served, a set of at most one
          running,   \* a statement of it is in the database
          since,     \* time since the last statement began
          busy,      \* time its statements have taken
          rest       \* time left of the rest the database is owed

vars == <<serving, running, since, busy, rest>>

Requests == [proc : Proc, reporting : BOOLEAN]

Longer(a, b) == IF a > b THEN a ELSE b
Cost(r, time) == Longer(MinGap, IF r.reporting THEN time * Factor ELSE time)
Lease(r) == IF LeaseCap < Cost(r, MaxDuration) THEN LeaseCap ELSE Cost(r, MaxDuration)

Init ==
  /\ serving = {} /\ running = FALSE
  /\ since = 0 /\ busy = 0 /\ rest = 0

Open(r) ==
  /\ serving = {} /\ (r.reporting => rest = 0)
  /\ serving' = {r} /\ running' = TRUE
  /\ since' = 0 /\ busy' = 0
  /\ UNCHANGED rest

EndStatement ==
  /\ running /\ running' = FALSE
  /\ UNCHANGED <<serving, since, busy, rest>>

\* Only a reporting request has more than one statement.
NextStatement(r) ==
  /\ r.reporting /\ ~running
  /\ running' = TRUE /\ since' = 0
  /\ UNCHANGED <<serving, busy, rest>>

Over == serving' = {} /\ running' = FALSE /\ since' = 0 /\ busy' = 0

Close(r) == ~running /\ Over /\ rest' = Longer(rest, Cost(r, busy))

Fail == ~running /\ Over /\ UNCHANGED rest

\* Between two statements the cost of the last one may be known.
Die(r) ==
  /\ Over
  /\ \/ rest' = Longer(rest, Lease(r) - since)
     \/ ~running /\ UNCHANGED rest

Elapse ==
  /\ running => since < MaxDuration
  /\ since' = IF running THEN since + 1 ELSE since
  /\ busy' = IF running THEN busy + 1 ELSE busy
  /\ rest' = IF rest > 0 THEN rest - 1 ELSE 0
  /\ UNCHANGED <<serving, running>>

Serve(r) == NextStatement(r) \/ Close(r) \/ Fail \/ Die(r)

Next ==
  \/ Elapse \/ EndStatement
  \/ \E r \in Requests : Open(r)
  \/ \E r \in serving : Serve(r)

Spec == Init /\ [][Next]_vars
================================================================================
