------------------------------- MODULE AuthGuard -------------------------------
(***************************************************************************)
(* The authentication guard that keeps a wrong password from locking the   *)
(* ISE account: auth_guard.py and its use by the clients of rest.py and by *)
(* DataConnectClient.connect.  A caller is a thread that makes one request *)
(* at a time; the clients of all processes share one guard file.  A        *)
(* request checks the guard, logs in and records a rejection while it      *)
(* holds its client's transport lock; a health probe checks and records    *)
(* outside it.  Successes are recorded outside it too.                     *)
(*                                                                         *)
(* The password may be changed at the server or in the configuration at    *)
(* any time.  A caller may be lost at any point: its process dies, or the  *)
(* guard file fails.  Deadlines are the time that remains until them.      *)
(* connect, whose guard is a file of its own, keeps its client's lock      *)
(* until a success is recorded too, which the model does not insist on.    *)
(***************************************************************************)
EXTENDS Integers, FiniteSets

CONSTANTS Client,      \* clients, each with one transport lock
          Caller,      \* the threads that use them
          Probe,       \* the callers that make health probes
          ClientOf,    \* the client each caller uses
          None,        \* no caller
          Threshold,   \* auth_failure_threshold
          Backoff,     \* auth_failure_backoff
          MaxLosses,   \* bound: rejections lost since the last accepted login
          MaxChanges   \* bound: changes of the password

ASSUME GuardConstants ==
  /\ IsFiniteSet(Client) /\ IsFiniteSet(Caller) /\ Caller # {}
  /\ Probe \subseteq Caller /\ ClientOf \in [Caller -> Client]
  /\ None \notin Caller
  /\ Threshold \in Nat \ {0} /\ Backoff \in Nat \ {0}
  /\ MaxLosses \in Nat /\ MaxChanges \in Nat

VARIABLES
  failures,   \* failure count in the guard file; above Threshold all are alike
  deadline,   \* time left of the deadline in the guard file
  flock,      \* the caller that has truncated the file and not yet written it
  transport,  \* the caller that holds each client's transport lock
  pc,         \* where each caller is
  valid,      \* the password is the right one
  changes,    \* changes of the password so far
  \* ghosts, since the last accepted login or the last lapse of the backoff
  rejected,   \* logins the server has rejected
  recorded,   \* rejections recorded since the guard was last cleared
  resets,     \* times the guard was cleared although logins had been rejected
  lost        \* rejections that were never recorded: answer or caller lost

guard == <<failures, deadline, flock>>
ghosts == <<rejected, recorded, resets, lost>>
vars == <<guard, transport, pc, valid, changes, ghosts>>

Init ==
  /\ failures = 0 /\ deadline = 0 /\ flock = None
  /\ transport = [k \in Client |-> None]
  /\ pc = [c \in Caller |-> "idle"]
  /\ valid \in BOOLEAN /\ changes = 0
  /\ rejected = 0 /\ recorded = 0 /\ resets = 0 /\ lost = 0

Goto(c, l) == pc' = [pc EXCEPT ![c] = l]
Holds(c) == transport[ClientOf[c]] = c
Take(c) == /\ transport[ClientOf[c]] = None
           /\ transport' = [transport EXCEPT ![ClientOf[c]] = c]
Give(c) == transport' = IF Holds(c)
                          THEN [transport EXCEPT ![ClientOf[c]] = None]
                          ELSE transport

--------------------------------------------------------------------------------
(* A request or a probe up to the server's answer *)

\* Mutant: requests check the guard before they wait for the transport.
BeginUnlocked(c) ==
  /\ pc[c] = "idle"
  /\ Goto(c, "check")
  /\ UNCHANGED <<guard, transport, valid, changes, ghosts>>

\* _request takes the transport lock first, _health_probe checks first.
Begin(c) ==
  /\ pc[c] = "idle"
  /\ IF c \in Probe THEN UNCHANGED transport ELSE Take(c)
  /\ Goto(c, "check")
  /\ UNCHANGED <<guard, valid, changes, ghosts>>

\* blocked(now) is true: the request fails without reaching the server.
Refused(c) ==
  /\ pc[c] = "check" /\ flock = None /\ deadline > 0
  /\ Give(c)
  /\ Goto(c, "idle")
  /\ UNCHANGED <<guard, valid, changes, ghosts>>

\* blocked(now) is false.
Admitted(c) ==
  /\ pc[c] = "check" /\ flock = None /\ deadline = 0
  /\ Goto(c, IF Holds(c) THEN "send" ELSE "wait")
  /\ UNCHANGED <<guard, transport, valid, changes, ghosts>>

\* A probe takes the transport lock for the exchange only.
Send(c) ==
  /\ pc[c] = "wait"
  /\ Take(c)
  /\ Goto(c, "send")
  /\ UNCHANGED <<guard, valid, changes, ghosts>>

\* 401: a request keeps the transport lock until it has recorded it.
Rejected(c) ==
  /\ pc[c] = "send" /\ ~valid
  /\ rejected' = rejected + 1
  /\ IF c \in Probe THEN Give(c) ELSE UNCHANGED transport
  /\ Goto(c, "record")
  /\ UNCHANGED <<guard, valid, changes, recorded, resets, lost>>

\* 2xx: the server forgets earlier rejections; recorded without the lock.
Accepted(c) ==
  /\ pc[c] = "send" /\ valid
  /\ rejected' = 0 /\ recorded' = 0 /\ resets' = 0 /\ lost' = 0
  /\ Give(c)
  /\ Goto(c, "clear")
  /\ UNCHANGED <<guard, valid, changes>>

\* The server may still reject a login whose caller does not see the answer.
Unseen(c) ==
  \E more \in IF pc[c] = "send" /\ ~valid /\ lost < MaxLosses THEN {0, 1} ELSE {0} :
    rejected' = rejected + more /\ lost' = lost + more

\* Timeout, TLS or connection error, another status: nothing is recorded.
Unanswered(c) ==
  /\ pc[c] = "send"
  /\ Unseen(c)
  /\ Give(c)
  /\ Goto(c, "idle")
  /\ UNCHANGED <<guard, valid, changes, recorded, resets>>

--------------------------------------------------------------------------------
(* Updates of the guard file: flock, read, truncate, write *)

Recording == {"record", "clear"}

\* success() of a clean guard writes nothing.
Unchanged(c) == pc[c] = "clear" /\ failures = 0 /\ deadline = 0

\* _open, _read and, unless the state stays the same, ftruncate.
Update(c) ==
  /\ pc[c] \in Recording /\ flock = None
  /\ IF Unchanged(c) THEN Goto(c, "idle") /\ UNCHANGED flock
                     ELSE flock' = c /\ UNCHANGED pc
  /\ UNCHANGED <<failures, deadline, transport, valid, changes, ghosts>>

\* The file is closed; an empty file counts as no failure and no deadline.
Cleared ==
  /\ failures' = 0 /\ deadline' = 0 /\ recorded' = 0
  /\ resets' = IF rejected > 0 THEN resets + 1 ELSE resets
Done(c) == flock' = None /\ Give(c) /\ Goto(c, "idle")

Least(a, b) == IF a < b THEN a ELSE b

\* failure(): max(deadline, now + backoff) once the count reaches the threshold.
NewDeadline == IF failures + 1 >= Threshold THEN Backoff ELSE deadline

\* Mutant: the rejection's transport lock is not given back.
WriteFailureLeaky(c) ==
  /\ pc[c] = "record" /\ flock = c
  /\ failures' = Least(Threshold, failures + 1)
  /\ deadline' = NewDeadline
  /\ recorded' = recorded + 1
  /\ flock' = None /\ Goto(c, "idle")
  /\ UNCHANGED <<transport, valid, changes, rejected, resets, lost>>

WriteFailure(c) ==
  /\ pc[c] = "record" /\ flock = c
  /\ failures' = Least(Threshold, failures + 1)
  /\ deadline' = NewDeadline
  /\ recorded' = recorded + 1
  /\ Done(c)
  /\ UNCHANGED <<valid, changes, rejected, resets, lost>>

\* success(): the server accepted this caller's login, maybe some time ago.
WriteSuccess(c) ==
  /\ pc[c] = "clear" /\ flock = c
  /\ Cleared
  /\ Done(c)
  /\ UNCHANGED <<valid, changes, rejected, lost>>

--------------------------------------------------------------------------------
(* Losses, changes of the password, time *)

\* The caller's process dies, shutdown is set before it checks, its guard update
\* fails, or the body of a 2xx does not parse and the success is not recorded.
\* Locks go with it; a truncated file stays empty.
Lose(c) ==
  /\ pc[c] # "idle" /\ lost < MaxLosses
  /\ IF pc[c] = "record" THEN lost' = lost + 1 /\ UNCHANGED rejected
                         ELSE Unseen(c)
  /\ IF flock = c THEN flock' = None /\ Cleared
                  ELSE UNCHANGED <<guard, recorded, resets>>
  /\ Give(c)
  /\ Goto(c, "idle")
  /\ UNCHANGED <<valid, changes>>

ChangePassword ==
  /\ changes < MaxChanges
  /\ changes' = changes + 1
  /\ valid' = ~valid
  /\ UNCHANGED <<guard, transport, pc, ghosts>>

\* Updates of the file take no time.  A backoff that lapses ends the account's
\* observation window.
Tick ==
  /\ flock = None /\ deadline > 0
  /\ deadline' = deadline - 1
  /\ IF deadline = 1 THEN rejected' = 0 /\ recorded' = 0 /\ resets' = 0 /\ lost' = 0
                     ELSE UNCHANGED ghosts
  /\ UNCHANGED <<failures, flock, transport, pc, valid, changes>>

--------------------------------------------------------------------------------

Step(c) == \/ Refused(c) \/ Admitted(c) \/ Send(c) \/ Rejected(c) \/ Accepted(c)
           \/ Unanswered(c) \/ Update(c) \/ WriteFailure(c) \/ WriteSuccess(c)

Next == \/ \E c \in Caller : Step(c) \/ Begin(c) \/ Lose(c)
        \/ ChangePassword \/ Tick

Spec == Init /\ [][Next]_vars

\* Threads run and requests time out.  Strong fairness: a lock that is free again
\* and again is granted in the end, as no caller holds one between its requests.
FairSpec == Spec /\ WF_vars(Tick) /\ \A c \in Caller : SF_vars(Step(c))

--------------------------------------------------------------------------------
(* Properties *)

TypeOK ==
  /\ failures \in 0..Threshold /\ deadline \in 0..Backoff
  /\ flock \in Caller \cup {None}
  /\ transport \in [Client -> Caller \cup {None}]
  /\ pc \in [Caller -> {"idle", "check", "wait", "send"} \cup Recording]
  /\ valid \in BOOLEAN /\ changes \in 0..MaxChanges
  /\ rejected \in Nat /\ recorded \in Nat /\ resets \in Nat /\ lost \in 0..MaxLosses

\* How many logins can be past the check at once: one request for each client,
\* whose transport lock covers check, login and record, and every probe.
Width == Cardinality(Client) + Cardinality(Probe)

\* "to avoid account lockout": between two accepted logins or lapses of the
\* backoff, the server rejects no more logins than reach the threshold and those
\* already past the check when they do, once more for each time that a late
\* success or a torn write clears the guard, and the ones lost unrecorded.
LockoutBound ==
  rejected <= (resets + 1) * (Threshold - 1 + Width) + lost

\* Every request ends although it waits for two locks in turn.
Answered == \A c \in Caller : pc[c] # "idle" ~> pc[c] = "idle"
================================================================================
