--------------------------- MODULE EventCounting ---------------------------
(***************************************************************************)
(* What an incremental tail promises its reader, whatever its cursor, its  *)
(* queries and its faults do: an event is folded into the counter only     *)
(* after it has appeared in the source, and never twice.  An event may     *)
(* stay uncounted for ever; the module says nothing about when.            *)
(***************************************************************************)
EXTENDS Naturals

CONSTANT Events

VARIABLES arrived,   \* events that have been readable in the source
          tally      \* how often each event has been added to the counter

vars == <<arrived, tally>>

TypeOK ==
    /\ arrived \in SUBSET Events
    /\ tally \in [Events -> Nat]

Init ==
    /\ arrived = {}
    /\ tally = [e \in Events |-> 0]

Arrive ==
    \E e \in Events \ arrived :
        /\ arrived' = arrived \cup {e}
        /\ UNCHANGED tally

Count ==
    \E S \in SUBSET arrived :
        /\ \A e \in S : tally[e] = 0
        /\ tally' = [e \in Events |-> IF e \in S THEN 1 ELSE tally[e]]
        /\ UNCHANGED arrived

Next == Arrive \/ Count

Spec == Init /\ [][Next]_vars
============================================================================
