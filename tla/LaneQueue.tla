------------------------------- MODULE LaneQueue -------------------------------
(***************************************************************************)
(* _AgingDataConnectQueue of scheduler.py: the list of pending items of    *)
(* the serialized Data Connect lane, and the rule by which get() selects   *)
(* one.  The list is a sequence in put() order, so an item's position is   *)
(* its sequence number.  An item's age is now - queued_at.  The code       *)
(* compares priority - age / 900; multiplied by the level (900 s here      *)
(* AgingLevel) that is priority * AgingLevel - age, without a quotient.    *)
(***************************************************************************)
EXTENDS Integers, Sequences

CONSTANTS Lane,        \* the dataset names that can be queued
          Sentinel,    \* the shutdown sentinel: an item whose name is None
          Priority,    \* _DATACONNECT_PRIORITY
          AgingLevel,  \* _DATACONNECT_PRIORITY_AGING_SECONDS, in ticks
          AgeCap       \* bound: the age at which an item's age stops counting

ASSUME QueueConstants ==
  /\ Sentinel \notin Lane
  /\ Priority \in [Lane -> Int]
  /\ AgingLevel \in Nat \ {0}
  /\ AgeCap \in Nat

Item == [name : Lane \cup {Sentinel}, age : 0..AgeCap]

Names(q) == {q[i].name : i \in DOMAIN q} \ {Sentinel}

\* put(): append, stamped with the current time.
Put(q, n) == Append(q, [name |-> n, age |-> 0])

\* list.pop(k).
PopAt(q, k) ==
  [i \in 1..(Len(q) - 1) |-> IF i < k THEN q[i] ELSE q[i + 1]]

Effective(item) == Priority[item.name] * AgingLevel - item.age

\* The comparison key (effective_priority, priority, queued_at, sequence).
\* Equal effective and static priorities mean equal queued_at.
Precedes(q, i, j) ==
  \/ Effective(q[i]) < Effective(q[j])
  \/ /\ Effective(q[i]) = Effective(q[j])
     /\ \/ Priority[q[i].name] < Priority[q[j].name]
        \/ Priority[q[i].name] = Priority[q[j].name] /\ i < j

\* Mutant: selection by static priority alone.
StaticIsBest(q, k) ==
  IF \E i \in DOMAIN q : q[i].name = Sentinel
    THEN q[k].name = Sentinel
    ELSE \A i \in DOMAIN q \ {k} :
           \/ Priority[q[k].name] < Priority[q[i].name]
           \/ Priority[q[k].name] = Priority[q[i].name] /\ k < i

\* _pop_best_locked: the first sentinel wins outright, else the least key.
IsBest(q, k) ==
  IF \E i \in DOMAIN q : q[i].name = Sentinel
    THEN /\ q[k].name = Sentinel
         /\ \A i \in 1..(k - 1) : q[i].name # Sentinel
    ELSE \A i \in DOMAIN q \ {k} : Precedes(q, k, i)

\* Every pending item grows one tick older.
Older(age) == IF age < AgeCap THEN age + 1 ELSE age

Aged(q) ==
  [i \in DOMAIN q |-> [name |-> q[i].name, age |-> Older(q[i].age)]]
================================================================================
