---------------------------- MODULE LastGoodRegistry ----------------------------
(***************************************************************************)
(* What the publication boundary promises the readers of the registry.  A  *)
(* dataset shows the snapshot of one attempt, or nothing: never a part of  *)
(* one, and never an attempt that has been given up.  Within a process it  *)
(* is replaced only by a newer attempt; a new process shows nothing until  *)
(* an attempt succeeds or the durable copy is recalled, which never hides  *)
(* something already shown.  While a reader looks, nothing is replaced.    *)
(***************************************************************************)
EXTENDS Naturals

CONSTANTS Dataset, None

VARIABLES shown,    \* the attempt each dataset shows, 0 for none
          durable,  \* the attempt in its durable copy, 0 for none
          reading   \* what a reader has seen, None between readings

vars == <<shown, durable, reading>>

Empty == [d \in Dataset |-> 0]

Init == shown = Empty /\ durable = Empty /\ reading = None

\* Attempts are numbered over all processes: the new one is newer than what is
\* shown and than what could be recalled.
Replace(d) ==
  /\ reading = None
  /\ shown'[d] > shown[d] /\ shown'[d] > durable[d]
  /\ shown' = [shown EXCEPT ![d] = shown'[d]]
  /\ UNCHANGED <<durable, reading>>

Keep(d) ==
  /\ shown[d] > durable[d]
  /\ durable' = [durable EXCEPT ![d] = shown[d]]
  /\ UNCHANGED <<shown, reading>>

Recall(d) ==
  /\ reading = None /\ shown[d] = 0 /\ durable[d] > 0
  /\ shown' = [shown EXCEPT ![d] = durable[d]]
  /\ UNCHANGED <<durable, reading>>

Look(d) ==
  /\ reading = None
  /\ reading' = [of |-> d, data |-> shown[d]]
  /\ UNCHANGED <<shown, durable>>

Leave == reading' = None /\ UNCHANGED <<shown, durable>>

Forget == shown' = Empty /\ reading' = None /\ UNCHANGED durable

Next == \/ \E d \in Dataset : Replace(d) \/ Keep(d) \/ Recall(d) \/ Look(d)
        \/ Leave \/ Forget

Spec == Init /\ [][Next]_vars
=================================================================================
