--------------------------- MODULE MCTailCursor ---------------------------
(* Bounded instance of TailCursor.                                         *)
EXTENDS TailCursor

(* Bound: a rebuild of the source or a fault of the exporter, not both. *)
OneDisturbance == gen = 0 \/ faults = 0
MCSpec == Init /\ [][Next /\ OneDisturbance']_vars /\ WF_vars(Cycle)
============================================================================
