---------------------------- MODULE MCStateFiles ----------------------------
(* Bounded instance of StateFiles. Symmetry is not used: a liveness        *)
(* property is checked.                                                    *)
EXTENDS StateFiles

(* Bound: a reset, a fault, or a database that is damaged a second time,   *)
(* not several of them.                                                    *)
OneDisturbance == resets + faults + Cardinality(corrupt) <= 2
MCSpec == Init /\ [][Next /\ OneDisturbance']_vars /\ Fairness
=============================================================================
