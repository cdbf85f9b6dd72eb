---------------------------- MODULE MCAuxLanes ----------------------------
(* Bounded instance of AuxLanes: the MnT lane and one ERS lane.            *)
EXTENDS AuxLanes
MCInterval == [l \in Lanes |-> IF l = Mnt THEN 1 ELSE 2]
MCJumps == {-8, 3}

(* Bound: one disturbance at a time, of a clock step, a second loop() and  *)
(* lanes that fail.                                                        *)
Failing == \E l \in Lanes : fails[l] > 0
OneDisturbance ==
  Cardinality({d \in {<<"clock", jumps > 0>>, <<"loop", loops > 1>>,
                      <<"failures", Failing>>} : d[2]}) <= 1
MCSpec == Init /\ [][Next /\ OneDisturbance']_vars
===========================================================================
