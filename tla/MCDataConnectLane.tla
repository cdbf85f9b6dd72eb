--------------------------- MODULE MCDataConnectLane ---------------------------
(* Small instances of DataConnectLane for TLC. *)
EXTENDS DataConnectLane

\* Lifecycle instance: schema and one reporting dataset.
LifeLane == {"schema", "radius"}
LifePriority == [d \in LifeLane |-> IF d = "schema" THEN -1 ELSE 0]
LifeInterval == [d \in LifeLane |-> IF d = "schema" THEN 2 ELSE 1]
LifeOrder == <<"schema", "radius">>

\* Contention instance: one run of the lane outlasts the cadence of schema and
\* active, so each is due again whenever the other has run, and fleet has the
\* lowest priority behind them.
BusyLane == {"schema", "active", "fleet"}
BusyPriority == [d \in BusyLane |->
  CASE d = "schema" -> -1 [] d = "active" -> 0 [] d = "fleet" -> 2]
BusyInterval == [d \in BusyLane |-> IF d = "fleet" THEN 2 ELSE 1]
BusyOrder == <<"schema", "active", "fleet">>
================================================================================
