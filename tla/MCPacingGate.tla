------------------------------ MODULE MCPacingGate ------------------------------
(* The instances of PacingGate for TLC: all constants come from the cfg files. *)
EXTENDS PacingGate

\* Every process sends reporting requests: no lookup is there to lose a deadline.
ReportingOnly == \A p \in Proc : req[p].adaptive
ReportingSpec == Init /\ [][Next /\ ReportingOnly']_vars
================================================================================
