---------------------------- MODULE MCCollectors ----------------------------
(***************************************************************************)
(* The detail caches of the REST collectors, the marks of the activity     *)
(* collectors, the reports of the aggregate collectors and the inspection  *)
(* they depend on in one run.  The four modules share no variable, so a    *)
(* behaviour of one with the others at rest shows every property of it:    *)
(* part says which of them moves.                                          *)
(***************************************************************************)
EXTENDS DetailCache, HighWater, ReportingViews, SchemaContracts

VARIABLE part

MCBudgets == [k \in Kinds |-> CASE k = "device" -> {0, 2} [] k = "policy" -> {1}
                                [] k \in {"user", "session"} -> {2} [] OTHER -> {0}]
MCLimits == [k \in Kinds |-> IF k = "policy" THEN 2 ELSE 3]
MCMaxHopeless == [k \in Kinds |-> IF k \in {"device", "session"} THEN 1 ELSE 0]

MCNamings == {<<"null", "unknown">>, <<"sw1", "unknown">>}
MCMaxSent == [v \in Views |-> IF v = "active" THEN 3 ELSE 2]

(* A module at rest stays in one of its initial states.  Bounds: ISE holds *)
(* all objects at first or none; devices whose detail never comes are      *)
(* tried with a fixed budget and a list that carries no details.           *)
AllInit ==
  /\ part \in {"details", "marks", "reports", "schema"}
  /\ Init /\ (part # "details" => kind = "name" /\ Present = {}) /\ Present \in {{}, Objects}
  /\ kind = "device" /\ hopeless # {} => budget = 2 /\ ~embeds
  /\ embeds => budget = 0
  /\ MarksInit /\ (part # "marks" => table = "nad")
  /\ ReportsInit /\ (hasName \/ name[1] = "sw1")
  /\ part # "reports" => view = "active" /\ limit = 1 /\ hasName /\ name[1] = "sw1"
  /\ SchemaInit /\ (part # "schema" => dataset = Freshness /\ tacacs /\ lost = {})

(* Bounds: where details are asked for, ISE changes or a call fails, not   *)
(* both; only the retention of endpoints needs a third moment; the log has *)
(* a third record only where all of them name their thing alike.           *)
OneDisturbance == kind \in {"cert", "name"} \/ changes + faults <= 1
ShortTime == table # "endpoint" => now <= 2
FewRecords == lapses = 0 \/ Written <= 2

AllNext ==
  \/ /\ part = "details" /\ Next /\ OneDisturbance'
     /\ UNCHANGED <<marksVars, reportsVars, schemaVars, part>>
  \/ /\ part = "marks" /\ MarksNext /\ ShortTime'
     /\ UNCHANGED <<vars, reportsVars, schemaVars, part>>
  \/ /\ part = "reports" /\ ReportsNext /\ FewRecords'
     /\ UNCHANGED <<vars, marksVars, schemaVars, part>>
  \/ /\ part = "schema" /\ SchemaNext
     /\ UNCHANGED <<vars, marksVars, reportsVars, part>>

(* What moves keeps its types; between two cycles a collector's view of    *)
(* its cache is what was committed.                                        *)
CollectorsTypeOK ==
  /\ part = "details" => TypeOK
  /\ part = "marks" => MarksTypeOK
  /\ part = "schema" => SchemaTypeOK

CollectorsSpec ==
  /\ AllInit /\ [][AllNext]_<<vars, marksVars, reportsVars, schemaVars, part>>
  /\ WF_vars(/\ part = "details" /\ Cycle
             /\ UNCHANGED <<marksVars, reportsVars, schemaVars, part>>)
=============================================================================
