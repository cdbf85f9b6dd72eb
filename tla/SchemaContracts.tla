-------------------------- MODULE SchemaContracts --------------------------
(***************************************************************************)
(* Capability negotiation with Data Connect: the catalog inspection of     *)
(* dataconnect_schema.py decides which datasets may run, and the           *)
(* collectors then write their SQL around the columns it found.  The       *)
(* catalog is ISE's: a patch, an upgrade or a grant adds and removes views *)
(* and columns, also between an inspection and the statements written      *)
(* from it.                                                                *)
(*                                                                         *)
(* A view is the set of its columns, empty when the account has none.  Of  *)
(* the columns that a collector replaces by a literal when they are absent *)
(* one or two stand for all.                                               *)
(***************************************************************************)
EXTENDS Naturals, FiniteSets

CONSTANTS MaxLost,    \* bound: losses of the catalog at a time
          MaxDrift    \* bound: changes of the catalog after an inspection

ASSUME SchemaAssumption == MaxLost \in Nat /\ MaxDrift \in Nat

Diagnostics == {"TIMESTAMP", "ISE_NODE", "CATEGORY"}
Tacacs == {"EPOCH_TIME", "USERNAME"}

(* VIEW_CONTRACTS: the columns of a complete catalog. *)
Columns ==
  [RADIUS_AUTHENTICATIONS |-> {"TIMESTAMP", "TIMESTAMP_TIMEZONE", "ID", "FAILED",
                               "RESPONSE_TIME", "AUTHORIZATION_RULE"},
   RADIUS_AUTHENTICATIONS_WEEK |-> {"TIMESTAMP", "FAILED", "RESPONSE_TIME",
                                    "AUTHORIZATION_POLICY"},
   RADIUS_AUTHENTICATION_SUMMARY |-> {"TIMESTAMP", "PASSED_COUNT", "FAILED_COUNT",
                                      "CALLING_STATION_ID", "DEVICE_NAME",
                                      "IDENTITY_GROUP", "DEVICE_TYPE"},
   RADIUS_ACCOUNTING |-> {"ID", "TIMESTAMP", "ACCT_SESSION_ID", "ACCT_STATUS_TYPE",
                          "DEVICE_NAME"},
   RADIUS_ERRORS_VIEW |-> {"TIMESTAMP", "MESSAGE_CODE"},
   ENDPOINTS_DATA |-> {"MAC_ADDRESS", "POSTURE_APPLICABLE", "HOSTNAME"},
   PROFILED_ENDPOINTS_SUMMARY |-> {"TIMESTAMP", "ENDPOINT_ID", "SOURCE"},
   POSTURE_ASSESSMENT_BY_ENDPOINT |-> {"ID", "TIMESTAMP", "ENDPOINT_MAC_ADDRESS",
                                       "POSTURE_STATUS"},
   POSTURE_ASSESSMENT_BY_CONDITION |-> {"LOGGED_AT", "ENDPOINT_ID", "POLICY"},
   KEY_PERFORMANCE_METRICS |-> {"LOGGED_TIME", "ISE_NODE", "AVG_TPS"},
   SYSTEM_SUMMARY |-> {"TIMESTAMP", "ISE_NODE", "CPU_UTILIZATION"},
   AAA_DIAGNOSTICS_VIEW |-> Diagnostics,
   SYSTEM_DIAGNOSTICS_VIEW |-> Diagnostics,
   TACACS_AUTHENTICATION_LAST_TWO_DAYS |-> Tacacs,
   TACACS_AUTHORIZATION_LAST_TWO_DAYS |-> Tacacs,
   TACACS_ACCOUNTING_LAST_TWO_DAYS |-> Tacacs]

ContractViews == DOMAIN Columns
TacacsViews == {v \in ContractViews : Columns[v] = Tacacs}

(* contract.time_column, "" for an inventory. *)
TimeColumn(v) ==
  CASE v \in TacacsViews -> "EPOCH_TIME"
    [] v = "POSTURE_ASSESSMENT_BY_CONDITION" -> "LOGGED_AT"
    [] v = "KEY_PERFORMANCE_METRICS" -> "LOGGED_TIME"
    [] v = "ENDPOINTS_DATA" -> ""
    [] OTHER -> "TIMESTAMP"

ActiveColumns == {"ID", "TIMESTAMP", "ACCT_SESSION_ID", "ACCT_STATUS_TYPE"}

(* DATASET_REQUIRED_COLUMNS; its views are DATASET_VIEW_DEPENDENCIES. *)
RequiredColumns ==
  [dataconnect_radius |->
     [RADIUS_AUTHENTICATIONS |-> {"TIMESTAMP"},
      RADIUS_AUTHENTICATIONS_WEEK |-> {"TIMESTAMP", "AUTHORIZATION_POLICY"},
      RADIUS_AUTHENTICATION_SUMMARY |-> {"TIMESTAMP", "PASSED_COUNT", "FAILED_COUNT"},
      RADIUS_ACCOUNTING |-> {"TIMESTAMP"},
      RADIUS_ERRORS_VIEW |-> {"TIMESTAMP"}],
   dataconnect_radius_active |-> [RADIUS_ACCOUNTING |-> ActiveColumns],
   dataconnect_performance |->
     [KEY_PERFORMANCE_METRICS |-> {"LOGGED_TIME", "ISE_NODE"},
      SYSTEM_SUMMARY |-> {"TIMESTAMP", "ISE_NODE"},
      AAA_DIAGNOSTICS_VIEW |-> {"TIMESTAMP", "ISE_NODE"},
      SYSTEM_DIAGNOSTICS_VIEW |-> {"TIMESTAMP", "ISE_NODE"}],
   dataconnect_posture |->
     [POSTURE_ASSESSMENT_BY_ENDPOINT |-> {"ID", "TIMESTAMP"},
      POSTURE_ASSESSMENT_BY_CONDITION |-> {"LOGGED_AT", "ENDPOINT_ID"},
      ENDPOINTS_DATA |-> {}],
   dataconnect_endpoints |->
     [ENDPOINTS_DATA |-> {},
      PROFILED_ENDPOINTS_SUMMARY |-> {"TIMESTAMP", "ENDPOINT_ID"}],
   dataconnect_nad_health |->
     [RADIUS_AUTHENTICATION_SUMMARY |-> {"TIMESTAMP", "PASSED_COUNT", "FAILED_COUNT",
                                         "DEVICE_NAME"}],
   tacacs_activity |-> [v \in TacacsViews |-> {"EPOCH_TIME"}]]

Base == "RADIUS_AUTHENTICATIONS"
Week == "RADIUS_AUTHENTICATIONS_WEEK"
Freshness == "dataconnect_freshness"

(* DATASET_VIEW_ALTERNATIVES and DATASET_OPTIONAL_VIEWS. *)
AlternativeViews(d) == IF d = "dataconnect_radius" THEN {Base, Week} ELSE {}
OptionalViews(d) == IF d = "dataconnect_posture" THEN {"ENDPOINTS_DATA"} ELSE {}

(* Datasets the inspection says nothing about. *)
Unlisted == {"endpoint_fleet", "dataconnect_accounting_counters"}
Contracted == DOMAIN RequiredColumns
SchemaDatasets == Contracted \cup Unlisted \cup {Freshness}

VARIABLES dataset,   \* the dataset this behaviour is about
          tacacs,    \* collect_tacacs
          lost,      \* ISE: what the account does not see of the contract
          schema,    \* found by the last inspection, empty before
          ready,     \* there was one
          drift,     \* changes of the catalog since
          blocked,   \* datasets it found incompatible
          outcome    \* of the last collection: "none", "ok", "failed"

schemaVars == <<dataset, tacacs, lost, schema, ready, drift, blocked, outcome>>

-----------------------------------------------------------------------------
(* ISE's catalog. *)
catalog == [v \in ContractViews |-> {c \in Columns[v] : <<v, c>> \notin UNION lost}]

(* The inspection. *)
Contracts == IF tacacs THEN ContractViews ELSE ContractViews \ TacacsViews

(* schema_by_table of the catalog rows of the contract views. *)
Discovered == [v \in ContractViews |-> IF v \in Contracts THEN catalog[v] ELSE {}]

(* Mutant: a view that is there counts, whatever its columns. *)
LacksView(found, d, v) == found[v] = {}

(* missing_required: the view, or a column without which the SQL cannot be *)
(* written.                                                                *)
Lacks(found, d, v) == found[v] = {} \/ ~(RequiredColumns[d][v] \subseteq found[v])

(* Every view a dataset depends on, but for the optional ones, and of the  *)
(* alternatives one.                                                       *)
Incompatible(found, d) ==
  \/ \E v \in DOMAIN RequiredColumns[d] \ (AlternativeViews(d) \cup OptionalViews(d)) :
       Lacks(found, d, v)
  \/ AlternativeViews(d) # {} /\ \A v \in AlternativeViews(d) : Lacks(found, d, v)

(* The views a freshness probe can read. *)
Timestamped(found) ==
  {v \in Contracts \ {Week} :
     /\ TimeColumn(v) # ""
     /\ \/ TimeColumn(v) \in found[v]
        \/ TimeColumn(v) # "EPOCH_TIME" /\ "TIMESTAMP_TIMEZONE" \in found[v]}

Failures(found) ==
  {d \in Contracted : (d = "tacacs_activity" => tacacs) /\ Incompatible(found, d)}
    \cup (IF Timestamped(found) = {} THEN {Freshness} ELSE {})

inspect_dataconnect_schema ==
  /\ schema' = Discovered
  /\ blocked' = Failures(Discovered)
  /\ ready' = TRUE /\ drift' = 0 /\ outcome' = "none"
  /\ UNCHANGED <<dataset, tacacs, lost>>

-----------------------------------------------------------------------------
(* What the collectors write.  A read names a view and the columns it      *)
(* mentions: those it always mentions, and of the others those found.      *)
Read(v, always, found) == [view |-> v, cols |-> always \cup (found \cap schema[v])]
Select(name, reads) == [name |-> name, reads |-> reads, whole |-> TRUE]

Details == {"FAILED", "RESPONSE_TIME"}
Policies == {"AUTHORIZATION_POLICY", "AUTHORIZATION_RULE"}

(* preferred_radius_authentication_view *)
AuthenticationView ==
  LET base == "TIMESTAMP" \in schema[Base]
      week == {"TIMESTAMP", "AUTHORIZATION_POLICY"} \subseteq schema[Week]
      wider == Cardinality(schema[Week] \cap Details)
                 >= Cardinality(schema[Base] \cap Details)
  IN  CASE base /\ week -> IF wider /\ schema[Base] \cap Policies = {}
                           THEN Week ELSE Base
        [] base /\ ~week -> Base
        [] ~base /\ week -> Week
        [] OTHER -> IF schema[Base] = {} /\ schema[Week] # {} THEN Week ELSE Base

Summary == "RADIUS_AUTHENTICATION_SUMMARY"
Dimensions == {"IDENTITY_GROUP", "DEVICE_TYPE"}

(* The CASE of volume_summary needs a dimension for its first WHEN. *)
radius_queries ==
  {Select("authentication",
          {Read(AuthenticationView, {"TIMESTAMP"}, Details \cup Policies)}),
   [Select("volume_summary",
           {Read(Summary, {"TIMESTAMP", "PASSED_COUNT", "FAILED_COUNT"}, Dimensions)})
      EXCEPT !.whole = schema[Summary] \cap Dimensions # {}],
   Select("accounting", {Read("RADIUS_ACCOUNTING", {"TIMESTAMP"},
                              {"ACCT_STATUS_TYPE", "DEVICE_NAME"})}),
   Select("errors", {Read("RADIUS_ERRORS_VIEW", {"TIMESTAMP"}, {"MESSAGE_CODE"})})}
  \cup (IF "CALLING_STATION_ID" \in schema[Summary]
        THEN {Select("distinct_totals",
                     {Read(Summary, {"TIMESTAMP", "CALLING_STATION_ID"}, {})})}
        ELSE {})

active_queries ==
  {Select("active_sessions", {Read("RADIUS_ACCOUNTING", ActiveColumns, {"DEVICE_NAME"})})}

performance_queries ==
  {Select("kpi", {Read("KEY_PERFORMANCE_METRICS", {"LOGGED_TIME", "ISE_NODE"}, {"AVG_TPS"})}),
   Select("system", {Read("SYSTEM_SUMMARY", {"TIMESTAMP", "ISE_NODE"}, {"CPU_UTILIZATION"})})}
  \cup {Select(v, {Read(v, {"TIMESTAMP", "ISE_NODE"}, {"CATEGORY"})}) :
          v \in {"AAA_DIAGNOSTICS_VIEW", "SYSTEM_DIAGNOSTICS_VIEW"}}

Mac == "ENDPOINT_MAC_ADDRESS"
Assessments == "POSTURE_ASSESSMENT_BY_ENDPOINT"
Inventory == "ENDPOINTS_DATA"

posture_queries ==
  {Select("snapshot",
     {Read(Assessments, {"ID", "TIMESTAMP"}, {Mac, "POSTURE_STATUS"})}
     \cup (IF Mac \in schema[Assessments]
              /\ {"MAC_ADDRESS", "POSTURE_APPLICABLE"} \subseteq schema[Inventory]
           THEN {Read(Inventory, {"MAC_ADDRESS", "POSTURE_APPLICABLE"}, {})} ELSE {})),
   Select("conditions",
     {Read("POSTURE_ASSESSMENT_BY_CONDITION", {"LOGGED_AT", "ENDPOINT_ID"}, {"POLICY"})})}

endpoints_queries ==
  {Select("inventory", {Read(Inventory, {}, {"HOSTNAME", "POSTURE_APPLICABLE"})}),
   Select("profiling",
     {Read("PROFILED_ENDPOINTS_SUMMARY", {"TIMESTAMP", "ENDPOINT_ID"}, {"SOURCE"})})}

nad_queries ==
  {Select("activity",
     {Read(Summary, {"TIMESTAMP", "PASSED_COUNT", "FAILED_COUNT"}, {"DEVICE_NAME"})})}

activity_queries ==
  {Select(v, {Read(v, {"EPOCH_TIME"}, {"USERNAME"})}) : v \in TacacsViews}

fleet_queries ==
  (IF Mac \in schema[Assessments]
   THEN {Select("assessments",
                {Read(Assessments, {"ID", "TIMESTAMP", Mac}, {"POSTURE_STATUS"})})}
   ELSE {})
  \cup (IF {"MAC_ADDRESS", "POSTURE_APPLICABLE"} \subseteq schema[Inventory]
        THEN {Select("eligible", {Read(Inventory, {"POSTURE_APPLICABLE"}, {})})} ELSE {})

(* tail_counters of RADIUS_ACCOUNTING: without the ID it does nothing. *)
tail_queries ==
  IF "ID" \notin schema["RADIUS_ACCOUNTING"] THEN {}
  ELSE {Select("min", {Read("RADIUS_ACCOUNTING", {"ID"}, {})}),
        Select("max", {Read("RADIUS_ACCOUNTING", {"ID"}, {})}),
        Select("tail", {Read("RADIUS_ACCOUNTING", {"ID", "TIMESTAMP"}, {"ACCT_STATUS_TYPE"})})}

(* _freshness_column: the zoned column where there is one. *)
ProbeColumn(v) ==
  IF TimeColumn(v) # "EPOCH_TIME" /\ "TIMESTAMP_TIMEZONE" \in schema[v]
  THEN "TIMESTAMP_TIMEZONE" ELSE TimeColumn(v)

MaxBatchQueries == 5
BranchesPerStatement == 4

Larger(a, b) == IF a > b THEN a ELSE b
RoundUp(a, b) == (a + b - 1) \div b

(* One branch a view; a batch without a view is refused. *)
freshness_queries ==
  {Select(v, {Read(v, {ProbeColumn(v)}, {})}) : v \in Timestamped(schema)}

(* _chunk_views: four branches a statement, more where five statements     *)
(* would not do.                                                           *)
ChunkCount(n) ==
  RoundUp(n, Larger(BranchesPerStatement, RoundUp(n, MaxBatchQueries)))

Queries ==
  CASE dataset = "dataconnect_radius" -> radius_queries
    [] dataset = "dataconnect_radius_active" -> active_queries
    [] dataset = "dataconnect_performance" -> performance_queries
    [] dataset = "dataconnect_posture" -> posture_queries
    [] dataset = "dataconnect_endpoints" -> endpoints_queries
    [] dataset = "dataconnect_nad_health" -> nad_queries
    [] dataset = "tacacs_activity" -> activity_queries
    [] dataset = "endpoint_fleet" -> fleet_queries
    [] dataset = "dataconnect_accounting_counters" -> tail_queries
    [] OTHER -> freshness_queries

(* Oracle parses a statement when it is whole and what it names is there;  *)
(* query_many takes no more than five.                                     *)
Parses(q, seen) ==
  q.whole /\ \A r \in q.reads : seen[r.view] # {} /\ r.cols \subseteq seen[r.view]

Runnable(seen) ==
  /\ \A q \in Queries : Parses(q, seen)
  /\ IF dataset = Freshness
     THEN Queries # {} /\ ChunkCount(Cardinality(Queries)) <= MaxBatchQueries
     ELSE Cardinality(Queries) <= MaxBatchQueries

CollectDataset ==
  /\ ready /\ dataset \notin blocked
  /\ outcome' = IF Runnable(catalog) THEN "ok" ELSE "failed"
  /\ UNCHANGED <<dataset, tacacs, lost, schema, ready, drift, blocked>>

-----------------------------------------------------------------------------
(* ISE: columns and views the dataset has to do with come and go. *)
Sources ==
  CASE dataset \in Contracted -> DOMAIN RequiredColumns[dataset]
    [] dataset = "endpoint_fleet" -> {Assessments, Inventory}
    [] dataset = Freshness -> ContractViews
    [] OTHER -> {"RADIUS_ACCOUNTING"}

(* A view, or one of its columns; for the freshness only the timestamps. *)
Losses ==
  LET pairs == UNION {{v} \X Columns[v] : v \in Sources}
      views == {{v} \X Columns[v] : v \in Sources}
  IN  IF dataset = Freshness
      THEN {{p} : p \in {q \in pairs : q[2] \in {TimeColumn(q[1]), "TIMESTAMP_TIMEZONE"}}}
      ELSE {{p} : p \in pairs} \cup views

(* A change adds or removes one of them, also before the inspection. *)
AlterCatalog ==
  /\ drift < MaxDrift
  /\ \E l \in Losses : lost' = IF l \in lost THEN lost \ {l} ELSE lost \cup {l}
  /\ Cardinality(lost') <= MaxLost
  /\ drift' = IF ready THEN drift + 1 ELSE 0
  /\ outcome' = "none"
  /\ UNCHANGED <<dataset, tacacs, schema, ready, blocked>>

SchemaInit ==
  /\ dataset \in SchemaDatasets
  /\ tacacs \in (IF dataset = Freshness THEN BOOLEAN ELSE {TRUE})
  /\ lost \in {{}, Losses}
  /\ schema = <<>> /\ ready = FALSE /\ drift = 0
  /\ blocked = {} /\ outcome = "none"

SchemaNext == inspect_dataconnect_schema \/ CollectDataset \/ AlterCatalog

SchemaSpec == SchemaInit /\ [][SchemaNext]_schemaVars

-----------------------------------------------------------------------------
SchemaTypeOK ==
  /\ dataset \in SchemaDatasets /\ blocked \subseteq Contracted \cup {Freshness}
  /\ ready => \A v \in ContractViews : schema[v] \subseteq Columns[v]
  /\ Cardinality(lost) <= MaxLost \/ lost = Losses
  /\ drift \in 0..MaxDrift
  /\ tacacs \in BOOLEAN /\ ready \in BOOLEAN /\ outcome \in {"none", "ok", "failed"}

(* What the inspection does not look at: a summary view without any        *)
(* dimension, and the views of the two datasets it does not list.          *)
Overlooked ==
  \/ dataset = "dataconnect_radius" /\ schema[Summary] \cap Dimensions = {}
  \/ dataset = "endpoint_fleet" /\ ~({"ID", "TIMESTAMP"} \subseteq schema[Assessments])
  \/ dataset = "dataconnect_accounting_counters"
       /\ "TIMESTAMP" \notin schema["RADIUS_ACCOUNTING"]

(* A column without which a dataset would run but say nothing. *)
Pointless ==
  \/ dataset = "dataconnect_nad_health" /\ "DEVICE_NAME" \notin schema[Summary]
  \/ dataset = "dataconnect_radius" /\ "AUTHORIZATION_POLICY" \notin schema[Week]

(* The inspection and the SQL agree: a dataset it admits never fails over  *)
(* its views and columns before the catalog changes, and a dataset it      *)
(* blocks could not have run, or not usefully (dataconnect_schema.py       *)
(* 335-394 with the statements of the collectors).                         *)
InspectionExact ==
  /\ outcome = "failed" => drift > 0 \/ Overlooked
  /\ ready /\ dataset \in blocked /\ ~Pointless => ~Runnable(schema)
=============================================================================
