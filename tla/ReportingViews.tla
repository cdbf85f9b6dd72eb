--------------------------- MODULE ReportingViews ---------------------------
(***************************************************************************)
(* What the aggregate collectors make of an ISE log view.  ISE writes      *)
(* records of things (RADIUS sessions, endpoints) with the time of the     *)
(* event; they reach the view later, in any order, and get ids in the      *)
(* order they arrive.  A collector asks one SQL statement of a time        *)
(* window of the view, gets at most so many groups back, and publishes     *)
(* them with totals that ride on their first row:                          *)
(*   "active"   dataconnect_radius.collect_active: the sessions whose      *)
(*              latest accounting record is not a stop;                    *)
(*   "posture"  dataconnect_posture.collect: the latest assessment of each *)
(*              endpoint, and how many eligible endpoints have one;        *)
(*   "events"   dataconnect_radius.collect_reporting: all records.         *)
(***************************************************************************)
EXTENDS Naturals, Sequences, FiniteSets, SequencesExt

CONSTANTS Things,       \* sessions or endpoints, numbered
          Namings,      \* [Things -> device_name] to try; "null" is SQL's NULL
          Eligible,     \* endpoints that posture applies to
          Window,       \* length of the scanned window
          GroupLimits,  \* dataconnect_max_groups
          MaxClock,     \* bound: the last time
          MaxSent,      \* bound: [view -> records written]
          MaxLapses     \* bound: records without the preferred identifier

Views == {"active", "posture", "events"}

ASSUME ReportsAssumption ==
  /\ Things \subseteq Nat /\ IsFiniteSet(Things) /\ Eligible \subseteq Things
  /\ Namings \subseteq [Things -> STRING]
  /\ Window \in Nat /\ GroupLimits \subseteq Nat \ {0}
  /\ MaxClock \in Nat /\ MaxSent \in [Views -> Nat] /\ MaxLapses \in Nat

VARIABLES view,      \* the collector
          limit,     \* its group limit
          hasName,   \* the view has the column that names the device
          name,      \* [Things -> its device_name]
          clock,
          truth,     \* [Things -> the status of its last record]
          sent,      \* [Things -> records written]
          lapses,
          waiting,   \* records written and not yet in the view
          log,       \* the view; a row's id is its index
          report     \* what is published

worldVars == <<clock, truth, sent, lapses, waiting, log>>
viewVars == <<view, limit, hasName, name>>
reportsVars == <<viewVars, worldVars, report>>

Live == {"start", "interim"}
Failed == "failed"                         \* noncompliant, failed, error
Statuses == IF view = "posture" THEN {"compliant", Failed, "pending"}
            ELSE Live \cup {"stop"}
\* Audit id or MAC, session id, for accounting the id of the account, or none;
\* a plain count does not look at them.
Identifiers == CASE view = "events" -> {"first"}
                 [] view = "posture" -> {"first", "second", "none"}
                 [] OTHER -> {"first", "second", "account", "none"}

-----------------------------------------------------------------------------
(* ISE.  A report depends on no earlier one: a behaviour has the log up to *)
(* its first report.                                                       *)
Logging == ~report.made

Follows(st, next) ==
  IF view = "posture" THEN TRUE
  ELSE IF next = "start" THEN st = "new" ELSE st \in Live

Written == Cardinality(waiting) + Len(log)

Emit(x, st, by) ==
  /\ Logging /\ Written < MaxSent[view]
  /\ Follows(truth[x], st)
  /\ lapses' = IF by = "first" THEN lapses ELSE lapses + 1
  /\ lapses' <= MaxLapses
  /\ truth' = [truth EXCEPT ![x] = st]
  /\ sent' = [sent EXCEPT ![x] = @ + 1]
  /\ waiting' = waiting \cup {[thing |-> x, at |-> clock, status |-> st, by |-> by,
                               nth |-> sent[x] + 1]}
  /\ UNCHANGED <<viewVars, clock, log, report>>

Arrive(r) ==
  /\ Logging /\ r \in waiting
  /\ waiting' = waiting \ {r}
  /\ log' = Append(log, r)
  /\ UNCHANGED <<viewVars, clock, truth, sent, lapses, report>>

ClockTick ==
  /\ Logging /\ clock < MaxClock
  /\ clock' = clock + 1
  /\ UNCHANGED <<viewVars, truth, sent, lapses, waiting, log, report>>

-----------------------------------------------------------------------------
(* The statement.  recent_event_predicate: timestamp >= now - window. *)
Recent == {i \in 1..Len(log) : log[i].at + Window >= clock}

(* schema_projection: the column, or a literal where the view lacks it. *)
Column(i) == IF hasName THEN name[log[i].thing] ELSE "unknown"

(* session_key and identity_expression: an identifier after its kind, the  *)
(* account's with the device.  Accounting rows without any identifier are  *)
(* left out; each such assessment stands for itself.                       *)
Key(i) ==
  CASE log[i].by = "none" -> <<"row", i>>
    [] log[i].by = "account" -> <<"account", log[i].thing, Column(i)>>
    [] OTHER -> <<log[i].by, log[i].thing>>

Keyed == IF view = "active" THEN {i \in Recent : log[i].by # "none"} ELSE Recent

(* ROW_NUMBER() OVER (PARTITION BY key ORDER BY event_time DESC, id DESC)  *)
(* is 1.                                                                   *)
LaterRow(i, j) == log[i].at < log[j].at \/ (log[i].at = log[j].at /\ i < j)

(* Mutant: the row that came last, whatever its event time. *)
LastArrived == {i \in Keyed : \A j \in Keyed : Key(i) = Key(j) => j <= i}

Latest == {i \in Keyed : \A j \in Keyed : Key(i) = Key(j) => ~LaterRow(i, j)}

Counted == CASE view = "active" -> {i \in Latest : log[i].status \in Live}
             [] view = "posture" -> Latest
             [] OTHER -> Recent

Group(i) == <<Column(i), IF view = "posture" THEN log[i].status ELSE "any">>
Groups == {Group(i) : i \in Counted}
Size(g) == Cardinality({i \in Counted : Group(i) = g})

(* group_rank: the largest groups first, equal ones in any order. *)
Ranked == {q \in SetToSeqs(Groups) :
             \A i \in 1..(Len(q) - 1) : Size(q[i]) >= Size(q[i + 1])}

(* LEFT JOIN latest_posture ON the MAC. *)
Assessed == {x \in Eligible : \E i \in Latest : Key(i) = <<"first", x>>}

-----------------------------------------------------------------------------
(* The collector.  metric_label: a blank name becomes "unknown". *)
Label(g) == <<IF g[1] = "null" THEN "unknown" ELSE g[1], g[2]>>

(* One .labels(...).set(...) per row: of two rows with the same labels the *)
(* later one stays.                                                        *)
Series(rows) ==
  [l \in {Label(g) : g \in ToSet(rows)} |->
     Size(rows[CHOOSE i \in 1..Len(rows) :
                 /\ Label(rows[i]) = l
                 /\ \A j \in (i + 1)..Len(rows) : Label(rows[j]) # l])]

Having(status) == Cardinality({i \in Counted : log[i].status = status})

(* The sums and counts OVER () ride on every row: without a row they are   *)
(* missing, and integer(None) is 0.                                        *)
OnFirstRow(rows, n) == IF rows = <<>> THEN 0 ELSE n

NoReport == [made |-> FALSE, total |-> 0, groups |-> 0, returned |-> 0, truncated |-> FALSE,
             series |-> <<>>, compliant |-> 0, failed |-> 0,
             eligible |-> 0, assessed |-> 0, unassessed |-> 0,
             distinct |-> TRUE, known |-> FALSE, facts |-> [total |-> 0, compliant |-> 0,
                                                          assessed |-> 0]]

(* Nothing of the window is still on its way, every record names its       *)
(* thing alike, and records of one moment arrived in their order.          *)
WellLogged ==
  /\ waiting = {}
  /\ \A i \in Recent : log[i].by = "first"
  /\ \A i, j \in Recent : i < j /\ log[i].thing = log[j].thing /\ log[i].at = log[j].at
                            => log[i].nth < log[j].nth

HeardOf == {log[i].thing : i \in Recent}

(* What was the case when the statement ran. *)
Facts ==
  CASE view = "active" -> [total |-> Cardinality({x \in HeardOf : truth[x] \in Live}),
                           compliant |-> 0, assessed |-> 0]
    [] view = "posture" -> [total |-> Cardinality(HeardOf),
                            compliant |-> Cardinality({x \in HeardOf : truth[x] = "compliant"}),
                            assessed |-> Cardinality(HeardOf \cap Eligible)]
    [] OTHER -> [total |-> Cardinality(Recent), compliant |-> 0, assessed |-> 0]

(* A snapshot of the groups in rows, of ranked ones in all. *)
Snapshot(rows, all) ==
  [NoReport EXCEPT !.made = TRUE,
                   !.total = OnFirstRow(rows, Cardinality(Counted)),
                   !.groups = OnFirstRow(rows, all),
                   !.returned = Len(rows),
                   !.truncated = Len(rows) < OnFirstRow(rows, all),
                   !.series = Series(rows),
                   !.distinct = \A g, h \in ToSet(rows) : Label(g) = Label(h) => g = h,
                   !.known = WellLogged,
                   !.facts = Facts]

Top(q) == SubSeq(q, 1, IF Len(q) < limit THEN Len(q) ELSE limit)

Collects(collector, published) ==
  /\ view = collector
  /\ report' \in published
  /\ UNCHANGED <<viewVars, worldVars>>

Snapshots == {Snapshot(Top(q), Len(q)) : q \in Ranked}

collect_active == Collects("active", Snapshots)
collect_reporting == Collects("events", Snapshots)

(* posture: two totals more on the rows, and a row of its own for the      *)
(* coverage, which is there whatever the groups.                           *)
PostureSnapshot(rows, all) ==
  [Snapshot(rows, all) EXCEPT !.compliant = OnFirstRow(rows, Having("compliant")),
                              !.failed = OnFirstRow(rows, Having(Failed)),
                              !.eligible = Cardinality(Eligible),
                              !.assessed = Cardinality(Assessed),
                              !.unassessed = Cardinality(Eligible \ Assessed)]

collect_posture ==
  Collects("posture", {PostureSnapshot(Top(q), Len(q)) : q \in Ranked})

-----------------------------------------------------------------------------
ReportsInit ==
  /\ view \in Views
  /\ limit \in GroupLimits
  /\ hasName \in BOOLEAN
  /\ name \in Namings
  /\ clock = 0
  /\ truth = [x \in Things |-> "new"]
  /\ sent = [x \in Things |-> 0]
  /\ lapses = 0
  /\ waiting = {}
  /\ log = <<>>
  /\ report = NoReport

ReportsNext ==
  \/ \E x \in Things, st \in Statuses, by \in Identifiers : Emit(x, st, by)
  \/ \E r \in waiting : Arrive(r)
  \/ ClockTick
  \/ collect_active \/ collect_reporting \/ collect_posture

ReportsSpec == ReportsInit /\ [][ReportsNext]_reportsVars

-----------------------------------------------------------------------------
(* Every session that was heard of in the window and has not stopped is    *)
(* counted, and no other; every endpoint counts once, with its latest      *)
(* result; once the records have arrived, whatever their order, and        *)
(* however many groups are cut off.                                        *)
CountsTrue ==
  report.known =>
    /\ report.total = report.facts.total
    /\ view = "posture" => /\ report.compliant = report.facts.compliant
                           /\ report.assessed = report.facts.assessed

(* The sum of the published values: the number of the points <<label, k>>  *)
(* with k from 1 up to the label's value.                                  *)
Points(series) == UNION {{l} \X (1..series[l]) : l \in DOMAIN series}
SeriesSum == Cardinality(Points(report.series))

(* The published series never exceed the totals beside them, and add up to *)
(* them unless a truncation is reported or two rows share their labels.    *)
SeriesWithinTotal ==
  /\ SeriesSum <= report.total
  /\ ~report.truncated /\ report.distinct => SeriesSum = report.total

(* The parts of posture never exceed their whole, and the two of its       *)
(* coverage make it up.                                                    *)
PartsOfWhole ==
  /\ report.compliant + report.failed <= report.total
  /\ report.assessed + report.unassessed = report.eligible

(* A report of the aggregate collectors is true of the log and of itself. *)
ReportFaithful == CountsTrue /\ SeriesWithinTotal /\ PartsOfWhole
=============================================================================
