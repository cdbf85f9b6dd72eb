------------------------------ MODULE HighWater -----------------------------
(***************************************************************************)
(* The newest activity the state database remembers for each configured    *)
(* object, where two lanes of the exporter meet:                           *)
(*   "account"   internal TACACS users: tacacs_config decides which        *)
(*               accounts exist, tacacs_activity merges their last events; *)
(*   "nad"       network devices: devices hands its inventory to           *)
(*               nad_health, which merges and prunes;                      *)
(*   "endpoint"  endpoint_fleet, which keeps the newest assessment of      *)
(*               every endpoint for Retention.                             *)
(* SQLite lets one connection write at a time; another waits for its busy  *)
(* timeout and then fails.                                                 *)
(***************************************************************************)
EXTENDS Naturals

CONSTANTS Units,       \* accounts, devices or endpoints
          Retention,   \* endpoint_fleet_retention_seconds
          MaxNow,      \* bound: time of the last event
          MaxMoves     \* bound: objects created or removed in ISE

ASSUME MarksAssumption ==
  Retention \in Nat \ {0} /\ MaxNow \in Nat \ {0} /\ MaxMoves \in Nat

Tables == {"account", "nad", "endpoint"}
Lanes == {"config", "activity"}

VARIABLES table,      \* the table this behaviour is about
          now,        \* the wall clock
          real,       \* ISE: [Units -> time of the newest event], 0 for none
          exists,     \* ISE: the objects configured
          moves,      \* changes of exists so far
          mark,       \* persisted: [Units -> newest event known], 0 for none
          accounts,   \* persisted: tacacs.internal_users
          inventory,  \* memory: the scheduler's _nad_inventory
          fresh,      \* memory: that inventory is there
          writer,     \* the lane with a write transaction, or "none"
          cpc, chosen, cread,    \* configuration lane: step, selection, marks read
          apc, known, seen, aread,  \* activity lane: step, names, events, marks read
          shown       \* published: [Units -> newest event]

storeVars == <<mark, accounts, writer>>
memory == <<inventory, fresh>>
config == <<cpc, chosen, cread>>
activity == <<apc, known, seen, aread>>
outside == <<now, real, exists, moves>>
marksVars == <<table, outside, storeVars, memory, config, activity, shown>>

None == [u \in Units |-> 0]
Higher(a, b) == IF a > b THEN a ELSE b

-----------------------------------------------------------------------------
(* ISE: time passes, an object is active, configured or removed. *)
Tick ==
  /\ now < MaxNow
  /\ now' = now + 1
  /\ UNCHANGED <<table, real, exists, moves, storeVars, memory, config, activity, shown>>

Event ==
  /\ \E u \in exists : real' = [real EXCEPT ![u] = now]
  /\ UNCHANGED <<table, now, exists, moves, storeVars, memory, config, activity, shown>>

Reconfigure ==
  /\ moves < MaxMoves
  /\ moves' = moves + 1
  /\ \E u \in Units :
       exists' = IF u \in exists THEN exists \ {u} ELSE exists \cup {u}
  /\ UNCHANGED <<table, now, real, storeVars, memory, config, activity, shown>>

-----------------------------------------------------------------------------
(* The configuration lane lists the objects. *)
ListObjects ==
  /\ cpc = "idle" /\ table # "endpoint"
  /\ chosen' = exists
  /\ cpc' = "details"
  /\ UNCHANGED <<table, outside, storeVars, memory, cread, activity, shown>>

(* tacacs_config leaves its first put uncommitted while it waits for the   *)
(* next answers of ISE.                                                    *)
HoldDetails ==
  /\ cpc = "details" /\ table = "account" /\ writer = "none"
  /\ writer' = "config"
  /\ cpc' = "holding"
  /\ UNCHANGED <<table, outside, mark, accounts, memory, chosen, cread, activity, shown>>

(* The details are finished, with or without a refresh. *)
FinishDetails ==
  /\ table = "account"
  /\ \/ cpc = "details" /\ UNCHANGED writer
     \/ cpc = "holding" /\ writer' = "none"
  /\ cpc' = "sync"
  /\ UNCHANGED <<table, outside, mark, accounts, memory, chosen, cread, activity, shown>>

(* Mutant: the marks are read before the transaction is open. *)
BeginSyncUnlocked ==
  /\ cpc = "sync"
  /\ cread' = mark
  /\ cpc' = "syncing"
  /\ UNCHANGED <<table, outside, storeVars, memory, chosen, activity, shown>>

(* _sync_internal_user_state: BEGIN IMMEDIATE, then read the marks. *)
BeginSync ==
  /\ cpc = "sync" /\ writer = "none"
  /\ writer' = "config"
  /\ cread' = mark
  /\ cpc' = "syncing"
  /\ UNCHANGED <<table, outside, mark, accounts, memory, chosen, activity, shown>>

(* Accounts that left lose their mark; both keys are committed together. *)
EndSync ==
  /\ cpc = "syncing"
  /\ accounts' = chosen
  /\ mark' = [u \in Units |-> IF u \in chosen THEN cread[u] ELSE 0]
  /\ writer' = "none"
  /\ cpc' = "idle" /\ chosen' = {} /\ cread' = None
  /\ UNCHANGED <<table, outside, memory, activity, shown>>

(* devices hands over its inventory. *)
HandOver ==
  /\ cpc = "details" /\ table = "nad"
  /\ inventory' = chosen
  /\ fresh' = TRUE
  /\ cpc' = "idle" /\ chosen' = {}
  /\ UNCHANGED <<table, outside, storeVars, cread, activity, shown>>

(* The collection failed, or its connection waited out the busy timeout:   *)
(* the transaction is rolled back; a failed devices cycle withdraws the    *)
(* inventory.                                                              *)
ConfigFails ==
  /\ cpc # "idle"
  /\ cpc' = "idle" /\ chosen' = {} /\ cread' = None
  /\ writer' = IF writer = "config" THEN "none" ELSE writer
  /\ IF table = "nad" THEN inventory' = {} /\ fresh' = FALSE ELSE UNCHANGED memory
  /\ UNCHANGED <<table, outside, mark, accounts, activity, shown>>

-----------------------------------------------------------------------------
(* An activity collection starts with the names it will ask for; NAD       *)
(* health has none without an inventory.                                   *)
StartActivity ==
  /\ apc = "idle"
  /\ table = "nad" => fresh
  /\ \/ table = "account" /\ known' = accounts
     \/ table = "nad" /\ known' = inventory
     \/ table = "endpoint" /\ known' = Units
  /\ apc' = "query"
  /\ UNCHANGED <<table, outside, storeVars, memory, config, seen, aread, shown>>

(* A bounded report shows an event of the window, not always the newest,   *)
(* or nothing.                                                             *)
Report ==
  \E s \in [Units -> 0..MaxNow] :
    /\ \A u \in Units : s[u] <= real[u]
    /\ seen' = s

QueryKeeps ==
  UNCHANGED <<table, outside, storeVars, memory, config, known, aread, shown>>

QueryAccounts ==
  /\ apc = "query" /\ table = "account"
  /\ Report /\ apc' = "merge"
  /\ QueryKeeps

QueryNads ==
  /\ apc = "query" /\ table = "nad"
  /\ Report /\ apc' = "put"
  /\ QueryKeeps

QueryEndpoints ==
  /\ apc = "query" /\ table = "endpoint"
  /\ Report /\ apc' = "put"
  /\ QueryKeeps

(* _merge_internal_last_seen: BEGIN IMMEDIATE, then the accounts and marks *)
(* of this moment, not those the query was built from.                     *)
BeginMerge ==
  /\ apc = "merge" /\ writer = "none"
  /\ writer' = "activity"
  /\ known' = accounts
  /\ aread' = mark
  /\ apc' = "merging"
  /\ UNCHANGED <<table, outside, mark, accounts, memory, config, seen, shown>>

Merged == [u \in Units |-> IF u \in known THEN Higher(aread[u], seen[u]) ELSE 0]

(* What is shown: the merged marks and what the report itself returned. *)
EndMerge ==
  /\ apc = "merging"
  /\ mark' = Merged
  /\ shown' = [u \in Units |-> Higher(Merged[u], seen[u])]
  /\ writer' = "none"
  /\ apc' = "idle" /\ known' = {} /\ seen' = None /\ aread' = None
  /\ UNCHANGED <<table, outside, accounts, memory, config>>

(* One commit for all rows of a report. *)
PutRows(marks) ==
  /\ apc = "put" /\ writer = "none"
  /\ mark' = marks
  /\ apc' = "prune"
  /\ UNCHANGED <<table, outside, accounts, writer, memory, config, known, seen, aread, shown>>

(* put_nad_activity keeps the newer timestamp of a configured device. *)
PutNads ==
  /\ table = "nad"
  /\ PutRows([u \in Units |-> IF u \in known THEN Higher(mark[u], seen[u]) ELSE mark[u]])

(* put_endpoint_posture replaces the row unless the row is newer. *)
PutEndpoints ==
  /\ table = "endpoint"
  /\ PutRows([u \in Units |-> IF seen[u] >= mark[u] THEN seen[u] ELSE mark[u]])

(* The rows that go go in a second commit; then the rest is shown. *)
PruneRows(expired) ==
  /\ apc = "prune" /\ writer = "none"
  /\ mark' = [u \in Units |-> IF u \in expired THEN 0 ELSE mark[u]]
  /\ shown' = mark'
  /\ apc' = "idle" /\ known' = {} /\ seen' = None
  /\ UNCHANGED <<table, outside, accounts, writer, memory, config, aread>>

PruneNads == table = "nad" /\ PruneRows(Units \ known)

PruneEndpoints ==
  table = "endpoint" /\ PruneRows({u \in Units : mark[u] + Retention < now})

ActivityFails ==
  /\ apc # "idle"
  /\ apc' = "idle" /\ known' = {} /\ seen' = None /\ aread' = None
  /\ writer' = IF writer = "activity" THEN "none" ELSE writer
  /\ UNCHANGED <<table, outside, mark, accounts, memory, config, shown>>

(* The process dies; what was committed is found again. *)
Crash ==
  /\ cpc # "idle" \/ apc # "idle"
  /\ cpc' = "idle" /\ chosen' = {} /\ cread' = None
  /\ apc' = "idle" /\ known' = {} /\ seen' = None /\ aread' = None
  /\ writer' = "none"
  /\ inventory' = {} /\ fresh' = FALSE
  /\ shown' = None
  /\ UNCHANGED <<table, outside, mark, accounts>>

-----------------------------------------------------------------------------
MarksInit ==
  /\ table \in Tables
  /\ now = 1 /\ real = None /\ exists = Units /\ moves = 0
  /\ mark = None /\ accounts = {} /\ writer = "none"
  /\ inventory = {} /\ fresh = FALSE
  /\ cpc = "idle" /\ chosen = {} /\ cread = None
  /\ apc = "idle" /\ known = {} /\ seen = None /\ aread = None
  /\ shown = None

MarksNext ==
  \/ Tick \/ Event \/ Reconfigure
  \/ ListObjects \/ HoldDetails \/ FinishDetails \/ BeginSync \/ EndSync
  \/ HandOver \/ ConfigFails
  \/ StartActivity \/ QueryAccounts \/ QueryNads \/ QueryEndpoints
  \/ BeginMerge \/ EndMerge \/ PutNads \/ PutEndpoints
  \/ PruneNads \/ PruneEndpoints \/ ActivityFails \/ Crash

MarksSpec == MarksInit /\ [][MarksNext]_marksVars

-----------------------------------------------------------------------------
(* Types and bounds. *)
MarksTypeOK ==
  /\ table \in Tables
  /\ now \in 1..MaxNow /\ moves \in 0..MaxMoves
  /\ real \in [Units -> 0..MaxNow] /\ exists \subseteq Units
  /\ mark \in [Units -> 0..MaxNow] /\ accounts \subseteq Units
  /\ inventory \subseteq Units /\ fresh \in BOOLEAN
  /\ writer \in Lanes \cup {"none"}
  /\ cpc \in {"idle", "details", "holding", "sync", "syncing"}
  /\ chosen \subseteq Units /\ cread \in [Units -> 0..MaxNow]
  /\ apc \in {"idle", "query", "merge", "merging", "put", "prune"}
  /\ known \subseteq Units
  /\ seen \in [Units -> 0..MaxNow] /\ aread \in [Units -> 0..MaxNow]
  /\ shown \in [Units -> 0..MaxNow]

(* The newest activity of an object is never forgotten or replaced by      *)
(* older activity while it is configured: an account's mark goes only with *)
(* the account, a device's only with the device, an endpoint's only past   *)
(* its retention, however the two lanes interleave and wherever one stops. *)
MarkKept(u) ==
  mark'[u] < mark[u] =>
    \/ table = "account" /\ (u \notin accounts \/ u \notin accounts')
    \/ table = "nad" /\ u \notin known
    \/ table = "endpoint" /\ mark[u] + Retention < now

HighWaterKept == [][\A u \in Units : MarkKept(u)]_marksVars
=============================================================================
