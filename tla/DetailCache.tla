---------------------------- MODULE DetailCache -----------------------------
(***************************************************************************)
(* One REST collection cycle after another over an inventory of ISE and    *)
(* the cache of its details in the state database: the devices collector   *)
(* (kind "device"), the two caches of tacacs_config ("user", "policy"),    *)
(* mnt_active_posture ("session") and, without details, certificates       *)
(* ("cert") and the devices collector with collect_device_details off      *)
(* ("name").  A cycle lists the inventory, plans which details to ask for  *)
(* again under a budget, asks, prunes the cache to the inventory and       *)
(* publishes.                                                              *)
(*                                                                         *)
(* Time is counted in collection intervals, as the age of a row.  A row    *)
(* older than Ttl keeps only its place in the order of ages.               *)
(***************************************************************************)
EXTENDS RestPaging

CONSTANTS Budgets,        \* [kind -> the configured request budgets to try]
          Limits,         \* [kind -> objects of the inventory it considers]
          MaxHopeless,    \* [kind -> objects whose detail never arrives]
          Ttl,            \* age at which a detail is asked for again
          FailureLimit,   \* failures that end the refresh (3 in the code)
          ListCeiling,    \* mnt_active_posture_max_active_list_sessions
          RequestCeiling, \* DETAIL_REQUEST_CEILING, 250 requests per cycle
          Workers,        \* mnt_active_posture_workers
          Anonymous       \* endpoints listed without session IDs

Kinds == {"device", "user", "policy", "session", "cert", "name"}

(* The budgets of tacacs_config are cut to a range the collector has fixed. *)
ASSUME CacheAssumption ==
  /\ Budgets \in [Kinds -> SUBSET Nat]
  /\ \A k \in {"user", "policy"} : Budgets[k] \subseteq 1..RequestCeiling
  /\ Limits \in [Kinds -> Nat]
  /\ MaxHopeless \in [Kinds -> Nat]
  /\ Ttl \in Nat \ {0} /\ FailureLimit \in Nat \ {0}
  /\ ListCeiling \in Nat \ {0} /\ RequestCeiling \in Nat \ {0}
  /\ Workers \in Nat \ {0}
  /\ Anonymous \subseteq Objects

VARIABLES kind,      \* the collector
          budget,    \* its configured budget; 0 sizes it automatically
          embeds,    \* device: the list carries the details
          hopeless,  \* objects whose detail requests always fail
          pc,        \* the step of the cycle
          listed,    \* [object -> version] of the accepted inventory
          row,       \* committed cache: [Objects -> row]
          tx,        \* the cache as the cycle's connection sees it
          plan,      \* details still to ask for, in order
          failures,  \* device: failures in a row; user, policy: failures
          pub        \* published details: [object -> [ver, sig]]

cacheVars == <<kind, budget, embeds, hopeless, pc, listed, row, tx, plan,
               failures, pub>>
vars == <<pagingVars, cacheVars>>

(* A row of the cache: the version of the detail, the Signature the list   *)
(* gave when it was asked for, the ages of updated_at and of last_seen.    *)
(* Version 0 is a row the reader finds invalid.                            *)
NoRow == [ver |-> 0, sig |-> 0, age |-> 0, seen |-> 0, there |-> FALSE]
Row(v, s) == [ver |-> v, sig |-> s, age |-> 0, seen |-> 0, there |-> TRUE]

Cached(o) == tx[o].there
(* s[:n] *)
Take(s, n) == SubSeq(s, 1, Least(n, Len(s)))

Smallest(S, n) == {o \in S : Cardinality({p \in S : p < o}) < n}

(* heapq.nsmallest by name, or the first by the hash of the MAC. *)
Selected == Smallest(DOMAIN listed, Limits[kind])

CeilDiv(a, b) == (a + b - 1) \div b

-----------------------------------------------------------------------------
(* Ages grow by one; beyond Ttl only their order is kept. *)
Older(ages, a) ==
  IF a < Ttl THEN a + 1
  ELSE Ttl + Cardinality({b \in ages : Ttl <= b /\ b <= a})

Aged ==
  LET ages == {row[o].age : o \in {p \in Objects : row[p].there}}
  IN  [o \in Objects |->
         IF ~row[o].there THEN NoRow
         ELSE [row[o] EXCEPT !.age = Older(ages, @),
                             !.seen = IF kind = "session" THEN Least(@ + 1, Ttl + 1)
                                      ELSE 0]]

(* The scheduler starts the next cycle one interval later. *)
BeginCycle ==
  /\ pc = "idle"
  /\ row' = Aged
  /\ tx' = Aged
  /\ pc' = IF kind \in {"session", "policy"} THEN "ask" ELSE "list"
  /\ UNCHANGED <<pagingVars, kind, budget, embeds, hopeless, listed, plan,
                 failures, pub>>

(* The lane was late by an interval more. *)
Late ==
  /\ pc = "idle"
  /\ row' = Aged
  /\ tx' = Aged
  /\ UNCHANGED <<pagingVars, kind, budget, embeds, hopeless, pc, listed, plan,
                 failures, pub>>

(* Mutant: the rows of the failed cycle are still seen by the next one. *)
GiveUpOpen ==
  /\ pc' = "idle"
  /\ listed' = <<>>
  /\ plan' = <<>>
  /\ failures' = 0
  /\ UNCHANGED <<kind, budget, embeds, hopeless, row, tx, pub>>

(* CollectorFailed, an exception or a crash: the connection is closed      *)
(* without a commit and the last snapshot stays.                           *)
GiveUp ==
  /\ pc' = "idle"
  /\ tx' = row
  /\ listed' = <<>>
  /\ plan' = <<>>
  /\ failures' = 0
  /\ UNCHANGED <<kind, budget, embeds, hopeless, row, pub>>

(* The enumerations of RestPaging. *)
ReadPages ==
  /\ pc = "list"
  /\ OpenList \/ RefuseLink \/ FollowLink \/ CloseList(kind # "cert")
  /\ UNCHANGED cacheVars

(* No list, or one with an id twice, fails the cycle. *)
Distinct(rows) == \A i, j \in 1..Len(rows) : rows[i].id = rows[j].id => i = j

AsInventory(rows) ==
  [o \in {rows[i].id : i \in 1..Len(rows)} |->
     (CHOOSE r \in ToSet(rows) : r.id = o).ver]

Listed ==
  /\ pc = "list"
  /\ \/ /\ list.st = "failed" \/ (list.st = "ok" /\ ~Distinct(list.rows))
        /\ GiveUp
     \/ /\ list.st = "ok" /\ Distinct(list.rows)
        /\ listed' = AsInventory(list.rows)
        /\ pc' = IF kind \in {"cert", "name"} THEN "publish" ELSE "plan"
        /\ UNCHANGED <<kind, budget, embeds, hopeless, row, tx, plan, failures, pub>>
  /\ list' = NoList
  /\ UNCHANGED <<ise, changes, faults, opened, moved, lied>>

(* ActiveCount: above the ceiling the list is never asked for, and with no *)
(* session it is known to be empty.                                        *)
Preflight ==
  /\ pc = "ask" /\ kind = "session"
  /\ \/ Cardinality(Present) > ListCeiling /\ GiveUp
     \/ /\ Cardinality(Present) \in 1..ListCeiling
        /\ pc' = "list1"
        /\ UNCHANGED <<kind, budget, embeds, hopeless, listed, row, tx, plan,
                       failures, pub>>
  /\ UNCHANGED pagingVars

NoSessions ==
  /\ pc = "ask" /\ kind = "session" /\ Present = {}
  /\ listed' = <<>>
  /\ pc' = "plan"
  /\ opened' = {} /\ moved' = FALSE /\ lied' = FALSE
  /\ UNCHANGED <<ise, changes, faults, list, kind, budget, embeds, hopeless, row, tx,
                 plan, failures, pub>>

(* A list in one answer: the policy sets, or ActiveList, whose total must  *)
(* be its length and which is refused above the ceiling.                   *)
ListAtOnce ==
  /\ \/ pc = "ask" /\ kind = "policy"
     \/ pc = "list1"
  /\ IF kind = "session" /\ Cardinality(Present) > ListCeiling
     THEN GiveUp
     ELSE /\ listed' = [o \in Present |-> ise[o]]
          /\ pc' = "plan"
          /\ UNCHANGED <<kind, budget, embeds, hopeless, row, tx, plan, failures, pub>>
  /\ opened' = Present /\ moved' = FALSE /\ lied' = FALSE
  /\ UNCHANGED <<ise, changes, faults, list>>

-----------------------------------------------------------------------------
(* Reading the entries deletes the selected rows that are invalid. *)
Readable == [o \in Objects |-> IF o \in Selected /\ tx[o].ver = 0 THEN NoRow ELSE tx[o]]

(* Some ERS versions put the details in the list. *)
WithEmbedded(view) ==
  [o \in Objects |-> IF embeds /\ o \in DOMAIN listed
                     THEN Row(listed[o], 0) ELSE view[o]]

(* Never cached first, then the oldest, then by id. *)
Before(view, a, b) ==
  \/ ~view[a].there /\ view[b].there
  \/ /\ view[a].there = view[b].there
     /\ \/ view[a].age > view[b].age
        \/ view[a].age = view[b].age /\ a < b

InOrder(view, S) == Ordered(S, LAMBDA a, b : Before(view, a, b))

Uncached(view) == {o \in Selected : ~view[o].there}

(* How many rows a cycle renews so that the inventory is renewed once per  *)
(* Ttl: the cycle's interval is the unit of time.                          *)
RotationTarget == CeilDiv(Cardinality(Selected), Ttl)

(* devices: what is missing or past its Ttl, with a budget of its own or   *)
(* one sized to the missing rows and the rotation.                         *)
DevicePlan(view) ==
  LET stale == {o \in Selected : ~view[o].there \/ view[o].age > Ttl}
      n == IF budget = 0 THEN Cardinality(Uncached(view)) + RotationTarget ELSE budget
  IN  Take(InOrder(view, stale), Least(RequestCeiling, n))

(* tacacs_config: what is missing or has reached its Ttl, up to a limit. *)
TacacsPlan(view) ==
  LET stale == {o \in Selected : ~view[o].there \/ view[o].age >= Ttl}
  IN  Take(InOrder(view, stale), budget)

(* What the cache key tells of a listed session: the session itself, or,   *)
(* where ISE omits the session IDs, no more than the endpoint (the MAC, or *)
(* a server and a method), which its next session has too.                 *)
Signature(o) == IF o \in Anonymous THEN 0 ELSE listed[o]

(* mnt_active_posture: missing or of another signature, then expired, then *)
(* the oldest up to the rotation's target.                                 *)
Mandatory(view) ==
  {o \in Selected : ~view[o].there \/ view[o].sig # Signature(o)}

(* Mutant: a session that does not change is never asked for again. *)
MandatoryOnly(view) ==
  Take(ById(Mandatory(view)), Least(RequestCeiling, budget))

SessionPlan(view) ==
  LET mandatory == Mandatory(view)
      rest == Selected \ mandatory
      expired == {o \in rest : view[o].age >= Ttl}
      turn == {o \in rest : Cardinality({p \in rest : Before(view, p, o)}) < RotationTarget}
      refresh == ById(mandatory) \o InOrder(view, expired)
                                 \o InOrder(view, turn \ expired)
  IN  Take(refresh, Least(RequestCeiling, budget))

Plan ==
  /\ pc = "plan"
  /\ LET view == WithEmbedded(Readable) IN
     /\ tx' = view
     /\ row' = Readable
     /\ plan' = CASE kind = "device" -> DevicePlan(view)
                  [] kind = "session" -> SessionPlan(view)
                  [] OTHER -> TacacsPlan(view)
  /\ pc' = "fetch"
  /\ failures' = 0
  /\ UNCHANGED <<pagingVars, kind, budget, embeds, hopeless, listed, pub>>

Answers(o) == o \notin hopeless /\ ise[o] # 0

(* The object is gone, its detail never comes, or this request failed. *)
NoAnswer(o) ==
  \/ ~Answers(o) /\ UNCHANGED faults
  \/ Answers(o) /\ faults < MaxFaults /\ faults' = faults + 1

(* The detail is what ISE holds now. *)
Put(o, sig) == [tx EXCEPT ![o] = Row(ise[o], sig)]
Asking(k) == kind = k /\ pc = "fetch" /\ plan # <<>>

FetchKeeps ==
  UNCHANGED <<ise, changes, list, opened, moved, lied, kind, budget, embeds,
              hopeless, pc, listed, pub>>

(* devices commits every row and counts the failures since the last one. *)
FetchDevice ==
  /\ Asking("device") /\ Answers(Head(plan))
  /\ tx' = Put(Head(plan), 0)
  /\ row' = tx'
  /\ plan' = Tail(plan)
  /\ failures' = 0
  /\ UNCHANGED faults /\ FetchKeeps

(* What is left to ask for after a failure: nothing at the limit. *)
AfterFailure == IF failures + 1 >= FailureLimit THEN <<>> ELSE Tail(plan)

RefuseDevice ==
  /\ Asking("device") /\ NoAnswer(Head(plan))
  /\ plan' = AfterFailure
  /\ failures' = failures + 1
  /\ UNCHANGED <<row, tx>> /\ FetchKeeps

(* tacacs_config leaves its transaction open until the cycle is finished   *)
(* and counts all failures.                                                *)
PutOpen ==
  /\ Answers(Head(plan))
  /\ tx' = Put(Head(plan), 0)
  /\ plan' = Tail(plan)
  /\ UNCHANGED <<faults, row, failures>> /\ FetchKeeps

KeepCached ==
  /\ NoAnswer(Head(plan))
  /\ plan' = AfterFailure
  /\ failures' = failures + 1
  /\ UNCHANGED <<row, tx>> /\ FetchKeeps

FetchUser == Asking("user") /\ PutOpen
RefuseUser == Asking("user") /\ KeepCached

(* The rules of a policy set: two requests, of which neither may fail. *)
FetchPolicy == Asking("policy") /\ PutOpen
RefusePolicy == Asking("policy") /\ KeepCached

(* The workers of mnt_active_posture ask for a few details at a time and   *)
(* get them in any order; what arrived is stored with the signature of the *)
(* list when all have answered, and no number of failures ends the cycle.  *)
NextRequests == 1..Least(Workers, Len(plan))

FetchSession ==
  /\ Asking("session")
  /\ \E i \in NextRequests :
       /\ Answers(plan[i])
       /\ tx' = Put(plan[i], Signature(plan[i]))
       /\ plan' = RemoveAt(plan, i)
  /\ UNCHANGED <<faults, row, failures>> /\ FetchKeeps

RefuseSession ==
  /\ Asking("session")
  /\ \E i \in NextRequests : NoAnswer(plan[i]) /\ plan' = RemoveAt(plan, i)
  /\ UNCHANGED <<row, tx, failures>> /\ FetchKeeps

Fetch ==
  \/ FetchDevice \/ RefuseDevice \/ FetchUser \/ RefuseUser
  \/ FetchPolicy \/ RefusePolicy \/ FetchSession \/ RefuseSession

(* Rows of the selection are marked as seen; the others are deleted, a     *)
(* session's once it was not seen for longer than Ttl.                     *)
Pruned ==
  [o \in Objects |-> IF tx[o].there /\ o \in Selected
                     THEN [tx[o] EXCEPT !.seen = 0]
                     ELSE IF kind = "session" /\ tx[o].seen <= Ttl THEN tx[o]
                     ELSE NoRow]

FinishCycle ==
  /\ pc = "fetch" /\ plan = <<>>
  /\ tx' = Pruned
  /\ row' = Pruned
  /\ pc' = "publish"
  /\ failures' = 0
  /\ UNCHANGED <<pagingVars, kind, budget, embeds, hopeless, listed, plan, pub>>

(* A snapshot: the version of each detail and of the inventory it is for. *)
Show(S) == [o \in S |-> [ver |-> tx[o].ver, sig |-> listed[o]]]

Publishes(snapshot) ==
  /\ pub' = snapshot
  /\ pc' = "idle"
  /\ listed' = <<>>
  /\ UNCHANGED <<pagingVars, kind, budget, embeds, hopeless, row, tx, plan, failures>>

(* Without details the inventory is all there is. *)
PublishInventory ==
  /\ pc = "publish" /\ kind \in {"cert", "name"}
  /\ Publishes([o \in DOMAIN listed |-> [ver |-> listed[o], sig |-> listed[o]]])

PublishDevices ==
  /\ pc = "publish" /\ kind = "device"
  /\ Publishes(Show({o \in Selected : Cached(o)}))

PublishTacacs ==
  /\ pc = "publish" /\ kind \in {"user", "policy"}
  /\ Publishes(Show({o \in Selected : Cached(o)}))

(* Mutant: what is cached is published, whatever session it is of. *)
AnyCached == {o \in Selected : Cached(o)}

(* The details whose signature is the one the list gives now. *)
Usable == {o \in Selected : Cached(o) /\ tx[o].sig = Signature(o)}

PublishSessions ==
  /\ pc = "publish" /\ kind = "session"
  /\ IF Selected # {} /\ Usable = {} THEN GiveUp /\ UNCHANGED pagingVars
                                      ELSE Publishes(Show(Usable))

(* A request, the database or a later stage of the collector fails. *)
Abort ==
  /\ pc # "idle"
  /\ faults < MaxFaults
  /\ faults' = faults + 1
  /\ list' = NoList
  /\ GiveUp
  /\ UNCHANGED <<ise, changes, opened, moved, lied>>

-----------------------------------------------------------------------------
Init ==
  /\ kind \in Kinds
  /\ budget \in Budgets[kind]
  /\ embeds \in IF kind = "device" THEN BOOLEAN ELSE {FALSE}
  /\ hopeless \in {H \in SUBSET Objects : Cardinality(H) <= MaxHopeless[kind]}
  /\ pc = "idle"
  /\ listed = <<>> /\ plan = <<>> /\ failures = 0 /\ pub = <<>>
  /\ row \in IF kind \in {"cert", "name"} THEN {[o \in Objects |-> NoRow]}
             ELSE {[o \in Objects |-> NoRow],
                   [o \in Objects |-> Row(1, IF kind = "session" /\ o \notin Anonymous
                                             THEN 1 ELSE 0)],
                   [o \in Objects |-> Row(0, 0)]}
  /\ tx = row
  /\ ise \in [Objects -> {0, 1}]
  /\ changes = 0 /\ faults = 0
  /\ list = NoList
  /\ opened = Present /\ moved = FALSE /\ lied = FALSE

IseStep == Change /\ UNCHANGED cacheVars

Cycle ==
  \/ BeginCycle \/ ReadPages \/ Listed \/ Preflight \/ NoSessions \/ ListAtOnce
  \/ Plan \/ Fetch \/ FinishCycle
  \/ PublishInventory \/ PublishDevices \/ PublishTacacs \/ PublishSessions
  \/ Abort

Next == Cycle \/ Late \/ IseStep

(* The lane of the collector runs its cycles again and again. *)
Spec == Init /\ [][Next]_vars /\ WF_vars(Cycle)

-----------------------------------------------------------------------------
MaxAge == Ttl + Cardinality(Objects)

(* Types and bounds: between two cycles the view of the cache is what was  *)
(* committed, ages stay bounded, and what a cycle asks for stays within    *)
(* the ceiling and within the budget that is configured.                   *)
TypeOK ==
  /\ PagingTypeOK
  /\ kind \in Kinds
  /\ pc \in {"idle", "list", "ask", "list1", "plan", "fetch", "publish"}
  /\ DOMAIN listed \subseteq Objects /\ DOMAIN pub \subseteq Objects
  /\ \A o \in Objects : /\ row[o].age \in 0..MaxAge /\ tx[o].age \in 0..MaxAge
                        /\ row[o].seen \in 0..(Ttl + 1)
  /\ pc = "idle" => tx = row
  /\ failures \in 0..FailureLimit
  /\ Len(plan) <= RequestCeiling /\ (budget # 0 => Len(plan) <= budget)

(* An inventory that did not change while it was read is accepted whole or *)
(* not at all, whatever the server answers, except that get_pan_api_all    *)
(* has no total that would show a missing link.                            *)
ListWhole ==
  pc \in {"plan", "fetch", "publish"} /\ ~moved /\ (kind = "cert" => ~lied)
    => DOMAIN listed = opened

(* Where ISE lists session IDs, what is published of a session is never    *)
(* the detail of an older one, although the cache outlives the session, a  *)
(* request may fail and the list is older than the details.  It is false   *)
(* of an anonymous endpoint, whose old session has the signature of the    *)
(* new one: the cached detail passes until the rotation renews it, which   *)
(* is what Refreshed says.                                                 *)
NoOlderSession ==
  kind = "session" => \A o \in DOMAIN pub \ Anonymous : pub[o].ver >= pub[o].sig

(* The two together: a snapshot speaks of what ISE holds. *)
PublicationFaithful == ListWhole /\ NoOlderSession

(* The requests a cycle has for rows it would only renew. *)
Capacity ==
  LET n == Cardinality(Smallest(Present, Limits[kind])) IN
  CASE kind = "session" -> budget
    [] kind = "device" /\ budget = 0 -> Least(FailureLimit, CeilDiv(n, Ttl))
    [] OTHER -> Least(FailureLimit, budget)

Held(o) ==
  /\ o \in Smallest(Present, Limits[kind]) \ hopeless
  /\ Cardinality(hopeless \cap Present) < Capacity
  /\ kind = "session" => Cardinality(Present) <= ListCeiling

(* An object that stays in the selection and whose detail can be had is    *)
(* refreshed again and again, whatever is asked for before it, as long as  *)
(* the objects whose detail never comes are fewer than the requests of a   *)
(* cycle: those stay the oldest and are asked for first in every cycle.    *)
Refreshed ==
  \A o \in Objects :
    (kind \notin {"cert", "name"} /\ <>[]Held(o))
      => []<>(row[o].there /\ row[o].age = 0)
=============================================================================
