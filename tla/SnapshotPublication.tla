-------------------------- MODULE SnapshotPublication --------------------------
(***************************************************************************)
(* The publication boundary between collectors and Prometheus scrapes:     *)
(* snapshots.py, observe()/record_failure() of collectors/__init__.py and  *)
(* the success, persistence, restore and freshness bookkeeping that        *)
(* scheduler.py does around it.  Every dataset runs in its lane, one       *)
(* attempt at a time; the scheduler thread republishes freshness each      *)
(* cycle; the HTTP server scrapes.  The process may die and restart.       *)
(*                                                                         *)
(* A domain snapshot is named by the attempt that collected it, 0 for the  *)
(* empty one of a new process, and so is the completion timestamp in the   *)
(* health metrics.  The domain families are cleared and rebuilt, so their  *)
(* backup is a real copy; the health families are labelled and updated in  *)
(* place, and their backup holds the same child objects.                   *)
(***************************************************************************)
EXTENDS Integers

CONSTANTS Dataset,
          Persisted,    \* _PERSISTED_DATACONNECT_METRICS
          None,         \* no thread, no observation
          Scraper,      \* the HTTP server's thread
          Window,       \* 2 * interval, in ticks
          MaxAttempts,  \* bound: attempts at each dataset
          MaxRestarts   \* bound: restarts of the process

ASSUME PublicationConstants ==
  /\ Persisted \subseteq Dataset
  /\ None \notin Dataset \cup {Scraper} /\ Scraper \notin Dataset
  /\ Window \in Nat /\ MaxAttempts \in Nat /\ MaxRestarts \in Nat

Partial == MaxAttempts + 1   \* domain families cleared and not rebuilt
Old == Window + 1            \* the ages beyond the window are not told apart

VARIABLES
  lock,      \* the thread that holds snapshot_lock
  pc,        \* where the lane of each dataset is
  n,         \* attempts begun
  data,      \* domain snapshot in the registry
  backup,    \* the copy kept during a commit, with the timestamp
  success,   \* ise_dataset_last_success_timestamp
  up,        \* ise_dataset_up
  fresh,     \* ise_dataset_fresh
  detached,  \* a rollback has cleared the health families
  age,       \* now - scheduler.last_success, Old also when there is none
  stored,    \* persisted snapshot: attempt and age; attempt 0 for no row
  fallow,    \* not yet restored or attempted by this process
  freshing,  \* the value the scheduler thread has computed, not yet published
  seen,      \* what the scrape in progress has read
  restarts,  \* restarts so far
  committed  \* ghost: the attempt whose commit or restore succeeded last

health == <<success, up, fresh, detached>>
vars == <<lock, pc, n, data, backup, health, age, stored, fallow, freshing, seen,
          restarts, committed>>

Set(f, d, v) == [f EXCEPT ![d] = v]
Goto(d, l) == pc' = Set(pc, d, l)

Empty == [d \in Dataset |-> 0]
NoBackup == [data |-> 0, time |-> 0]
Never == [d \in Dataset |-> FALSE]

Init ==
  /\ lock = None /\ pc = [d \in Dataset |-> "idle"]
  /\ n = Empty /\ data = Empty /\ success = Empty
  /\ backup = [d \in Dataset |-> NoBackup]
  /\ up = Never /\ fresh = Never /\ detached = FALSE
  /\ age = [d \in Dataset |-> Old]
  /\ stored = [d \in Dataset |-> [attempt |-> 0, age |-> Old]]
  /\ fallow = Persisted /\ freshing = None /\ seen = None
  /\ restarts = 0 /\ committed = Empty

--------------------------------------------------------------------------------
(* The lane of a dataset: observe(), the commit and the rollback *)

\* The scheduler begins an attempt; replacements made by the callback are staged.
Begin(d) ==
  /\ pc[d] = "idle" /\ n[d] < MaxAttempts
  /\ n' = Set(n, d, n[d] + 1)
  /\ fallow' = fallow \ {d}
  /\ Goto(d, "collect")
  /\ UNCHANGED <<lock, data, backup, health, age, stored, freshing, seen, restarts,
                 committed>>

\* The callback raises: the staged replacement is discarded.
CollectFails(d) ==
  /\ pc[d] = "collect"
  /\ Goto(d, "failed")
  /\ UNCHANGED <<lock, n, data, backup, health, age, stored, fallow, freshing, seen,
                 restarts, committed>>

\* commit_metric_snapshots takes the lock, backs up, clears the domain families.
CommitBegin(d) ==
  /\ pc[d] = "collect" /\ lock = None
  /\ lock' = d
  /\ backup' = Set(backup, d, [data |-> data[d], time |-> success[d]])
  /\ data' = Set(data, d, Partial)
  /\ Goto(d, "write")
  /\ UNCHANGED <<n, health, age, stored, fallow, freshing, seen, restarts, committed>>

\* A writer of the domain raises; the health families are untouched.
WriterFails(d) ==
  /\ pc[d] = "write"
  /\ Goto(d, "undo")
  /\ UNCHANGED <<lock, n, data, backup, health, age, stored, fallow, freshing, seen,
                 restarts, committed>>

\* The domain's writers, then publish_success on the health families in place.
WriteAll(d) ==
  /\ pc[d] = "write"
  /\ data' = Set(data, d, n[d])
  /\ success' = Set(success, d, n[d])
  /\ up' = Set(up, d, TRUE) /\ fresh' = Set(fresh, d, TRUE)
  /\ Goto(d, "check")
  /\ UNCHANGED <<lock, n, backup, detached, age, stored, fallow, freshing, seen,
                 restarts, committed>>

\* Both validations pass.
CommitDone(d) ==
  /\ pc[d] = "check"
  /\ lock' = None
  /\ committed' = Set(committed, d, n[d])
  /\ backup' = Set(backup, d, NoBackup)
  /\ Goto(d, "succeeded")
  /\ UNCHANGED <<n, data, health, age, stored, fallow, freshing, seen,
                 restarts>>

\* Too many samples, or a value that is not finite.
CommitRejected(d) ==
  /\ pc[d] = "check"
  /\ Goto(d, "undo")
  /\ UNCHANGED <<lock, n, data, backup, health, age, stored, fallow, freshing, seen,
                 restarts, committed>>

\* Rollback: _metrics.clear() on each family ...
UndoClear(d) ==
  /\ pc[d] = "undo"
  /\ data' = Set(data, d, Partial)
  /\ detached' = TRUE
  /\ Goto(d, "reattach")
  /\ UNCHANGED <<lock, n, backup, success, up, fresh, age, stored, fallow, freshing,
                 seen, restarts, committed>>

\* Mutant: the domain families are not restored.
UndoNothing(d) ==
  /\ pc[d] = "reattach"
  /\ detached' = FALSE
  /\ lock' = None
  /\ Goto(d, "failed")
  /\ UNCHANGED <<n, data, backup, success, up, fresh, age, stored, fallow, freshing,
                 seen, restarts, committed>>

\* ... and _metrics.update(previous): the old domain children with their values,
\* and the health children that existed, with the values publish_success gave
\* them.  Only the timestamp may not have existed (no success so far).
UndoUpdate(d) ==
  /\ pc[d] = "reattach"
  /\ data' = Set(data, d, backup[d].data)
  /\ success' = IF backup[d].time = 0 THEN Set(success, d, 0) ELSE success
  /\ backup' = Set(backup, d, NoBackup)
  /\ detached' = FALSE
  /\ lock' = None
  /\ Goto(d, "failed")
  /\ UNCHANGED <<n, up, fresh, age, stored, fallow, freshing, seen, restarts,
                 committed>>

\* record_failure, under the lock.
RecordFailure(d) ==
  /\ pc[d] = "failed" /\ lock = None
  /\ up' = Set(up, d, FALSE)
  /\ Goto(d, "unsuccessful")
  /\ UNCHANGED <<lock, n, data, backup, success, fresh, detached, age, stored, fallow,
                 freshing, seen, restarts, committed>>

--------------------------------------------------------------------------------
(* The scheduler's bookkeeping after an attempt *)

\* A write to a child of a cleared family goes to a new child, which
\* update(previous) replaces: it is lost.
Publish(d, v) == fresh' = IF detached THEN fresh ELSE Set(fresh, d, v)

\* _run after a success: last_success, the persisted snapshot (a failure to
\* write it is only logged), freshness.
BookSuccess(d) ==
  /\ pc[d] = "succeeded"
  /\ age' = Set(age, d, 0)
  /\ \/ /\ d \in Persisted
        /\ stored' = Set(stored, d, [attempt |-> data[d], age |-> 0])
     \/ UNCHANGED stored
  /\ Publish(d, TRUE)
  /\ Goto(d, "idle")
  /\ UNCHANGED <<lock, n, data, backup, success, up, detached, fallow, freshing, seen,
                 restarts, committed>>

\* Mutant: any past success counts as fresh.
FreshForever(a) == TRUE

\* _update_dataset_freshness.
Fresh(a) == a <= Window

\* _run after a failure: freshness.
BookFailure(d) ==
  /\ pc[d] = "unsuccessful"
  /\ Publish(d, Fresh(age[d]))
  /\ Goto(d, "idle")
  /\ UNCHANGED <<lock, n, data, backup, success, up, detached, age, stored, fallow,
                 freshing, seen, restarts, committed>>

\* The scheduler thread's _update_freshness: read last_success ...
FreshRead(d) ==
  /\ freshing = None
  /\ freshing' = [of |-> d, value |-> Fresh(age[d])]
  /\ UNCHANGED <<lock, pc, n, data, backup, health, age, stored, fallow, seen,
                 restarts, committed>>

\* ... and set the gauge, outside snapshot_lock.
FreshSet ==
  /\ freshing # None
  /\ Publish(freshing.of, freshing.value)
  /\ freshing' = None
  /\ UNCHANGED <<lock, pc, n, data, backup, success, up, detached, age, stored, fallow,
                 seen, restarts, committed>>

--------------------------------------------------------------------------------
(* Scrape *)

\* Mutant: the registry is collected without the lock.
ScrapeUnlocked(d) ==
  /\ lock # Scraper
  /\ lock' = Scraper
  /\ seen' = [of |-> d, data |-> data[d]]
  /\ UNCHANGED <<pc, n, data, backup, health, age, stored, fallow, freshing, restarts,
                 committed>>

\* LockedCollectorRegistry.collect: the lock is held for the whole scrape; the
\* domain families are read ...
ScrapeData(d) ==
  /\ lock = None
  /\ lock' = Scraper
  /\ seen' = [of |-> d, data |-> data[d]]
  /\ UNCHANGED <<pc, n, data, backup, health, age, stored, fallow, freshing, restarts,
                 committed>>

\* ... and the health families.
ScrapeHealth ==
  /\ lock = Scraper
  /\ seen' = None
  /\ lock' = None
  /\ UNCHANGED <<pc, n, data, backup, health, age, stored, fallow, freshing, restarts,
                 committed>>

--------------------------------------------------------------------------------
(* Restart and time *)

\* The process dies and a new one starts with empty metrics.
Restart ==
  /\ restarts < MaxRestarts
  /\ restarts' = restarts + 1
  /\ lock' = None /\ pc' = [d \in Dataset |-> "idle"]
  /\ data' = Empty /\ success' = Empty
  /\ backup' = [d \in Dataset |-> NoBackup]
  /\ up' = Never /\ fresh' = Never /\ detached' = FALSE
  /\ age' = [d \in Dataset |-> Old]
  /\ fallow' = Persisted /\ freshing' = None /\ seen' = None
  /\ committed' = Empty
  /\ UNCHANGED <<n, stored>>

\* Mutant: an attempt of this process does not keep the row from being restored.
RestoreLate(d) ==
  /\ d \in Persisted /\ lock = None /\ pc[d] = "idle"
  /\ stored[d].attempt > 0 /\ stored[d].age <= Window
  /\ data' = Set(data, d, stored[d].attempt)
  /\ committed' = Set(committed, d, stored[d].attempt)
  /\ success' = Set(success, d, stored[d].attempt)
  /\ up' = Set(up, d, TRUE) /\ fresh' = Set(fresh, d, TRUE)
  /\ age' = Set(age, d, stored[d].age)
  /\ fallow' = fallow \ {d}
  /\ UNCHANGED <<lock, pc, n, backup, detached, stored, freshing, seen, restarts>>

\* _restore_dataconnect_state, once the schema is proved: values and validity
\* metadata under one hold of the lock.
Restore(d) ==
  /\ d \in fallow /\ lock = None /\ pc[d] = "idle"
  /\ stored[d].attempt > 0 /\ stored[d].age <= Window
  /\ data' = Set(data, d, stored[d].attempt)
  /\ committed' = Set(committed, d, stored[d].attempt)
  /\ success' = Set(success, d, stored[d].attempt)
  /\ up' = Set(up, d, TRUE) /\ fresh' = Set(fresh, d, TRUE)
  /\ age' = Set(age, d, stored[d].age)
  /\ fallow' = fallow \ {d}
  /\ UNCHANGED <<lock, pc, n, backup, detached, stored, freshing, seen, restarts>>

Older(a) == IF a < Old THEN a + 1 ELSE a

\* Bookkeeping after an attempt takes no time.
Tick ==
  /\ \A d \in Dataset : pc[d] \in {"idle", "collect"}
  /\ age' = [d \in Dataset |-> Older(age[d])]
  /\ stored' = [d \in Dataset |->
                  [attempt |-> stored[d].attempt, age |-> Older(stored[d].age)]]
  /\ UNCHANGED <<lock, pc, n, data, backup, health, fallow, freshing, seen, restarts,
                 committed>>

--------------------------------------------------------------------------------

Lane(d) == \/ CollectFails(d) \/ CommitBegin(d) \/ WriterFails(d) \/ WriteAll(d)
           \/ CommitDone(d) \/ CommitRejected(d) \/ UndoClear(d) \/ UndoUpdate(d)
           \/ RecordFailure(d) \/ BookSuccess(d) \/ BookFailure(d)

Next == \/ \E d \in Dataset : Lane(d) \/ Begin(d) \/ FreshRead(d) \/ ScrapeData(d)
                              \/ Restore(d)
        \/ FreshSet \/ ScrapeHealth \/ Restart \/ Tick

Spec == Init /\ [][Next]_vars

\* Lanes and scrapes go on, and the scheduler thread republishes every dataset's
\* freshness each cycle.
FairSpec ==
  /\ Spec
  /\ WF_vars(FreshSet) /\ WF_vars(ScrapeHealth)
  /\ \A d \in Dataset : WF_vars(Lane(d)) /\ SF_vars(FreshRead(d))

--------------------------------------------------------------------------------
(* Properties *)

Attempt == 0..MaxAttempts

TypeOK ==
  /\ lock \in Dataset \cup {Scraper, None}
  /\ pc \in [Dataset -> {"idle", "collect", "write", "check", "undo", "reattach",
                         "failed", "succeeded", "unsuccessful"}]
  /\ n \in [Dataset -> Attempt] /\ data \in [Dataset -> 0..Partial]
  /\ backup \in [Dataset -> [data : Attempt, time : Attempt]]
  /\ success \in [Dataset -> Attempt]
  /\ up \in [Dataset -> BOOLEAN] /\ fresh \in [Dataset -> BOOLEAN]
  /\ detached \in BOOLEAN /\ age \in [Dataset -> 0..Old]
  /\ stored \in [Dataset -> [attempt : Attempt, age : 0..Old]]
  /\ fallow \subseteq Persisted
  /\ freshing \in {None} \cup [of : Dataset, value : BOOLEAN]
  /\ seen \in {None} \cup [of : Dataset, data : 0..Partial]
  /\ restarts \in 0..MaxRestarts /\ committed \in [Dataset -> Attempt]

\* "A failed collector discards its staged replacement": outside a commit the
\* registry holds the domain snapshot of the last attempt whose commit, or of the
\* persisted row whose restore, succeeded, whatever failed since and however.
DataIsLastGood == \A d \in Dataset : lock # d => data[d] = committed[d]

\* What the registry shows of each dataset: nobody looks during a commit, which
\* goes back to its backup or ends with the new snapshot.
Shown == [d \in Dataset |-> IF lock = d THEN backup[d].data ELSE data[d]]
Durable == [d \in Dataset |-> stored[d].attempt]

Registry == INSTANCE LastGoodRegistry WITH shown <- Shown, durable <- Durable, reading <- seen

\* Commits, rollbacks, restores and scrapes of any number of lanes are to a reader
\* a registry that changes in one step, from one whole snapshot to a newer one; a
\* restored row never replaces what this process has collected
\* (_replace_metric_snapshots, LockedCollectorRegistry.collect,
\* _restore_dataconnect_state).
ImplementsRegistry == Registry!Spec

\* "a scrape observes either the old domain snapshot or the new one", and
\* "Prometheus cannot pair a new snapshot with old health": what one scrape reads
\* is a whole domain snapshot with a completion timestamp no older than it.
ScrapeWhole ==
  [][ScrapeHealth => /\ seen.data # Partial
                     /\ success[seen.of] >= seen.data]_vars

\* Validity metadata is rolled back with the domain: a scrape never reports the
\* completion of an attempt whose snapshot it does not carry.
HealthMatchesData ==
  [][ScrapeHealth => success[seen.of] = seen.data]_vars

\* A dataset without a success inside the window is reported stale in the end,
\* although freshness is computed and published in two unlocked steps that race
\* commits, and a publication that meets another lane's rollback is lost.
StaleIsReported ==
  \A d \in Dataset : age[d] = Old ~> ~fresh[d] \/ age[d] < Old
================================================================================
