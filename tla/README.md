# Verification of the ISE exporter

TLA+ models of the ISE exporter, the TLC runs that check them and the TLAPS
proofs about them. Paths below are relative to the repository root
(`ise_exporter/...`); `PROJECT.json` maps every definition to its source lines.

## 1. The system

The exporter polls a Cisco ISE deployment over three transports and publishes
Prometheus metrics. An operator CLI uses the same clients from its own process.

| Component | State | Operations | Talks to |
|---|---|---|---|
| `scheduler.py` PollScheduler, scheduler thread | `next_run`, `_scheduled_delay`, `last_success`, lane flags | `loop`, `run_cycle`, `_update_freshness`, start/stop of workers | every lane, metrics |
| `scheduler.py` Data Connect lane | aging queue, `_dataconnect_inflight`, `_dataconnect_queued_at`, `_dataconnect_busy`, schema readiness and failures, worker thread | `_run_dataconnect`, `_dataconnect_worker_loop`, `_start_/_stop_dataconnect_worker`, `_collect_dataconnect_schema`, `_restore_dataconnect_state` | collectors, Data Connect client, state store |
| `scheduler.py` MnT, devices, tacacs_config lanes | `_mnt_async/_stopping/_inflight` and the like, one thread per run | `_run_mnt`, `_run_devices`, `_run_tacacs_config`, their start and stop | REST and MnT clients |
| `scheduler.py` start-up limiter | `_startup_next_at`, `_startup_started` | `_wait_for_startup_slot` | all lanes |
| `clients/dataconnect.py` pacing gate | pacing file and its flock, `_next_query_at`, `_batch_duration` | `query*`, `query_many`, `_shared_gate`, `_release_shared_gate` | Oracle, other processes |
| `clients/dataconnect.py` connection | `_connection`, `_connect_failures`, `_blocked_until` | `connect`, `reset`, `close` | authentication guard |
| `auth_guard.py` | failure count and deadline in a flock file | `blocked`, `failure`, `success` | REST and Data Connect clients of all processes |
| `clients/rest.py` | session, request lock, pagination | `_request_serialized`, `get_all`, health probe | authentication guard |
| `snapshots.py` | `snapshot_lock`, thread-local staging, the registry's families | stage, commit, rollback, serialize, restore, locked collect | collectors, HTTP server |
| `collectors/__init__.py` | `_failures`, `_outcomes`, failure reasons | `begin_attempt`, `observe`, `record_failure` | snapshots, metrics |
| `collectors/dataconnect_tail.py` | cursor, anchor and age of a view in the state store; counters | `tail_counters` | state store, Data Connect |
| `state.py` | SQLite file, caches, cursors, snapshot rows, runtime and recovery locks | open/recover, reset, cache cycles, cursor and snapshot rows | collectors, scheduler |
| domain collectors | bounded caches of details | one `collect` each | clients, snapshots, state |
| `dataconnect_schema.py` | the discovered columns of each view | catalog comparison, choice of the authentication view | Data Connect lane, aggregate collectors |
| `__main__.py` | runtime lock, shutdown event | start, signal, teardown | everything |

What is hard here: the scheduler thread and the lane workers share state under
several locks and some of it under none; stopping a worker is a bounded join
that may time out; a schema run changes what queued work may do; the exporter
and any number of CLI processes share files through flock and may die at any
point; publication, freshness and scrapes run in three threads; a restart must
bring back neither stale data nor a forgotten cooldown; the sources change while
they are read, and their rows arrive late, out of order and under new ids. What
makes each part correct is stated as the properties of section 4; `PROJECT.json`
lists the hazards behind them, each at its line.

## 2. Modules

| Module | Models | Proofs |
|---|---|---|
| `LaneQueue` | `_AgingDataConnectQueue`: put, selection of the best item, ageing | in `DataConnectLaneProofs` |
| `RestedSource` | what the lane promises the source: one attempt at a time, on the contract in force, after the rest the dataset was owed | in `DataConnectLaneProofs` |
| `DataConnectLane` | the Data Connect lane with scheduler thread, worker threads, schema readiness, retries, stop and restart, teardown; implements `RestedSource` | `DataConnectLaneProofs` |
| `PacedDatabase` | what the gate promises the database: one request at a time, and a rest for what each has cost | in `PacingGateProofs` |
| `PacingGate` | pacing file, flock, leases and cooldowns among processes; implements `PacedDatabase` | `PacingGateProofs` |
| `LastGoodRegistry` | what publication promises a reader: one whole attempt, replaced only by a newer one, and not while it is read | in `SnapshotPublicationProofs` |
| `SnapshotPublication` | commits, rollbacks, scrapes, freshness, persistence and restore; implements `LastGoodRegistry` | `SnapshotPublicationProofs` |
| `AuthGuard` | the shared authentication guard and the requests, probes and logins that use it | `AuthGuardProofs` |
| `AuxLanes` | the MnT, devices and tacacs_config lanes, the start-up limiter, the wall-clock rules, the teardown's MnT client | `AuxLanesProofs` |
| `EventCounting` | what a tail promises: an event is counted after it appeared, and never twice | in `TailCursorProofs` |
| `TailCursor` | `tail_counters` of one view, its cursor row and its source; implements `EventCounting` | `TailCursorProofs` |
| `StateFiles` | the files of the state store: runtime lock, open and recovery, quarantine, reset | `StateFilesProofs` |
| `RestPaging` | the ERS and PAN API enumerations of the REST client, page by page | in `CollectorsProofs` |
| `DetailCache` | the cached details of devices, TACACS users and policies, MnT sessions; extends `RestPaging` | `CollectorsProofs` |
| `HighWater` | the last-seen marks two lanes keep in one store: accounts, NADs, endpoints | `CollectorsProofs` |
| `ReportingViews` | what the aggregate statements make of a log of late rows | `CollectorsProofs` |
| `SchemaContracts` | the catalog inspection and the views and columns the statements name | `CollectorsProofs` |
| `MC...` | instances for TLC; `MCCollectors` puts the last five in one run | |

### DataConnectLane

`mpc` and `mi` say where `loop()`/`run_cycle` is: it walks the datasets in
`Order`, checks each without the lock (`MainCheck`: `enqueue_blocked`, the call of
`_run_dataconnect`) and admits it under the lock (`MainPut`/`Admit`: not
stopping, not shut down, not in flight, due). A worker `w` dequeues
(`WorkerGet`), checks again (`WorkerRecheck`), starts the attempt
(`WorkerStart`) or finds it no longer due (`WorkerSkip`), runs the callback
(`WorkerCallback`, for the schema dataset followed by `WorkerApplySchema` and
`WorkerRestore`), books the outcome (`WorkerBook`) or recovers from an exception
of the bookkeeping (`WorkerRecover`), and releases the dataset (`WorkerFinish`).
`LoopStart`, `LoopBind`, `StopPut`, `JoinDone` and `JoinTimeout` are
`_start_/_stop_dataconnect_worker`; `Teardown` is the `finally` of `main`. Every
`loop()` call may be followed by another, also when the first one's join timed
out: `bound` says whether `self._shutdown` is the new event, which the MnT start
installs only when it returns no early exit.

Time is relative: `due` and `rest` count down, queue items age to `AgeCap`
(above which ages are not told apart). `AgesCounted` puts the cap above the longest
wait the ageing allows, so that a longer one would be seen. The wall clock does not
move back.

For `RestedSource` the attempt is the dataset of a worker from `WorkerStart` to
`WorkerBook` or `WorkerRecover` (`Attempted`), the contract is what the schema in force
allows (`Contract`), and queue, deadlines, threads and `loop()` calls are not seen.
`WorkerStart` is `Begin`, the end of a callback `Answer`, `WorkerBook` is `Conclude`,
`WorkerRecover` is `Fault`, and a `Teardown` that closes the client is `Close`.

### PacingGate

A request is single or a batch, adaptive (reporting) or not (catalog and point
lookups), blocking or not. `file` is the time left of the deadline in the pacing
file. A write is two steps, `Truncate` and the write proper; `TornWrites` says
whether a crash or an I/O error may fall between them. `owed`, `silence` and
`measured` are history variables: what the database is owed by the last released
cooldown, by the lease of a statement whose process died, and by the measured
cooldowns a batch has written. A process that dies leaves its lease owed as long as the
statement runs and until its release has published the cost (`Unpublished`); in
`PacedDatabase` a client that dies rests for that lease or, where it had published
already, for no longer than it had to.

For `PacedDatabase` a request is served from its first statement to its release (`Serving`),
a statement runs while a process is in its query (`Running`), and the rest the database
is owed is the longer of `owed` and `silence` (`Rest`); files and locks are not seen.

### SnapshotPublication

A snapshot is named by the attempt that collected it. `CommitBegin` to
`CommitDone`/`UndoUpdate` is `_replace_metric_snapshots` under `snapshot_lock`;
`UndoClear` and `UndoUpdate` are separate because freshness is published without
the lock and a value set between the two is lost with the detached child. The
health families are backed up as maps of the same children, so `UndoUpdate`
restores the domain but only removes a timestamp child that did not exist.
`Restart` starts a new process on the same persisted rows.

For `LastGoodRegistry` a dataset shows its data, or during a commit the backup a
rollback would give back (`Shown`), so that a commit takes effect at `CommitDone`;
`Durable` is what the persisted rows hold.

### AuthGuard

A caller is a thread with one request at a time. `Begin`, `Admitted` or `Refused`,
`Rejected`, `Update`, `WriteFailure` are `_request` to `_record_auth_failure` under
the client's transport lock. A health probe checks the guard before it takes the
lock for the exchange alone (`Send`), and a success is recorded after the lock is
given back (`Accepted`, `WriteSuccess`), so it may clear rejections that came after
its login. `Update` ends with the `ftruncate`; a caller lost before the write leaves
an empty file, which reads as no failures (`Cleared`). `Lose` is the death of the
process, a failed guard update or an answer that is not recorded; `Unseen` is a login
that the server rejects although nobody sees the answer. `rejected`, `recorded`,
`resets` and `lost` are history variables that count since the last accepted login or
the last lapse of the backoff.

### AuxLanes

`loop()` visits the lanes (`PassOver`, `Trigger`), which admit a run when they are
due and no run is in flight (`Admit`) and start a thread for it. A thread reserves
its start-up slot (`Reserve`, `TakeSlot`), collects, books the outcome and clears
the flag; `StopLane`, `Joined`, `LoopReturns` are the three stop protocols, and of
a lane two threads are kept: the one in `_X_worker` and the one it replaced.
Deadlines are relative to the wall clock, which `ClockStep` sets forward or back;
slots are relative to the monotonic clock. `idle`, `sinceSlot` and `moved` are
history variables.

### TailCursor

A row is an id with an insert time and a state: written but not readable, readable,
purged. `Insert` and `Publish` are apart, so rows become readable out of order;
`Rebuild` starts a new id space (`gen`). A cycle reads the minimum, the maximum and
the tail at three moments (`Begin`, `ReadMax`, `tail_query`), then saves the cursor
(`SaveCold`, `SaveReset`, `SaveQuiet`, `SaveAdvance`) and only then increments
(`Increment`). `Crash` and `StateLost` fall anywhere. `tally`, `arrived`, `excused`
and `cgen` (the id space the cursor was read from) are history variables; `tally`
and `arrived` are the variables of `EventCounting`.

### StateFiles

A path holds an inode or none. Threads prepare and open the database, find it
corrupt, take the recovery lock, try again, rename the main file and then its
sidecars, and rebuild; a guard user outside the exporter opens and locks its file; a
reset takes the runtime lock, collects, locks, rechecks and unlinks. A process may
leave its lock while threads of it still run (`LeaveExporter`), and may be killed.
A reset may be killed at any step (`KillReset`), and an unlink may be refused for any
target (`UnlinkFails`: whatever `OSError`), so the model has resets that stop half-way.

### RestPaging, DetailCache

`RestPaging` reads an inventory in pages that may be short, repeated or missing
while ISE changes; `CloseList` is the comparison with the announced total.
`DetailCache` is one cycle of a collector: list, plan the requests, fetch, put rows,
prune with the cache cycle, publish. A version stands for an object's detail or for the
session of an endpoint, and an age counts cycles. `Signature` is `_session_signature`: of
an endpoint listed with session IDs it tells the listed session, of one without
(`Anonymous`) only the endpoint, so that its next session has the same.
`hopeless` objects never answer. `NoSessions` is the MnT collector going on with an empty
list, without asking for it, when the count that precedes the list is zero.

### HighWater

`mark` is the stored last-seen time of each account, NAD or endpoint. The
configuration lane lists accounts, may hold a write transaction over its details, and
replaces the account list in an immediate transaction (`BeginSync`, `EndSync`); the
activity lane reads the accounts, queries, and merges (`BeginMerge`, `EndMerge`), or
puts and prunes row by row. Either may fail or die at any step.

### ReportingViews

ISE emits rows for sessions and endpoints, which arrive in any order. A statement
selects the window, takes the latest row of each session or endpoint, groups, ranks
and cuts; the collector turns rows into series and totals. `report.facts` is the
reference: the counts taken from what was emitted rather than from the statement.

### SchemaContracts

A view is the set of its columns. `inspect_dataconnect_schema` compares the contract
tables with the catalog; the `..._queries` operators give for every collector the
statements it writes from the discovered columns, as the views and columns they name.
`CollectDataset` runs them against the catalog of that moment, which `AlterCatalog`
may have changed since.

## 3. Runs and bounds

| Run | Checks | Distinct states |
|---|---|---|
| `lane_life` | safety invariants, retry spacing, refinement of `RestedSource`, termination and service of the lane | 165,444 |
| `lane_busy` | bounded wait under contention | 806,155 |
| `pacing` | refinement of `PacedDatabase`, cooldown, crash lease, release | 535,804 |
| `pacing_torn` | violation, finding 1 | |
| `pacing_batch` | violation, finding 2 | |
| `publication` | last good data, refinement of `LastGoodRegistry`, whole scrapes, staleness | 443,129 |
| `publication_health` | violation, finding 3 | |
| `auth` | bound on rejected logins, every request ends | 39,496 |
| `tail` | no row passed over or counted twice, settled rows reached | 642,969 |
| `aux` | one collection a lane, client use, start-up spacing, clock corrections | 528,978 |
| `store` | healthy databases kept, checked resets, every opening ends | 130,282 |
| `collectors` | inventories, details, marks, reports and inspection | 345,324 |

`lane_life` has a schema and one reporting dataset, two failures to the slow
retry and two `loop()` calls: enough for a dataset to be queued on a contract
that a schema run then revokes, for a join to time out and a second `loop()` to
meet the old worker, and for discarded work to be queued again. `lane_busy` has
three priorities and work that lasts longer than the cadences of the two higher
ones, so that the lane is saturated. `pacing` has two processes, batches of two
statements and one crash; the lease cap equals 3 against a worst charge of 4
(one statement) and more (batch), so the cap bites. `pacing_torn` has single reporting
requests only (`ReportingSpec`) and one crash. `publication` has one
persisted and one plain dataset, two attempts at each and one restart: a failed
attempt after a good one, in each lane, in every order with the other lane's
rollback, the freshness thread and a scrape. `auth` has two threads and a probe of
one client, threshold and backoff of 2, one lost rejection and two password changes:
a login can be accepted, wait to be recorded, and clear the guard after the password
was changed and others were rejected; the probe can pass the check while a request
records. `tail` has two ids in two id spaces, a settle window of 2, a floor of 3 and
four ticks: a row can settle behind a later one, fall behind the floor, be purged, and
the ids start again below and above the cursor; one fault, or one rebuild. `aux` has
an MnT and a devices lane, since devices and tacacs_config share their protocol, and
one disturbance: a clock step of 3 forward or of 8 back, more than every delay and
allowance; a second `loop()` call; or lanes that fail. `store` has two threads, two
corruptions, a guard user, one reset and one fault, of which two may happen: the second
thread can meet the database the first one rebuilt, the rebuilt one can be damaged
again, and a reset or a fault, which may kill the reset, can meet a recovery. `tail`,
`aux` and `store` leave out several disturbances in one behaviour (`OneDisturbance` in
their MC modules); the safety properties they check are proved without that bound
(section 5).
`collectors` has three objects on pages of two, all there at first or none, so that an
enumeration has a boundary and a change can cross it, one change and one fault; one
endpoint of three without session IDs; two
accounts; two sessions or endpoints with at most three rows; and the catalogs that differ from the complete one
by up to two views or columns, or lack everything a dataset reads. The modules of that
run share no variable, so they move one at a time. Where a bound ends a behaviour
(attempts, crashes, restarts) the remaining steps still run, so the liveness
properties are not vacuous.

## 4. Properties

Lane: `InflightExact` (the in-flight set is exactly the queued and the held
datasets), `SerializedLane` (one live worker), `NoStaleContract` (no query on an
unproved or revoked contract), `NoUseAfterClose`, `TasksAccounted`,
`RetrySpacing` (no attempt before the previous one's delay), `BoundedWait`
(ageing), `ImplementsSource` (refinement of `RestedSource`: what an attempt earns follows
from the outcomes of its dataset, also where the bookkeeping raises, and no rest is cut
short), and under fairness `LoopEnds`, `WorkerEnds`, `Served`.

Pacing: `ImplementsPaced` (refinement of `PacedDatabase`: any number of processes are one
client), `CooldownHonoured`, `CrashSilence`, `GateFreed`. `OneOwner` is proved, and what
the refinement rests on.

Publication: `DataIsLastGood`, `ImplementsRegistry` (refinement of `LastGoodRegistry`: a
dataset never goes back to an older attempt, and a restore hides nothing), `ScrapeWhole`,
`StaleIsReported`.

Authentication: `LockoutBound` says how many logins ISE may reject before the guard
silences every client: what reaches the threshold, the logins already past the
check, once more for each time the guard was cleared although logins had been
rejected, and the rejections lost unrecorded. `Answered`: every request ends.
The documentation's "cannot reset the account backoff" (`docs/architecture.md:221`)
is not quite what the code does: `_write` truncates before it writes, as finding 1
describes for the pacing file. The bound counts such a reset in `resets`.

Auxiliary lanes: `OneCollection` (a lane never runs twice at once, and its flag is
never left behind), `MntClientUse`, `SlotsSpaced`, `NoSuspension` (however the wall
clock is set, a free lane runs again within its delay, twice the skew allowance, two
scrape intervals and the cycles around them; one allowance would not do, since a first
clock step can lengthen the wait of the lane and a second one that of `loop()`).

Tail: `Accounted` (a readable row at or below the cursor was counted, or is one of the
losses the design accepts), `ImplementsCounting` (refinement of `EventCounting`: no
event twice), `RowReached` (a settled row does not wait for ever).

State files: `HealthyKept` (only a damaged database is quarantined), `ResetChecked` (a
reset removes nothing before all targets are locked, unlinks only the files it has locked
and looked at again, is done only when none of them is left, and nobody works under a
removed guard file), `OpenEnds`. That a reset removes all of its targets or none is not a
property of the code (see the observations).

Collectors: `PublicationFaithful` (an inventory that did not change while it was read
is accepted whole or not at all; no detail of an older session is published of an endpoint
listed with session IDs; without them one may be, see the observations, and `Refreshed` is
what is left), `Refreshed` (every detail that can be had is renewed again and again, as long as the
objects that never answer are fewer than a cycle's requests), `HighWaterKept` (a mark
goes down only with its account, device or retention), `ReportFaithful` (once the
rows have arrived totals agree with the events, series with the totals),
`InspectionExact` (an admitted dataset does not fail over columns before the catalog changes, and a blocked one could not have
run, but for the cases `Overlooked` and `Pointless` name).

Every module states its type invariant. Those of `DataConnectLane`, `PacingGate`,
`SnapshotPublication` and `AuthGuard` are proved and no longer part of a run.

Each property has a mutant in the module it is about, an operator marked
`Mutant:` beside the definition it replaces, under which TLC refutes it.

### Fairness

Weak fairness on the scheduler thread, each worker and each process: a thread
that can run does. A callback ends because REST and Oracle calls carry timeouts,
which `MaxService` and `MaxDuration` bound. Weak fairness on the clock. Nothing
is assumed of signals, restarts, crashes, errors or new requests.
`SnapshotPublication` uses strong fairness for reading a dataset's freshness:
`_update_freshness` walks every dataset in every cycle, while the model lets the
thread choose which one it takes next. `AuthGuard` uses strong fairness for the
steps of a caller: both locks are free again and again, and no caller keeps one
between requests, so a waiting thread gets its turn; requests carry timeouts.
`TailCursor` and `DetailCache` assume that the lane keeps starting cycles and a cycle
keeps running (weak fairness on the steps of a cycle), which `Served` and
`NoSuspension` show of the scheduler; source and clock owe nothing. `StateFiles` assumes
that a thread which has begun to open goes on.

## 5. Proofs

Every theorem holds for every value of the constants that satisfies the named
assumptions `QueueConstants`, `LaneConstants`, `GateConstants` (one in `PacingGate`,
one in `AuthGuard`), `PublicationConstants`, `AuxAssumption`, `MarksAssumption`,
`TailAssumption`, `StoreAssumption`, `PagingAssumption`, `CacheAssumption`,
`ReportsAssumption`, `SchemaAssumption` (sizes are naturals, cadences positive,
identifiers distinct, sets of lanes finite, the settle window long enough, TACACS budgets
within the ceiling `collectors/tacacs.py` clamps them to at 500 and 594, the schema
dataset first in priority as `_DATACONNECT_PRIORITY` has it) and `AgesCounted` (section
2). TLC evaluates them in the runs of their modules.

* `DataConnectLaneProofs`: `TypeCorrect`, then `Invariance` of `IInv`, the stated
  invariants with what they need of each other: a live worker is the last one
  started and `async` is set (`Owned`), a worker past its second check holds a
  compatible dataset under a proved schema (`Proved`), and nothing restarts after a
  teardown that closed the client (`TornDown`). From it `CoalescingExact`,
  `TaskCountExact`, `LaneSerialized`, `ContractCurrent` and `CloseSafe`.
  `AttemptsSpaced` needs more (`SpacingInv`): the rest an attempt has earned never
  outlasts the deadline, and the deadline is never so far away that `_due` takes it
  for a clock correction (`Spaced`); reporting work is booked only under a proved
  schema (`Booked`), so a snapshot is restored before any reporting dataset has
  earned a rest (`RestoreFirst`). `WaitsBounded` (`BoundedWait`) rests on `Timely`: an
  item's age, and one longest service for each dataset that precedes it or is in the
  worker's hands, stay within its bound and what the present service has already used.
  The premium of a priority runs out: nothing that is put later precedes an item older
  than `Overtaken`, and a younger item is within its bound whoever precedes it, since a
  dataset is queued once. `Attended` says that somebody serves: while `loop()` runs
  there is a live worker, and no sentinel in the queue. `SourceRefined`
  (`ImplementsSource`) maps every step to one of `RestedSource` or a stutter. It needs the
  spacing invariant and two parts more: an answered attempt counts as a success exactly
  when its dataset has no failure left in a row (`Told`), so that what `_run` books is
  what the count says; and work in flight is owed no rest until it is booked (`Rested`),
  so that a recovery from an exception, which reschedules whatever the deadline was,
  cannot shorten one.
* `PacingGateProofs`: `TypeCorrect`, `SingleOwner`, and under `~TornWrites`
  `CooldownKept` and `LeaseKept`. The argument (`Debt`): the deadline in the file
  covers every cooldown and crash lease that still runs; while the file is being
  rewritten its owner covers them, a reporting owner because it waited until nothing
  was owed, a metadata lookup because it keeps the deadline it found. A lease being
  served covers what a crash would leave owing (`Covered`), as the time a batch has
  used only makes its next lease longer (`ChargeFacts`, `LeaseCovers`), and it stays in the
  file until the cooldown of the release replaces it. Also under
  `~TornWrites`, `PacingRefined` (`ImplementsPaced`): the steps of the owner between its
  first lease and its release map to statements, those of everybody else to stutters
  (`Seen`, `Unseen`). The owner is the only request served (`OwnerServed`), its meters
  stand at zero before its first statement (`Fresh`), and what it writes at the end is
  the cost the abstract client is charged (`SameCharge`).
* `SnapshotPublicationProofs`: `Invariance`, `LastGoodKept`, `ScrapesWhole`. The
  lock is held by a lane exactly during its commit (`Locked`), the backup is the
  last good snapshot (`Kept`), the timestamp is never older than the snapshot a
  rollback returns to (`Timed`), what a scrape has read stays (`Steady`).
  `RegistryRefined` (`ImplementsRegistry`): the last good snapshot is what is shown, also
  in the middle of a commit (`ShownIsGood`); an attempt under way is newer than everything
  published or persisted, and a dataset that may still be restored has published nothing
  (`Newer`), so `CommitDone` replaces and `Restore` recalls; and whoever has read still
  holds the lock (`Looking`), so neither happens under a scrape.
* `AuthGuardProofs`: `TypeCorrect` and `LockoutBounded`, for any number of clients,
  threads and probes. A request past the check holds its client's transport lock
  (`Locked`), so requests past the check inject into the clients and no more than
  `Width` logins are on their way (`WidthBound`). `Budget` is the induction: without
  a deadline every rejection is recorded, about to be, lost or paid for by a reset,
  and fewer than the threshold are recorded; with a deadline nobody new is admitted,
  so rejections and logins on their way together stay within the allowance.
* `AuxLanesProofs`: `LanesInvariant`, and from it `LanesCollectOnce`, `MntClientKept`
  and `SlotsStaySpaced`, for any lanes, cadences, spacing and clock steps. A lane's
  replaced thread no longer works, and the flag is set exactly while the last one does
  (`OneThread`); a closed MnT client means that thread is dead and no lane starts again
  (`ClosedLast`). `Spaced` is the induction for the slots: reservations lie a spacing
  apart from each other, from the next one and from the last start. `RestInvariant`
  adds the types of everything else (`TypeCorrect`) and `Paced`, from which
  `LanesNotSuspended` (`NoSuspension`) follows: how long a lane has been idle, with what
  is left of its deadline and of the wait of `loop()`, in the three positions the clock
  may have put the deadline (out of the skew allowance, ahead, passed).
* `CollectorsProofs` is about the modules `MCCollectors` has in one run.
  * `PublicationIsFaithful` (`PublicationFaithful`), for every inventory, page size, cache
    and budget. `Ordered` gives each element the place of its rank; ranks are a bijection
    onto `0..n-1` (`RanksBijective`), so an ordered listing has every object once, without
    an induction over the sort. While ISE does not move, every row read is of an object
    that was there when the enumeration began (`RowsOpened`), and an accepted ERS list has
    the declared number of rows (`RowsCounted`): if the ids are distinct they are all of
    them, by counting (`WholeInventory`). A PAN list has no total; there the rows are the
    first pages of the listing as long as no reply was wrong (`FirstPages`). For sessions,
    versions only grow (`Growing`), so a detail is at least as new as the list it is stored
    for (`NotOlder`), and only details whose signature is the listed one are shown: with
    session IDs those stored for the listed session. Of endpoints in `Anonymous` the session
    half says nothing.
  * `MarksTypeCorrect` and `MarksKept`. A lane inside a transaction is the only writer
    (`Owners`), so what it read is still stored (`ReadsCurrent`), and each table is written
    only by the steps that belong to it (`StepsOfTable`).
  * `InspectionIsExact` (`InspectionExact`), for every catalog. Until the catalog changes
    the schema is the catalog (`SchemaInv`). For each dataset `Agrees`: what the contract
    requires of a view is what the statements always name of it (`ParsesOne` against
    `LacksAll`), the authentication view that is chosen is usable when either is
    (`ViewUsable`), and statements and freshness chunks fit in a batch (`FewRun`, `Chunks`).
  * `ReportsFaithful` (`ReportFaithful`), for every log, window and group limit. Every
    thing has a last record, no older than its others (`LastWritten`). Once it has arrived
    it is the thing's only latest row (`LatestRows`), so the counted rows and the things
    they stand for are as many (`SameNumber`), and a cut to the group limit keeps the first
    row, on which the totals ride (`FirstRow`). The sum of the series is the number of
    points they stand for, one for each row counted in a group; points and counted rows
    are compared by injections rather than by an induction over the series.
  * `DetailTypeCorrect`: the bounds on plans, ages, pages and failures for every budget.
    `SchemaTypeCorrect`: what an inspection finds and blocks lies within the contracts.
  * `CollectorsCorrect` puts the four together as the run does (`CollectorsTypeOK` and each
    one's property): a step of one module leaves the invariants of the others alone.
* `TailCursorProofs`: `Invariance`, and from it `TypeCorrect`, `RowsAccounted`
  (`Accounted`) and `CountingRefined`, the refinement of `EventCounting`: an initial
  state maps to an initial state, `Publish` to `Arrive`, `Increment` to `Count`, every
  other step to a stutter. The assumption that carries it is that the settle window is
  at least twice the source's delay and one cycle of queries: a row that settled cannot
  be followed by a lower one that becomes readable later, so the rows a cycle finds are
  all there are up to its last (`FoundPrefix`), and what the cursor covers is counted,
  excused, below the anchor or gone (`Covered`). A second count would need a cursor
  below a counted row, which only a reset or a cold start could bring about; either
  finds the counted rows purged or stores a cursor at or above them (`CursorTop`,
  `SeedTop`, `ResetLow`, `ResetHigh`, `AnchorLow`).
* `StateFilesProofs`: `Invariance`, and from it `TypeCorrect`, `ResetIsChecked`
  (`ResetChecked`) and the action property `HealthyIsKept` (`HealthyKept`), for any number
  of threads, guard users, damaged databases, resets and faults. Between its second
  look and the end of its recovery a thread owns the recovery lock (`RecoveryOwner`), so
  what it saw damaged is what it renames (`SeenCorrupt`); a reset removes only what it
  has locked, and its targets stay in place while it removes them (`Removal`), also when an
  unlink is refused or the reset dies.
  `Databases` bounds the inodes that are made: the first, one for each damaged database
  and one for each reset.

Only model-checked: the liveness properties (`LoopEnds`, `WorkerEnds`, `Served`,
`GateFreed`, `StaleIsReported`, `Answered`, `RowReached`, `OpenEnds`, `Refreshed`), which
are outside the prover's reach. Every invariant, action property and refinement of a
passing run is a theorem.

## 6. Findings

1. **A torn write forgets the cooldown** (`pacing_torn`).
   `_write_shared_deadline` truncates before it writes. When the process dies in between,
   as its release publishes the cooldown of a reporting query that is over, the file is
   empty: the lease the query had published is gone as well, and the next process reads "no
   deadline", against the promise that process loss cannot turn a restart into an immediate
   query. Writing first and truncating to the new length, or a rename, would keep it. All
   other properties are checked and proved for whole writes, and the theorem's assumption
   says so.
2. **A capped lease replaces an uncapped cooldown** (`pacing_batch`). In
   `query_many` the lease of the next statement overwrites the measured cooldown of
   the statements before, which the comment exempts from the cap.
3. **A rejected commit keeps the new completion time** (`publication_health`). The
   rollback restores the maps of the labelled health families, whose children
   `publish_success` has already changed.

### Observations

Met while modelling; the properties above are stated so as to allow them.

* A reset may stop half-way. Its targets are validated and locked before the first unlink,
  but a later unlink may still be refused (`state.py:196-198`), for a guard file by its own
  directory, after the database is gone; nothing undoes what was removed, and the same holds
  of a reset that is killed. The comment at 157-158 says that a bad guard path must not turn
  a full reset into a partial one; what is validated is the type, the lock and the identity
  of each file, not that it can be removed. `UnlinkFails` and `KillReset` are actions of
  `StateFiles`.
* A user waiting for a guard file keeps the old one. Users open it first and flock the
  descriptor afterwards, without a second look at the path (`dataconnect.py:404-440`,
  `auth_guard.py:24-47`). One that has opened it without holding the flock does not stop a
  reset and afterwards gets its flock on an inode without a name, beside the user of the new
  file; `state.py:168-170` says that no active operation can.
* Where ISE lists no session IDs an older session is published. The signature falls back to
  the MAC (`mnt_active_posture.py:287-290`), so the cached detail of the endpoint's last
  session passes the comparison at 505-508 until the rotation renews it, while the comment
  at 503 says "Never publish a detail from an older session". The comment at 287-289 knows
  the case. `Signature` and the constant `Anonymous` of `DetailCache` model it.
* `loop()` waits with `while time.time() < nxt` (`scheduler.py:1403`): a clock that is
  set back lengthens that wait, although the comment at 227-231 protects the deadlines
  of the datasets. `NoSuspension` leaves such ticks out.
* The control-plane client is closed without asking whether a devices or tacacs_config
  thread still uses it (`__main__.py:283`), unlike the other two clients.
* A thread that opens the database for the first time does not take the recovery lock:
  it may create a fresh database between the rename of the main file and that of its
  sidecars, and lose its WAL (`state.py:398-418`).
* Threads that outlive the release of the runtime lock may meet a reset.
* An enumeration in which one object is deleted and another created between two pages
  may lack a third one and still match its total (`clients/rest.py:663`).
  `get_pan_api_all` has no total at all.
* With the default budget a device whose detail never comes takes the rotation's
  request of every cycle once it is the oldest (`collectors/devices.py:184-207`).
* `tacacs_config` keeps its write transaction open over paced requests
  (`collectors/tacacs.py:565`), which the comment at `collectors/devices.py:210-215`
  describes as the thing to avoid.
* A session whose start and stop carry different identifiers counts as active until the
  window has passed (`collectors/dataconnect_radius.py:137-150`). A device without a
  name and one called "unknown" share their labels, and one series replaces the other.
* With none of the four summary dimensions `volume_summary` contains a `CASE` without a
  `WHEN` (`collectors/dataconnect_radius.py:223-233`), although the inspection admits
  the dataset. `tail_counters` and `endpoint_fleet` are not in the contract tables, so a
  view that has their key column and lacks another fails every cycle. `Overlooked` names
  these. `preferred_radius_authentication_view` compares how many columns the views
  cover, not which.

## 7. Plan

Built: the lane that protects the database, the gate that paces it across processes,
the boundary through which everything is published, the guard that protects the
account, the other lanes, the tail, the state files and the collectors. What is left:

1. A composition of `StateFiles` with `PacingGate`: a reset that meets a pacing user.
2. Freshness and restore ages under clock corrections; the connection breaker and the
   result ceilings of the Data Connect client.

## 8. Not modelled

Metric declarations, configuration parsing, CLI commands and output (`cli.py`, a fifth of
the implementation, formats and prints), the PowerShell module, dashboards and
packaging: wording, layout and I/O. Their effect on the modelled parts is a callback or
request that succeeds or fails. Of the collectors: parsing of posture reports, latency
and volume figures, posture conditions and enforcement, the eligible-endpoint count,
duplicate sessions of one MAC, and clock corrections in cache ages. Inside the other
modelled parts: an exception raised by the recovery handler itself, an `fsync` that fails
after a complete write, the retention of quarantined files, memory exhaustion.
