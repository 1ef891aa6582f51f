# TLA+ models of NodeRampart

NodeRampart watches one Linux server: `noderampart-sensor` captures packet
headers, `noderampartd` collects interface counters and journal entries, derives
security events, keeps everything in one SQLite database, sends notifications
and reports, and answers `noderampart`, the operator's command and console, over
a Unix socket. This directory holds TLA+ models of the parts whose correctness
depends on order, failure and time, the TLC configurations that check them, and
TLAPS proofs of the most important results. `PROJECT.json` lists components,
runs, mutants, hazards and, definition by definition, the source lines each
definition stands for.

## Inventory

| Component | State it keeps | Operations | Hard behaviour | What makes it correct |
|---|---|---|---|---|
| Official channel dispatch (`store/official_dispatch.go`, `notify/worker_official.go`) | outbox rows, dispatch intents, channel policy, budget table, cooldowns | admit, claim, begin, recheck, POST, resolve, poll, retry, quarantine, silence, reconcile, restore | crash between POST and receipt, lost or late answers, clock steps, restored databases | no message delivered twice, limits and consent respected, uncertainty never hidden |
| Notification outbox and delivery worker (`store/queue.go`, `alerts.go`, `silences.go`, `store.go`, `notify/worker.go`) | outbox rows, event decisions, silences, cooldowns, targets | admit and coalesce an event, claim, reserve a pacing interval, send, mark, silence, retry, retarget | coalescing racing a claim, a silence racing a send, a crash with a claim open | no event lost from its message, pacing survives a crash, withdrawn stays withdrawn |
| Sensor delivery (`sensor/delivery.go`, `fleet.go`, `daemon/sensor_commits.go`, `store/sensor_commits.go`) | session counters, prepared events, watermarks | batch, send, commit, acknowledge, retire a session | lost frames and acknowledgements, daemon crash, repeated frames, clock steps | every count once, gaps recorded, an acknowledgement means durable |
| Journal cursor (`collector/journal_reliable.go`, `store/journal.go`) | cursor, cache of cursors, recovery marker, prepared result | launch, read, deliver, commit with cursor, recover | crash between effect and cursor, vacuumed journal | entries neither lost silently nor counted twice |
| Daemon event queue (`daemon/events.go`) | bounded retry queue, counts of losses | queue, flush, record a loss, mark a start | store failure, doubtful commits, full queue, shutdown | every event stored once, in order, or counted as lost |
| Detector of failed logins (`detect/auth.go`) | failures per source, slots, cooldowns | observe, trim, prune | limits reached while a threshold is crossed | an alert or an admitted gap, never silence |
| Detector of scans and floods (`detect/network.go`, `fleet.go`) | requests, ports per source, quiet windows, shared budget | observe, evict, reset | lost, late and incomplete windows | no reply taken for a probe, recovery only when proven |
| Traffic monitor (`daemon/monitor*.go`, `store/monitor_state.go`) | state per rule, pending transition | observe, evaluate, commit, reconcile, roll over | doubtful commits, month boundary, edits, restart | incidents and milestones told once, months closed |
| Interface counters (`collector/netdev*.go`, `daemon/interfaces.go`) | baselines, selection, hourly rows | resolve, read, report, add | links replaced between discovery and reading | no byte twice, lost bytes reported |
| Coverage ledger (`store/coverage.go`, `integrity.go`) | status and intervals of a component | set, heartbeat, reset, evict | crash with an interval open, clock steps | nothing shown that was not so |
| Write budget and retention (`store/budget*.go`, `retention.go`) | rows, key counters, walk, ledger | admit, merge, prune, account | writers and maintenance share one walk | no count lost, every loss accounted for, pressure relieved |
| Report scheduler (`report/scheduler.go`, `backfill.go`) | archive, report runs | due, archive, enqueue, backfill | crash, zone change, request beside the schedule | each day archived for good and told once |
| Backup, restore, schema (`store/backup*.go`, `migration_*.go`, `manage/upgrade.go`) | database files | back up, restore, migrate, rehearse | races for a path, power failure | nothing replaced, whole or absent, paid channels held |
| History and console browser (`store/timeline.go`, `console/browser.go`) | events, cursors | fetch, next, previous | rows inserted and pruned between pages | no row skipped or repeated |
| Configuration transactions (`manage/manager.go`, `actions.go`, ...) | configuration, journal, managed files, services | apply, roll back, recover, clean up | crash between any two writes, foreign edits, late commands | the old or the new state, and the way back |
| GeoIP update and download (`manage/geo*.go`, `assets/`) | generations, metadata, timer, staged files | update, schedule, reconcile, download, validate, bound values | failure at any step, rewritten files, shared values | what is used was validated, records stay true |
| Packet capture and aggregation | kernel ring, maps | decode, count | byte decoding | not modelled |
| Senders and formats, configuration values, evidence, replay, billing, command line | none, or one document | pure functions and I/O | none | not modelled |

The daemon is one process of goroutines around one SQLite writer: every store
method runs in one transaction under `budgetMu`, so it is one action of a model.
What a goroutine does between two transactions is a step of its own, and between
any two steps another goroutine, the operator, the clock, the far end or a crash
may act. How the components meet: sensor batches, journal entries and counters
become events; the transaction that stores an event also decides its
notifications (`InsertEventNotification`); one worker per channel drains the
outbox; the operator's commands reach the same tables through the control
socket; configuration changes only take effect through a restart.

## Modules

### `OfficialDispatch`, `DispatchPromise`

One official channel (QQ Bot, LINE, Twilio SMS or WhatsApp, chosen by the
constant `Channel`). `outbox`, `state`, `intent`, `policy`, `target`, `cooldown`
and `usage` are the tables, with the columns the code tests; a NULL or zero time
is 0. `worker` is the goroutine of `processOfficialMessage` and
`processOfficialPolls`, its `pc` the point between two transactions:
`ClaimNotification`, `BeginOfficialDispatch` (or `BeginRefused`), `Recheck`
(`NotificationDeliveryAllowed`), `Post`, `Answer`, `ResolveOfficialDispatch`,
`ReleaseNotificationClaim`; `ClaimOfficialPoll`, `Poll`, `ResolveOfficialPoll`.
`WorkerError` is any store error that ends a pass. `wire` holds requests under
way; `ProviderStep` accepts, refuses or loses them, before or after the worker
has given up, and is external: it is modelled from the responses the clients in
`notify/official*.go` distinguish. `OperatorStep` holds the commands of
`official_control.go`, retry, quarantine, resume, silences and reconciliation;
`ProcessStep` crashes, restarts with another configuration
(`configureOfficialTargets`, `ConfigureOfficialPolicy`), backups and restores
(`markRestoredOfficialHold`). The wall clock is `clock - back`: `ClockBack` sets
it back, and observations use true time. Bodies are not represented; what
matters of a message is its kind and its number of SMS segments.

`DispatchPromise` is what a channel without an idempotency key promises the
recipient: a message is delivered at most once, only under an intent, and an
intent is given back only when nothing was delivered. `KeepsPromise` states that
`OfficialDispatch` implements it, `Phase` being the refinement mapping.

### `SensorDelivery`

The sensor's `BatchSender` (`Send`, `SendFails`, `RetireInterface`, `ReadACK`),
the connection (`wire`, `acks`), the daemon's `serveSensor` and
`handleSequencedBatch` (`ConnectionRejected`, `Receive`, `ReceiveDuplicate`,
`FlushEvents`) and the watermark transaction (`CommitSensorBatch`,
`CommitFails`). Two counters stand for the nine of `CollectorHealth`, which are
treated alike: `lost` and `seen`. `Derivations` says what the detector may make
of a batch (nothing, an event, an event that is refused).

### `Outbox`

One of the other channels: Telegram and the webhook coalesce updates
(`Mergeable`, `Interval = 0`), the native channels are paced (`Interval > 0`). A
message is named after the event that created it. `InsertEventNotification` is
`recordOneEventNotification` in its order: no message rendered, silence,
expediting (`Expedited`), joining an open message (`Open`, `Join`), admission
(`Create`). The worker's pass is `PendingDestination` (the expiry sweep and the
fetch), `ClaimNotification`, `Check`, `ReserveNotificationAttempt`, `Check`,
`Send`, `Answer`, `Record`. A body is the number of events it stands for and the
latest of them, which is what `mergedBodyLocalized` renders. Silences, retry,
quarantine, resume and discard are operator commands; `Start` is
`ConfigureNotificationTarget` at start-up.

### `JournalCursor`

The loop that follows the authentication journal. `child` is one attempt, a
journalctl process and the variables of `runReliableAttempt`; `mem` holds what
`RunReliable` keeps between attempts (cursor, acknowledged time, forced start,
pending recovery); `db` the checkpoint, the cache of committed cursors
(`journal_seen`), the recovery marker and how often each record entered the
aggregates. `Launch` decides where to begin and reports what that leaves out;
`ReadOpaque`, `Verify`, `TooOld`, `TooMany` and `Accept` are the branches of the
reading loop; `Deliver` is `handleJournal` with `CommitJournal` and the
acknowledgement; `EndAttempt` is the end of an attempt. A record is an arrival
time and a kind: trusted with an observation, trusted without, with a cursor but
unusable contents, or a line without a usable cursor. A write succeeds, fails,
or fails although it is durable. journald and journalctl are external: records
may vanish, journalctl may exit at any point and may repeat its last line, and
with a vanished cursor it prints what follows.

### `ConfigApply`

Every setup action of the manager as one transaction in the steps of
`saveLocked`: `StageFile`, `ReadBefore`, `Prepare`, `Recheck`, the journal
(`Record`, `RecordStages`), `WriteCandidate`, the service commands (`Issue`,
`ChildEnds`), `Commit`, or `ApplyFailed` and the rollback (`RollbackCheck`,
`RestoreConfig`, `RestoreSteps`, `Restored`); `BeginRecover` is "Recover previous
configuration", `Clean` and `CleanGeo` the removal of files nobody needs. `op` is
the state of each manager process, `lock` the management lock, which commands
inherit (`child`), so that it outlives a manager that dies. A configuration is a
revision with the managed files it names. A write fails, or fails although the
file was replaced. systemd and the administrator are external.

### `Monitor`

One rule of the traffic and health monitor: a health rule (a storage-like one,
the journal's, the GeoIP updater's), the monthly or the daily budget.
`disk` is its durable record with the events written, `mon` what the process
remembers, `Pass` one pass of `applyObservations`: reconcile what is pending,
observe, evaluate (`EvaluateHealth`, `EvaluateBudget`), commit. A commit
succeeds, fails, or succeeds and is reported as failed; `Reconciled` is the
conflict branch. A status that `validateMonitorStatus` does not accept is
neither stored nor revised (`ValidStatus`). The journal's rule has two failures
of that kind: the reasons `auth_state_unknown` and `auth_state_capacity`
(`monitor_observe.go:273` and `:276`) are missing from the list in
`monitor_state.go:212`, so `storeObservation` refuses them in every pass and such
a failure is never alerted, however long it lasts. `AlertInTime` therefore
speaks of failures whose reason is listed. The updater's rule can become
disabled while alerts are on (no metadata, no database configured and no
schedule known); it then ends an incident without a recovery event, and
`IncidentsEnd` allows a silent end for nothing but a rule that is off.
`Restart` brings another configuration, `ClockBack` sets the clock back.

### `CoverageLedger`, `InterfaceCounters`, `EventQueue`, `StoragePressure`

`CoverageLedger`: `status` and `intervals` of the sensor's component, written by
`SetCoverage`, `Heartbeat` and `ResetCoverage`; `View` is what
`integritySegments` computes; `truth` records what really was so.
`InterfaceCounters`: `Resolve`, `Read` and `Finish` are one poll, `AddInterface`
the daemon's side; `Carry`, `Recreate` and `Flap` are the kernel's. `EventQueue`:
`Detect`, `BeginFlush`, `Insert`, `RecordLoss`, `EndFlush` and the shutdown
rounds. `StoragePressure`: `BeginWrite` (with one step of reclamation,
`PruneChunk`), `Write`, `Release`, `MaintainBudget`, the expiry sweep
(`StartPrune`, `PruneOld`); rows stand for pages, `cursor` and `walked` are the
walk over source detail that writers and maintenance share.

### `Reports`, `GeoUpdate`, `GeoDownload`, `MMDBValues`

`Reports`: the scheduler's check in steps (`ArchivePrevious`, telling each
destination, backfill date by date), the operator's `BackfillRequest` beside it,
which ends with an answer (`AnswerRead`): the dates with what was found, and,
where it was stopped, the date to resume from. `Answers` is `archiveDate` with
its failures, a write that is applied and reported as failed and an archive that
cannot be read back among them; the contents of a report and the removal of
archives after thirteen months are left out. A zone is the list of its
midnights. `GeoUpdate`: the operations of `manage/geo*.go` step by step on the
two metadata files, with the activation of `ConfigApply` as one step of three
outcomes. `GeoDownload`: one attempt of
`DownloadGeo`, the validating child and the copy into a generation; `cause`,
`valid` record what really happened. One local failure is reported under
another name: a staged database that cannot be opened again (`geo.go:283`) has a
plain error and becomes `archive`/`invalid`; `FailureTraced` names this
exception. `MMDBValues`: the walk of
`mmdb_bounds.go` with its cache, `stack` standing for the recursion, against the
reference definitions `Expansion` and `Records` that use no cache.

### `BackupRestore`, `SnapshotSchema`, `HistoryPages`

`BackupRestore`: jobs (backup, restore, rehearsal) in the steps of
`store/backup.go` beside a daemon, other programs and power failures; a file is
its maker, its version, the hold in its two forms and what of it is synced.
`SnapshotSchema` holds the three hand-written lists of the schema as sets;
`Conforms` compares them for each version. `HistoryPages`: `Fetch` is one query
of the timeline or of the incidents, `NextPage` and `PreviousPage` the browser's
moves; times are stored in milliseconds and asked for in finer units.

### `AuthDetector`, `NetworkDetector`

The detectors as the code computes them, with the slices, maps and limits that
can run out, next to history variables that remember everything; `verdict`
compares the two after each observation.
What `AuthSound` says rests on observation times that do not go back: journal
records come in the order of their times, and a clock set back between two of
them is not followed here.

### Instances

`MCOfficialDispatch` and `MCSensorDelivery` define constants.
`MCOfficialChannels`, `MCSensor` and `MCOutbox` follow several instances of one
module over the same variables in one run: the variable `profile` is chosen by the initial state and
never changes. `MCCollection`, `MCUpkeep` and `MCHost` do the same with modules
that do not call each other: `part` says which one moves, the others keep an
initial state. The state spaces add up, and every behaviour of a part is a
behaviour of its module; the properties conjoin the named properties of each
module, where they are stated and explained.

## Runs

| Run | Checks | Shows |
|---|---|---|
| `OfficialTwilio` | `TypeInvariant`, `RowsTellTruth`, `FreshAttempts`, `PollsBounded`, `KeepsPromise`, `IntentsSettle` | Twilio SMS, with changes of receiver, polls and a restored database: the refinement of the promise, sent and blocked rows that mean what they say, bounded polls, and an interrupted intent that is settled |
| `OfficialChannels` | `AtMostOnceDelivery`, `RowsTruthful`, `LineTimely`, `LimitsKept`, `DecisionsHold` | LINE, which repeats a POST with its retry key; QQ Bot with changes of receiver and consent; two messages under a limit of one a day with the clock set back; two messages against a restored budget table: nobody gets a message twice, retries come while the provider knows the key, limits a day are kept, receipts, withdrawals and consents hold |
| `OfficialLineClock` | `RetryKeyStillKnown` (violated) | see Findings |
| `Sensor` | `EachBatchOnce`, `GapsAccountedFor`, `AckMeansDurable`, `NetworkSound`, `WindowsInOrder` | exact accounting through lost frames and acknowledgements, repeated frames, failed transactions, a crash, new sessions and clock steps; the detector of scans and floods behind it |
| `SensorRetired` | `RetiredIsRefused` (violated) | see Findings |
| `Outbox` | `WellFormed`, `TellsAll`, `Withheld`, `PacedRequests` | coalescing loses no event and keeps the queue bounded; a recovery does not overtake updates; silences bind claimed messages, isolation is permanent, every request has its interval |
| `JournalCursor` | `EachEntryOnce`, `ReadyIsHonest`, `LossIsKnown`, `RecordsSettle` | replay counts nothing twice and drops nothing silently; readiness is honest; nothing in the journal stops the reader |
| `ConfigApply` | `Recoverable`, `RunningIsSaved`, `UndoIsExact`, `OperationsEnd` | no needed file is cleaned away, what runs is what is saved, an interrupted apply can be rolled back with its services, foreign edits survive, the lock is released |
| `MonitorRecovery` | `RecoveryContinuous` (violated) | see Findings |
| `Collection` | `CountersHonest`, `ViewHonest`, `QueueHonest`, `PressureHandled` | interface counters, coverage ledger, event queue, storage under pressure: safety of each and, once troubles end, that health is recorded, states settle, the queue drains and pressure is relieved |
| `Upkeep` | `ReportsKept`, `UpdaterSound` | days archived for good and told once, backfill catching up; updater records readable and true, updates recovering |
| `Host` | `AuthSound`, `DownloadSound`, `PagesExact`, `ValuesExact`, `MonitorSound`, `BackupSound` | failed logins, GeoIP download, paging, bounds on GeoIP values, traffic monitor, backup and migration |

Every property of a passing run has a mutant, an operator next to the one it
replaces, that the property rejects.

### Bounds

Time is counted in units in which leases, waits and windows differ as in the
code: a request timeout is shorter than a lease, a lease shorter than the retry
window, window plus lease plus timeout within the key's life
(`WindowAssumption`), so that each can be passed while the others still run.
`MaxClock` lets a row pass through all of them: a lease expires and the row is
tried again, polls reach their deadline, a day ends, rows expire. One message
per run suffices where rows do not influence each other; the limits and
restores, coalescing, pacing and the queue's capacity relate rows, and those
runs have two or three. One or two crashes and operator commands (`MaxRestarts`,
`MaxOps`, `MaxCrashes`) may come at any point; the interplay of one command with
one crash and a late answer is what the hazards are about. Saturation, full
queues and full watermark tables are brought within reach by small limits
(`MaxHealth`, `MaxBytes`, `MaxWatermarks`). Where two messages are
interchangeable only the behaviours that admit the first one first are followed
(`InOrder`). The journal's run has a window of one unit, a backlog
limit and a cache of one record, two records and three faults: an entry and one
after it are enough for every branch of the reading loop, and three faults for a
doubtful write, the loss of its record and a restart. Two managers, two
operations and two troubles let one manager die in an operation and another find
what it left. The parts of `Collection`, `Upkeep` and `Host` have
small limits that are reached and passed: two rows per page of history and three
events, two sources and three failures each, one walk chunk smaller than the
rows, a ledger of two entries, a queue of two events. The database has four
pages, one of them the reserve, and takes five writes within an hour (three when
the hour changes between them): a merge into a summary that exists, the use of
keys a merge has released, an overflow of the keys after that, and a critical
write into the reserve are all reached. GeoIP data has five cells: the limits on
depth, values of a record, values in all and work are each passed on data without
a cycle, the first two on a walk and on a hit in the cache, and targets are
evicted from the cache and read again. Each part has one to four faults
placed anywhere and times that outlast every window, cooldown and period.
Counters of
faults, restarts, polls and edits bound the runs and are never read by the
modelled code; a run stops when they and the time are used up, hence
`CHECK_DEADLOCK FALSE` where it is set.

### Fairness

`RecordsSettle` assumes that the reader takes its next step (`Reader`): the
backoff between attempts is at most a minute, journalctl prints the records it
finds, and the main loop answers every delivery. Writes that fail are not fair.

`IntentsSettle` (run `OfficialTwilio`) assumes: time passes, the provider's side
of a request ends (the context timeout of 30 seconds ends it for the worker), the
worker takes its next step (a 10-second ticker starts each pass), the sweep runs
(it precedes every pass and the daily prune), and systemd starts the daemon
again. All are weak: none of these steps is disabled again by others for ever.
The operator, clock changes and crashes are not fair.

`OperationsEnd`: a manager process takes its next step and every command ends
(it is killed after 90 seconds). `Collection`: the poll, the daemon's loop, the
coverage ticker and the process's start go on, a writer ends its transaction;
maintenance has strong fairness, since it polls the mutex between writers and
gets it sooner or later. `Upkeep`: the scheduler's ticker, the restart of the
process, the steps of an update and its daily timer are weakly fair; the
installer's reconciliation and the recovery of an interrupted apply, which the
package manager and the operator run, strongly. No failure is fair, and the
liveness properties speak of the time after the bounded number of failures.

## Proofs

Assumptions are the named `ASSUME`s of the component modules; TLC evaluates them
for every instance.

* `OfficialDispatchProofs`: `TypeCorrect`, `Spec => []TypeInvariant`, one lemma
  per group of actions, with lemmas for the records the actions build.
  `AtMostOnce`, `Spec => []AtMostOnceDelivery`, for
  every number of messages, restarts, restores and every duration.
  `AtMostOnceDelivery` is not inductive: a state in which a delivered row is
  ready for another attempt satisfies it. Two strengthenings are proved first.
  `AttemptsAreFresh`: without an idempotency key (`FreshAttempts`) a row is ready
  only while nothing of it was delivered or is under way and no worker attempts
  it, each message has at most one request under way, and a worker about to
  report a refusal reports the truth. `PostsWithinKeyLife`: on LINE with an
  honest clock (`WithinKeyLife`) the first attempt recorded for a row is not
  later than its first POST, a worker's copy of it is current, and deadlines
  stay within the key's life, which needs `WindowAssumption`.
  `LimitsAreKept`, `Spec => []DailyLimit`: on no UTC day are more messages or
  segments posted than a configured limit admits. A state whose usage table shows
  less than was posted satisfies `DailyLimit`, and the next attempt would break
  it; the invariant `Budgeted` counts what is `Charged` to a day: posted, or
  debited in a row, in the worker's copy of it or in a backup. What is charged is
  within a limit (`ChargesBounded`), and unless the channel is held the usage of
  every day that can still be debited shows it (`ChargesShown`); nothing is
  charged to a day to come (`ChargedSoFar`), which makes the days after a
  reconciliation safe, and an intent without a debit made no attempt. After a
  restore the property asks for a paid channel, a clock that was not set back and
  limits that stay the same: the reconciliation counts the limit of that moment
  as spent, so a limit lowered before it and raised after it on the same day
  admits more than either.
* `OfficialDispatchRefinement`: what the channel shows to the outside.
  `ImplementsPromise`, `Spec => KeepsPromise`, the step simulation of
  `DispatchPromise`: every step moves each row as the promise allows, and gives
  an intent back only with the proof of refusal that `FreshAttempts` carries. It
  is stated for channels without a retry key (LINE repeats its POSTs) and, where
  the channel is free, without restores: a free channel is restored as it was,
  rows and all, and may send again what was sent after the backup.
  `DecisionsAreKept`, `Spec => DecisionsHold`, conjoins `ReceiptsAreFinal`,
  `WithdrawalIsFinal` and `PostsAreConsented`, on every channel. The first two
  need `Records`: rows, the rows in backups and the answer in the worker's hand
  say "accepted" or "sent" only of what was delivered, so that an answer that
  comes late finds a row it may close. The last needs `ConsentCurrent`: the
  recorded opt-out or consent is as recent as the last opt-out the platform
  reported, and a worker past its recheck may post; it is about a clock that was
  not set back, since a clock set back may date a renewed consent too early.
  `RowsAreTrue`, `Spec => []RowsTellTruth`, adds `BlockedIsFresh`: nothing of a
  blocked row was sent, is under way or is being attempted. (LINE is left out of
  that half: a retry that is refused blocks its row although an earlier POST,
  whose answer was lost, may have arrived.) `PollsAreBounded`,
  `Spec => []PollsBounded`, counts GETs against the claims recorded before them
  (`PollsCounted`): a claimed poll is one GET that was not made yet.
* `SensorDeliveryProofs`: the accounting of the sensor's measurements, for every
  number of interfaces, sessions, watermarks and faults, from `BoundAssumption`
  alone. None of the properties is inductive, since each depends on what the
  frames still on the wire may do; the invariant `Sound` conjoins
  - `Typed`: the types, with the two facts that keep them: the batch at work is
    newer than its watermark (a gap is never negative) and row ids are bounded;
  - `Delivered`: frames of a session are in the order they were sent, with
    counters that continue each other and lose no more batches than there are
    numbers between them; the sensor's own state is ahead of every frame, a frame
    ahead of its watermark, and sessions are numbered as they are opened;
  - `Books`: what is recorded of a kept session is what its watermark says, and
    its numbers are committed batches or gaps (`HealthIsExact`, `GapsAreExact`);
  - `Windows`: later sessions of an interface have later windows, and the end of
    its last one is in the table or is covered by `retiredBefore`, with no known
    session left that could pass below it (`WindowsAreOrdered`);
  - `Shown`: a frame that was shown to the detector and arrives again is below
    its watermark or in preparation, and what waits in memory was shown and is
    not stored (`BatchesAreShownOnce`);
  - `Told`: every acknowledgement under way, every watermark and all the sensor
    believes are true (`AcksAreTrue`);
  - the bound of the table (`WatermarksAreBounded`).

  Types are a theorem of their own, `TypesKept`. The properties are about
  sessions whose watermark was not retired (`gone`): a batch repeated after that
  is taken for a new one, which is the finding of `SensorRetired`.
  `WindowsAreOrdered` holds without that condition.
* `OutboxProofs`: three arguments, from `DataAssumption` and `TimeAssumption`.
  - `ReceiversArePaced`, `Spec => PacedRequests`. The invariant `Pacing` says that
    the interval of a receiver's last request is over or recorded as a cooldown,
    that a reservation in hand is recorded, and that it is a new one; the action
    property follows from its last part.
  - `QueueIsWellFormed`, `NoEventIsLost`, `IsolationIsFinal` and
    `SilencesAreKept`: `TypeInvariant` with the bound on messages, `SentTellsAll`,
    `StaysIsolated` and `Silent`. `SentTellsAll` alone is not inductive: it does
    not say that the body in the worker's hand is complete. `Accounted` adds that
    the body of a waiting message, and the one a busy worker holds, count all its
    events; that nothing can join a message the worker is busy with, because it is
    leased, withdrawn or past its merge window (`Closed`: the one step that takes
    the lease of such a message, a retry by hand, ends its window too); that an
    event is decided once, so a dropped message does not come back
    (`DecidedOnce`); that no waiting message is under an active silence or was
    called silenced (`SilencesObeyed`, `WithdrawnStay`); and that only quarantined
    messages have no attempts left, which bounds the attempts. Steps that create
    no message share one argument (`NoNewMessage`); deciding an event has its own.
  - `RecoveriesDoNotOvertake`, `Spec => [][NotOvertaking]_vars`, assuming
    `Interval = 0`, which is what `NotOvertaking` is about. `Ordered` relates the
    recovery, the updates it ends and the worker's list: an update that was not
    handled has no attempt and no lease; once its recovery is queued it is due,
    closed to events and due no later than the recovery (`UpdatesFirst`); a pass is
    for the configured receiver, open until the pass ends, and lists such updates
    before the recovery (`BatchOrdered`), so they are claimed when their turn
    comes. That the list holds all due messages in order follows from the fetch
    being an injection into a set of its own size (`DueListed`).
* `JournalCursorProofs`: `ReadinessIsHonest`, `Spec => []ReadyIsHonest`. A state
  that publishes "retrying" while the reader has forgotten a marker that the
  store holds satisfies `ReadyIsHonest`, and the next launch would break it. The
  invariant `Honest` adds that the store's marker implies the reader's.
  `EntriesAreTakenOnce`, `Spec => []EachEntryOnce`, and
  `LossesAreKnown`, `Spec => LossIsKnown`, for every journal, window, backlog
  limit and sequence of faults, and a cache of a single cursor; both speak of the
  time until the clock is set back. A state whose cursor was forgotten and whose
  acknowledged time is too early satisfies both, and would replay what it
  committed; the invariant `Replay` says where replay may begin:
  - `Ranges` and `AtHand`, whatever the clock does: the types, the backlog, the
    line in hand, and that the checkpoint's own cursor is in the cache;
  - `Timed`: records are in the order of their times, the reader knows no more
    than the store, and the store's time is that of its cursor;
  - `WorkIsBehind`, `ReadIsBehind`, `SinceIsBehind`: every readable record before
    the last one committed or prepared, before the reading position, or dropped
    as too old, is `Behind`: gone, outside the window, before the forced time, or
    not after the acknowledged time and cursor, so no later attempt delivers it;
  - `WorkIsSkipped`, `HandIsNew`: the attempt under way delivers nothing before
    the last record worked on, hence (`Taken`) counts and observes only new ones;
  - `ForgottenIsKnown`, `DroppedIsKnown`: a forgotten cursor leaves a published
    gap from its time on, and what lies beyond the checkpoint and is skipped is
    gone, recorded, inside such a gap or outside the window.
* `ConfigApplyProofs`: `ApplyIsRecoverable`, `Spec => []Recoverable`,
  `ServicesRunWhatIsSaved`, `Spec => []RunningIsSaved`, and `UndoTouchesItsOwn`,
  `Spec => UndoIsExact`, for any set of managers and any number of operations,
  faults, edits and crashes, from `ConfigAssumption` (the kinds of files the
  operations name exist, and `None` is no manager, content, journal or command).
  The argument has two layers, since what the units run follows from the files
  and never the other way round.
  - `Kept`, about the files, is inductive by itself. Nothing carries a serial
    that is still to be drawn (`Drawn`), so a new file is nobody else's;
    exactly the process past its form holds the lock (`OneHolder`); a pending
    journal covers the file (`JournalCovers`). For the holder, `FilesOf` ties
    each place of the operation to the journal and the file: from the moment the
    journal exists it says what the operation says, the staged file is none of
    those the previous configuration names, and before the candidate is written
    or the old content restored the file was seen to hold what is replaced.
    `Recoverable` alone is not inductive: a state in which the process about to
    write holds a candidate whose files are gone satisfies it.
  - `Served`, about the units, is inductive given `Kept`. At most one command is
    under way, the holder's for its first remaining step or a dead manager's
    (`OneCommand`); the journal lists only units that were unmasked and that the
    old configuration enables (`RanOf`); without a journal the units run what is
    saved, also after a dead manager's command ends (`Steady`). `UnitsOf` says
    for each list of remaining steps which steps are behind it and hence what is
    down and what the daemon has loaded; `StepDoneUnits` is the one lemma about
    finished steps, with or without a command (`Did`). With a journal, or before
    the daemon is restarted, `RunningIsSaved` may fail, which is why the places
    have to be told apart.

* `EventQueueProofs`: `NoEventVanishes`, `Spec => []EventsAccounted`, and
  `EventsAreSavedInOrder`, `Spec => []SavedInOrder`, for any number of events,
  any limits of queue and flush, and any faults. The invariant `Traced` adds what
  a later step needs: the events of a queue are in the order of detection and
  none is before the last one saved, except that its head may be that very one,
  applied and reported as failed (`QueueBehind`); every marker recorded stands for
  events that really died, and a process that is down holds neither a queue nor a
  count of losses (`MarkersTrue`).
* `BackupRestoreProofs`: `BackupsAreSafe`, `BackupSpec => [](PublishedWhole /\
  RestoredHeld) /\ NeverReplaced`, for any number of jobs and paths and any
  releases found (`ReleasesAssumption`: versions are numbers). That what is
  published is whole and held depends on the temporary file of each job: the
  invariant `BackupInv` says that it is synced and secured from the verification
  on (`Copied`), that a backup's copy keeps the hold its source has, and that a
  job has the source, path or running daemon its next step reads (`Equipped`).
  `BackupsAreSound`, `BackupSpec => BackupSound`, adds that this release accepts
  every database its operations make of one it accepts. Its hypothesis, that the
  verification accepts the schema of each of the fourteen versions
  (`Accepted`), has no parameter; it is computed from the lists of
  `SnapshotSchema`, and the run `Host` evaluates it as part of `BackupsAccepted`.

Only model-checked: liveness (out of the prover's reach), the bytes of the
outbox's queue (`BytesOf` is a recursive sum over a set), `OperationsEnd`, and the
modules `Monitor`, `StoragePressure`, `InterfaceCounters`, `CoverageLedger`,
`AuthDetector`, `NetworkDetector`, `Reports`, `GeoUpdate`, `GeoDownload` and
`HistoryPages`. `MMDBValues`, `SnapshotSchema` and `Reports` compute with
recursive functions over data, whose value for every input is out of reach as
well.

## Findings

* `OfficialLineClock`: `BeginOfficialDispatch` bounds a LINE retry by wall-clock
  differences. If the clock is set back while the row waits, the retry key can
  be presented more than 24 hours of true time after the first POST, whereas
  `docs/OFFICIAL_NOTIFICATION_CHANNELS.md` states the bound "including restart
  and clock rollback". `AtMostOnceDelivery` is therefore stated for LINE with a
  clock that was not set back.
* `SensorRetired`: the watermark to retire is chosen by wall-clock
  `committed_at`. With a full table and a clock set back, the live session's own
  row is retired at once, and its next batch is taken for a new session's,
  whereas `docs/ARCHITECTURE.md` says older unknown sessions are "rejected
  rather than guessed to be new".
* `MonitorRecovery`: when a commit was applied and reported as failed, the passes
  that follow revise the pending transition in memory; at the conflict only the
  latest observation is evaluated against the durable state, and an unhealthy
  pass in between is forgotten. Recovery can then be announced before a whole
  recovery period of health, whereas `docs/ALERTS_EVIDENCE.md` requires "10s–1h
  of observed healthy state before recovery".

## Not modelled

Message text, HTTP encoding, formats and the command line carry no state of
their own, and neither do evidence exports, replay, privacy, billing and the
values of the configuration; of the console only the history browser has state
that outlives a request. Packet decoding, netlink messages and the search tree
of a GeoIP database are byte decoding (the memo of `boundMMDBTree` included).
The statements of the SQL migrations appear as the parts they add to a schema;
types, defaults and moved data are left out.

In `Outbox`: messages without an event (reports, test messages), the activation
time of native channels, the pruning of sent rows, and the clock being set back.
Store errors appear as steps that end a pass; a transaction either commits or
leaves no trace, as SQLite provides. In `JournalCursor`: the diagnostics of a
status, the length of the backoff, and the coverage rows made of published gaps.
Two limits of the code are visible in its properties, which hold while the clock
is not set back: after that, replay by time may skip or repeat. A gap of
historical kind is published once and not retried if its row cannot be stored,
and a gap published before anything was acknowledged is stored as a single
instant (`journalCoverageGap`); `LossIsKnown` is about published gaps. In
`CoverageLedger`: units in which the clock was set back under a running process,
or whose state could not be written, are excused. In `BackupRestore`: an older
release running a restored database of its own version, which may drop the
marker that a later migration turns into a hold. In `Monitor`: the cost and
growth rules, and how an observation is read from the tables.

## Plan

Modelled so far: all components of the inventory except capture and
aggregation and the stateless ones. What is left, in order:

1. Proofs: `BudgetExact` and `SlotsAccounted` of the detectors; the accounting
   of losses in `StoragePressure`; `HealthReadable` of `GeoUpdate` and
   `InstalledIsValidated` of `GeoDownload`.
2. An abstract configuration switch that `ConfigApply` implements, and an
   abstract journal in which every entry is applied once or its gap is recorded.
3. The aggregator of the sensor as a bounded algorithm; reports and test messages
   in `Outbox`.
