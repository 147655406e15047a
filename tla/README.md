# A TLA+ verification of npm-sentinel

npm-sentinel scans npm packages for suspicious changes.  Requests for scans come
from an HTTP API, from batches and from a scheduler; they are recorded in
PostgreSQL, queued in RabbitMQ through Celery, and carried out by worker
processes that fetch registry metadata, download and analyse two versions of the
package, and store findings and a score.  This directory models the program in
TLA+, checks it on small instances with TLC, and proves its central properties
for all instances with TLAPS.

## 1. Inventory

| Component | Code (`src/`) | State it keeps | Operations | Properties that make it correct |
|---|---|---|---|---|
| Enqueueing | `app/application/use_cases/enqueue_scan.py` | none of its own; rows it records | `execute`: record, publish, handle a failed publish | a recorded request is published or its failure recorded |
| Task publishing | `app/infrastructure/queue/producer.py` | - | `_send_task` | every broker error becomes `QueuePublishError` |
| Broker and Celery | `app/worker/celery_app.py` (configuration) | queue, unacknowledged deliveries | deliver, redeliver, retry, acknowledge | no task is lost while its worker has not finished it |
| Worker task | `app/worker/tasks.py` | `queue_jobs` row of the task | mark running, completed, failed; re-raise for retry | a job row ends when its last delivery ends |
| Scan pipeline | `app/application/use_cases/scan_package.py` | the claimed `scan_results` row | claim, set versions, analyse, save, fail | one worker per row, final outcomes stay, tables agree |
| Repository | `app/infrastructure/db/repositories.py`, `unit_of_work.py` | `packages`, `package_versions`, `scan_results`, `findings`, `queue_jobs` | one method per statement; one transaction per unit of work | guarded status changes; read models agree with the tables |
| Update monitor, scheduler | `app/application/use_cases/monitor_updates.py`, `app/scheduler/main.py` | counters of a tick, semaphore, shutdown flag | tick: fetch, compare, skip or enqueue; sleep | unchanged packages are not enqueued, new versions eventually are, counters add up |
| Batch | `app/application/use_cases/enqueue_top_packages_batch.py`, `tasks.enqueue_top_packages` | counters, `queue_jobs` row | enqueue each package of the list | each listed name once and in order; whatever fails, every message has its row and at most one row is without its message |
| Package list | `app/infrastructure/package_list/` | - | fetch and parse names | unique, non-empty, at most `limit` |
| Registry client | `app/infrastructure/npm/registry_client.py` | - | `fetch_metadata`, previous version | the previous version is the newest published strictly before |
| Downloader | `app/infrastructure/npm/tarball_downloader.py` | the partial file | stream, limit, integrity | a returned file is complete, within the limit and verified |
| Extractor | `app/infrastructure/scanner/extractor.py` | - | validate, extract | nothing is written unless every member passed |
| Analyzer, detectors | `app/infrastructure/scanner/` | - | pure functions of two trees | a comparison never lowers a score |
| Scoring | `app/domain/scoring.py` | - | score, risk level | between 1 and 100; weights and thresholds fit each other |
| Read API | `app/api/routes.py`, `list_*` use cases | - | queries | answers made of several statements are coherent; no row is lost between pages |
| Configuration, logging, wiring | `app/core`, `app/main.py` | settings | - | not modelled: no behaviour of its own |

The components interact through the five tables, through task messages, and by
direct calls.  What makes them hard is concurrency across processes:

* a request's transaction, its publication and the recording of a failed
  publication are three steps of a process that may die between them;
* tasks are acknowledged late, so a message is delivered again when a worker or
  its connection is lost, possibly while the first delivery still runs;
* a task claims *a* queued row of its package, not the row its own request
  recorded, and makes a new one when there is none;
* a retry reuses the task id, so several deliveries move one `queue_jobs` row;
* a transaction may have committed although its caller saw an error;
* an attempt downloads, unpacks and compares what others chose the size and the
  shape of, and each of its many exceptions is retried or not by its class;
* a reader runs several statements, each on the tables of its moment, and pages
  through listings that scans reorder meanwhile.

`PROJECT.json` lists these hazards at their lines with the properties that
would notice them going wrong.

## 2. Modules

| Module | What it is |
|---|---|
| `ScanStore` | the tables `scan_results`, `findings` and `queue_jobs` as values, and each repository write as an operator from table to table |
| `ScanLifecycle` | the enqueuer, broker and worker processes as a state machine over those tables, with explicit faults |
| `ScanAttempts` | the abstract specification: a history of scan attempts, free of processes and messages |
| `ScanProperties` | invariants, action properties, liveness and the refinement of `ScanAttempts`, stated over `ScanLifecycle` |
| `MCScan` | small instances of `ScanLifecycle` for TLC |
| `ScanStoreTheorems` | what the operations of `ScanStore` do to a well-formed table, proved |
| `ScanLifecycleProofs` | the inductive invariant of `ScanLifecycle` under every fault, and the theorems that follow, proved |
| `ScanTablesProofs` | the agreement of the tables and the refinement of `ScanAttempts`, proved |
| `ScanProgressProofs` | that open rows have something under way that closes them, proved |
| `UpdateMonitor` | the scheduler loop and the coroutines of a tick, with the registry and the scan pipeline as environment |
| `UpdateMonitorProofs` | the inductive invariant of `UpdateMonitor` and the theorems that follow, proved |
| `MCMonitor` | small instances of `UpdateMonitor` for TLC |
| `TarballDownload` | one download, chunk by chunk, as a state machine of its own |
| `Registry` | what the registry client makes of a document, with a reference for the previous version |
| `Extraction` | the checks on an archive, with a reference for what is within bounds |
| `Detectors` | the detectors, the scoring and the risk levels |
| `PackageScan` | what an attempt does between its transactions; composes the four modules above |
| `MCPackageScan` | a small instance of `PackageScan` for TLC |
| `LoopTheorems` | loops over a list as recursive functions: existence, and induction over their turns |
| `PackageScanProofs` | the invariants of a download and of a whole attempt, what its loops and its scoring compute, proved |
| `Catalogue` | the tables as readers see them, and the transactions that change them |
| `ReadApi` | the GET routes, statement by statement, over `Catalogue` |
| `Batch` | the package list, the batch loop, its route and its task, over `Catalogue` |
| `Service` | composes `ReadApi` and `Batch`; implements `ScanAttempts` |
| `MCService` | a small instance of `Service` for TLC |
| `ServiceProofs` | what transactions keep, what readers may rely on, what a batch leaves behind, and the theorems about `Service`, proved |

### How the model corresponds to the code

*State.* `scans` is `scan_results`, the position being the id; `scans[i].findings`
stands for the `findings` rows of row `i` and is the version whose analysis
produced them.  Score, risk level and `finished_at` are set exactly with the
completed status and carry no further state.  `jobs` is `queue_jobs`, `scanned`
is `packages.latest_scanned_version`, `known` is `package_versions`.  `ready` is
the bag of messages in the queue.  `enqueuer[t]` and `worker[w]` are the local
variables and program counters of the two kinds of process.  `created_at` is not
kept: rows are claimed in the order of their ids, which is that of `created_at`
unless two requests for one package open their transactions together.

*Transactions* (`async with repository_unit_of_work_factory()`) are single
actions.  The claiming and the enqueuing transaction start with `upsert_package`,
an `INSERT ... ON CONFLICT DO UPDATE` that locks the package row until commit;
the others update single rows by id with a guard in the `WHERE` clause.  The one
transaction that reads a status and writes depending on it without a lock,
`set_scan_versions`, is split in two (`FetchMetadata` reads, `CommitVersions`
writes), so that other processes can act in between.

*Actions.*  `RecordRequest`, `Publish`, `PublishFails`, `RecordPublishFailure`
are the parts of `EnqueueScanUseCase.execute`.  `Deliver`, `Redeliver`,
`WorkerDies`, `Retry`, `RetryLost`, `Ack` are what the broker and Celery do under
the configuration in `celery_app.py` and are external.  The others follow
`tasks.scan_package` and `ScanPackageUseCase.execute` line by line: mark the job
running, claim, fetch and set versions, analyse, save, and on the error path fail
the attempt, fail the job, re-raise.  Download, extraction and analysis touch
nothing shared: they succeed or raise (`ScanStepFails`), with an exception that
Celery retries or one that it does not.

*Faults* are actions that a model enables by naming their kind in `Faults`, at
most `MaxFaults` times altogether: `publish` (the broker client reports an error;
the message may have been accepted), `enqueuer` (the enqueuing process dies),
`worker` (a worker dies; its message goes back), `redeliver` (a connection is
lost; the message goes back and the task runs on), `database` (a worker's
transaction reports an error and may or may not have committed), `workspace` (the
temporary directory of an attempt cannot be made or removed), `direct` (a task
sent to the queue without rows of its own, which `_mark_queue_job_running`
provides for).  The temporary directory (`scan_package.py:49`) surrounds all that
the use case handles, so `WorkspaceError` goes past its error path to
`fail_job`: before the claim, after the result was saved, or after the attempt
was failed, where the new exception takes the place of one that is retried.

*The monitor.*  `check[p]` is the coroutine `_process_package` of package `p`, and
each of its actions is the code between two awaits: waiting for the semaphore
(`Acquire`), fetching (`FetchReturns`, `FetchFails`), loading the package's state
and classifying (`LoadState`), looking for a running row (`CheckRunning`), and the
two parts of `EnqueueScanUseCase.execute` (`RecordRequest`, `Publish`; publishing
is a synchronous call, so nothing comes between it and the counting).
`CheckFails` is an exception at any of these points; the transaction that records
a failed publication is part of it, since the monitor reads nothing it writes.
The order in which the semaphore wakes its waiters is left open.  A package
without a row has neither `latest_scanned_version` nor running rows, so
`package_id is None` needs no state of its own.  The package list and the
settings are constant; names in it are unique, as the list source makes them.

The pipeline is the monitor's environment, reduced to what the monitor can see
of `ScanLifecycle`: deliveries to come, running rows, rows left running by a lost
worker, and `latest_scanned_version`, which a completed scan overwrites with the
version it fetched, whatever was there.

*An attempt between its transactions.*  `PackageScan` is the inside of the steps
`FetchMetadata` to `ScanStepFails` of `ScanLifecycle`, for one attempt: the stages
of `ScanPackageUseCase.execute`, each of which may end the attempt with a
`reason`, whether the stage converts its exceptions or, as with a truncated gzip
stream, lets some of them through.  `Classes` gives the exception of every reason with its base classes,
and `Retried` what Celery does with it.  A registry document is reduced to the
publication times, their time zones, and which entries are well formed; an
archive to its members' kind, size, depth and where they lead; a file to its
extension and the answers of the detectors' patterns, which are data.  Every
stage chooses its input when it reads it, since no stage but the comparison looks
at an earlier one's.  The size detector compares a floating-point percentage; for
sizes below 2^31 the quotient is on the same side of 30 and 100 as the exact one,
so that `DetectSizeIncrease` compares integers.  `TarballDownload` has an action
for every await and write that may raise; `Discard` is the removal of the file
with the failure of the removal itself.

*Readers.*  A request runs its statements one by one in read committed isolation;
`step` is the next one.  A listing is modelled by the position of each row, not by
timestamps: a new row or a claimed one takes any position its timestamp may give
it, and others move down.  This assumes clocks that agree, so that a claim never
moves a row down.  `due` remembers the rows that were there when a walk through
the pages began and have kept their place.  The look-up of the package by name
that precedes the versions of a package is part of their first statement: the row
of a package never goes away.  The transactions of `Catalogue` are those of runs
without publish failures and database errors, as for `ScanAttempts`; what is
written after the last answer is of no concern to the client and left out.

*Batches.*  `Batch` has one execution at a time; a redelivery comes after a death.
`EnqueueScanUseCase` is inlined with its two steps and its failures: the row of a
name is recorded, then its message is published.  Nothing claims the rows
meanwhile, since a batch reads nothing that scans write; for the same reason
`Service` has either a reader among scans or a batch.  The task may be sent with
an id of its own (`ownId`) or without.

## 3. Runs

The runs `scan_*` have one package, because rows of different packages never meet in an
operation, and two workers, the least that can interfere.  Two requests let a
delivery take another request's row.  `MaxRetries` is 1 where retries matter (3 in
the code): a second retry repeats the first from the same states.  Versions are
two where results must be told apart and one elsewhere.  Runs of safety
properties use the symmetry of tasks and workers; runs of liveness do not.
Deadlock is checked in every run; `AtRest` (`Ended` in
`PackageScan`) is the only way to stop.

| Run | Faults allowed | Checks | Shows |
|---|---|---|---|
| `scan_faults` | all kinds, 2 | `TypeOK`, `ScanOwnedOnce`, `CompletedScanIsFinal` | no row has two workers; completed attempts are final |
| `scan_delivery` | worker, redeliver, direct, 1; one retry | `QueuedScansAwaited` | a queued row is never left without a delivery to take it |
| `scan_tables` | worker, redeliver, workspace, direct, 2 | `FindingsAreOfCompletedScans`, `ScannedVersionHasScan`, `CompletedJobsHaveScans`, `ImplementsScanAttempts` | tables agree; refinement of `ScanAttempts` |
| `scan_overlap` | publish, redeliver, workspace, direct, 1; one retry | `LiveJobIsPending`, `RunningScanHasWorker` | an open row has something under way that closes it |
| `scan_jobs_settle` | publish, worker, workspace, direct, 2; one task, one retry | `LiveJobIsPending`, `JobsSettle` | an open job is under way and ends, though workers die |
| `scan_scans_settle` | redeliver, direct, 2 | `ScansSettle`, `JobsSettle` | every attempt and every job ends, though deliveries overlap |
| `scan_publish_lost` | publish, 1 | `PublishFailureIsPersisted` (violated) | finding 1 below |
| `scan_worker_lost` | worker, 1; one task | `ScansSettle` (violated) | finding 2 below |
| `monitor_ticks` | one failure of any kind | `TypeOK`, `CountersAddUp`, `SlotsConserved`, `TickEnds`, `ShutdownStops`, `EventuallyScanned` | accounting of a tick; ticks and shutdowns end; every package reaches its latest version |
| `monitor_skip_stuck` | one failure; skipping set | `UpdatesAreScanned` (violated) | finding 3 below |
| `package_scan` | the failures of each stage that `Classes` lists, one per attempt | `TypeOK`, `DiskWithinLimit`, `WholeFileOrNone`, `PreviousIsPredecessor`, `ArchiveChecksExact`, `RejectionsAreFinal`, `BaselineNeverLowersScore`, `RiskCalibration`, `ScanEnds` | limits hold to the byte, the right version is compared, retries are spent where they can help, scores fit |
| `service_traffic` | death, publish and database errors of a batch, 2 deliveries | `TypeOK`, `WalkComplete`, `PageWithinTotal`, `DetailCoherent`, `FilteredLabel`, `BatchWhole`, `MessagesMatchRows`, `BatchRowAwaited`, `TablesAreScanAttempts` | answers are coherent under concurrent scans; batches are whole; refinement of `ScanAttempts` |

`monitor_ticks` has two packages and one fetch slot, so that one coroutine waits
for the other's; two versions, so that a package is new, updated or unchanged,
and so that a scan that fetched the old version can finish after one that fetched
the new; and both values of `scheduler_skip_running_scans`.  `MaxOpen` = 2 lets a
tick start while fewer than two scans of each package are open; without it a
monitor that is faster than its workers opens ever more scans, since
`has_running_scan` does not see queued rows and is off by default.

`package_scan` has every document of three versions with three publication times,
which holds ties with the latest and ties before it; chunks of 1, 2 and 4 against
a limit of 3; archives of up to one member more than the limit, from one member
for each check on either side of it; one required and one optional hook; trees up
to one file over the limit; and sizes at, below and above each threshold.  Stages
forget what no later one reads, which keeps the product of these inputs apart.

`service_traffic` has two packages, a page size of one, and two rows of each
listing, the least that can change places between two pages: the theorems below
show the read properties for any number.  The lists have up to three entries, with
repetitions, blanks and an invalid name, and limits below and at their length.

*Where a property needs fewer faults, the reason is in the code.*  With `publish`
faults the attempt of a failed request stays queued (finding 1), and its failure
handler may fail a row that another delivery is scanning, which then stores
findings in a failed row: the agreement of the tables is claimed without them.
With `database` faults `_mark_scan_failed` swallows its error and leaves the row
running, and an error in `_mark_queue_job_failed` replaces the exception Celery
would have retried.  With `enqueuer` faults a recorded request has no message.
With `workspace` faults a delivery may end without having claimed, and leave its
request's row queued: `QueuedScansAwaited` and `ScansSettle` are claimed without
them.  With both `redeliver` and `worker` faults a worker that lost its connection
can mark a job running again (`repositories.py:261`) that the redelivered message
has dealt with, and then die, with no message left to go back: the job stays
running for ever.  `LiveJobIsPending` and `JobsSettle` are therefore claimed with
either of the two faults and not with both: `JobsSettle` is checked with dying
workers and a retry in `scan_jobs_settle`, and with overlapping deliveries in
`scan_scans_settle`, where a retry would be too large for TLC; `LiveJobIsPending`
is checked with overlapping deliveries and a retry in `scan_overlap`.

*Fairness.*  `FairSpec` assumes that a recorded request goes on to be published
or its failure handled, that a free worker takes a waiting message, and that a
running task reaches its next step (every external call has a timeout).  Weak
fairness suffices since nothing but the process itself disables these steps.
Faults are never assumed to happen.
For the monitor the same is assumed of its timer, of each coroutine, and of the
pipeline, which starts and ends the scans it was asked for, unless a worker is
lost; that a delivery may also end without a claim is left out.  Nothing is
assumed of releases, failures and signals.  `ScanEnds` assumes that an attempt
goes on from stage to stage: the registry client and the downloader have
timeouts, and nothing else waits.  A body sent in ever more chunks ends at the
size limit.

### Findings

1. `scan_publish_lost`: `EnqueueScanUseCase.execute` calls `mark_scan_failed` for
   a row that it has just inserted as queued; `mark_scan_failed` updates running
   rows only, so the attempt stays queued for ever, or is later taken by another
   request's task (`evidence/architecture_notes.md:54`: "Failure states are
   persisted with error messages.").
2. `scan_worker_lost`: nothing ends a row that was running when its worker died;
   the redelivered task works on another row (`PROJECT_PLAN.md:53`: "Persist
   failures instead of silently losing them.").
3. `monitor_skip_stuck`: with `scheduler_skip_running_scans`, the row of finding 2
   makes every later tick skip its package, so new versions of it are no longer
   scanned (`PROJECT_PLAN.md:993`: "Scheduler enqueues updated packages.").
   `EventuallyScanned`, which leaves this case out, holds.

## 4. Proofs

`ScanLifecycleProofs` proves, for any sets of packages, tasks and workers, any
number of versions, retries and faults, and every fault kind, under the
assumptions `MaxVersionAssumption` and `LifecycleAssumption` (each task id has a
package, `NoTask` is no task, the numbers are numbers):

| Theorem | Statement |
|---|---|
| `LifecycleInvariant` | `Spec => []LifecycleInv` |
| `TypeCorrect` | `Spec => []TypeOK` |
| `ScanOwnership` | `Spec => []ScanOwnedOnce` |
| `CompletedFinal` | `Spec => CompletedScanIsFinal` |

*The invariant.*  `ScanOwnedOnce` is not inductive: that a claim does not give out
a row in use needs that no row in use is queued.  `LifecycleInv` adds
`ScannedRowIsOpen` (a row being scanned is running or was failed by someone else),
`HeldScansExist` (ids that processes keep name rows), `BusyHasTask` and the types.
A claim takes a queued row or appends one, so no scanning worker holds it
(`ClaimOwnership`); every other step changes only the row its worker holds, never
back to queued, and no other worker holds that row (`HeldRowOwnership`); the
publish-failure handler can only move a running row to failed
(`EnqueuerOwnership`).  `CompletedFinal` follows since every write goes to a row
that is held, hence not completed, or is guarded by the running status.
The effect of each repository operation on a table is proved once, in
`ScanStoreTheorems`.

The other properties of `ScanLifecycle` hold under some faults only (section 3
says why in the code); their theorems have those faults as hypotheses and leave
everything else open, the other fault kinds and `MaxFaults` included.
`ScanTablesProofs` assumes `NoReportedErrors` (no `publish` and no `database`
faults; workers, enqueuers and connections may be lost, temporary directories fail,
and tasks be sent directly):

| Theorem | Statement |
|---|---|
| `RowsInvariant` | `Spec => [](LifecycleInv /\ RowsInv)` |
| `FindingsOfCompletedScans` | `Spec => []FindingsAreOfCompletedScans` |
| `ScannedVersionsHaveScans` | `Spec => []ScannedVersionHasScan` |
| `CompletedJobsBacked` | `Spec => []CompletedJobsHaveScans` |
| `LifecycleRefines` | `Spec => ImplementsScanAttempts` |

*The invariant.*  `RowsInv` says that a held row is running (`HeldRowRunning`) and
held once (`HeldOnce`), and that the version a worker analyses is the one its row
records (`VersionHeld`).  None of it is true with reported errors: the handler of
a failed publication may fail a row in use.  `CompletedJobsHaveScans` counts, and
a step changes the two counts at different times; `DoneHaveScans` therefore counts
the workers that have saved a result and not yet completed their job with the jobs.
The refinement maps every row to an attempt and every step to one step of
`ScanAttempts` or none (`StepIsAttempt`).

`ScanProgressProofs` needs no process to be lost that would have closed the row:

| Theorem | Statement | Excluded faults |
|---|---|---|
| `RunningScansHaveWorkers` | `Spec => []RunningScanHasWorker` | `worker`, `database` |
| `LiveJobsArePending` | `Spec => []LiveJobIsPending` | `enqueuer`, `database`, and `worker` together with `redeliver` |
| `QueuedScansAreAwaited` | `Spec => []QueuedScansAwaited` | `publish`, `enqueuer`, `database`, `workspace` |

*The invariant.*  `QueuedScansAwaited` compares rows with the messages waiting, the
deliveries that have yet to claim and whose message the broker still holds for
them, and the requests about to be published.  A delivery that takes a row of
another request leaves that request's delivery without one, which is why the two
sides are counted for each package and not matched.  `ClaimsCounted` is inductive
with `RowsInv`; a step changes each set by one member, and the lemmas say by which.
`LiveJobIsPending` needs that a free worker keeps no task (`IdleForgets`) and,
where workers die, that the broker still holds the message of every busy one
(`BusyHeld`), which is so as long as no connection is lost.

`UpdateMonitorProofs` proves, for any finite package list, any concurrency and
any number of failures, under `MonitorAssumption`:

| Theorem | Statement |
|---|---|
| `MonitorInvariant` | `Spec => []MonitorInv` |
| `MonitorTypeCorrect` | `Spec => []TypeOK` |
| `SlotsAlwaysConserved` | `Spec => []SlotsConserved` |
| `CountersAlwaysAddUp` | `Spec => []CountersAddUp` |

*The invariant.*  The types and the slots need each other: that a returned slot
leaves `permits` within the concurrency follows from the fetching coroutine being
counted.  `CountersAddUp` speaks of finished packages only, so `MonitorInv` also
counts the coroutines between the arrival of their metadata and their decision
(`CheckedAccounted`), and says that none is left outside a tick
(`IdleBetweenTicks`).  `DoingMoves` gives the effect of one coroutine's move on
the number of coroutines at a set of places; each action is then one move and at
most one count.

`PackageScanProofs` proves, for any limits, chunk sizes, documents, archives, trees
and sets of hooks:

| Theorem | Statement |
|---|---|
| `DownloadInvariant` | `DownloadSpec => []DownloadInv` |
| `DiskStaysWithinLimit` | `DownloadSpec => []DiskWithinLimit` |
| `WholeFilesOnly` | `DownloadSpec => []WholeFileOrNone` |
| `ScanInvariant` | `Spec => []ScanInv` (of `PackageScan`) |
| `ScanDiskWithinLimit` | `Spec => []DiskWithinLimit` |
| `ScanWholeFiles` | `Spec => []WholeFileOrNone` |
| `AttemptInvariant` | `Spec => []AttemptInv` |
| `AttemptTypes` | `Spec => []TypeOK` |
| `PreviousVersionIsPredecessor` | `Spec => []PreviousIsPredecessor` |
| `ArchivesCheckedExactly` | `Spec => []ArchiveChecksExact` |
| `RejectionsStayFinal` | `Spec => []RejectionsAreFinal` |
| `ComparingNeverLowersScore` | `Spec => []BaselineNeverLowersScore` |
| `RiskIsCalibrated` | `Spec => []RiskCalibration` |

*The invariants.*  For a download: while the body is streamed, what is on the disk
has to be what was counted and, with a digest, what was hashed (`BodyCounted`), and
before there is no file (`BeforeBody`).  For a whole attempt, `FileInv` is carried
from the first download to the second, which starts afresh, and `ReasonFails` ties
the reason of a failure to the state it ends in.  The other properties speak of
one stage each, so that `AttemptInv` adds where the values of a stage come from
(`DocumentUsed`, `ArchiveJudged`, `AnalysisScored`); what is left is what the
program computes from them.

*The loops.*  The loop of `_resolve_previous_version_name`, that of
`_validate_archive` and that of `_parse_package_names` are recursive functions of
the number of turns done.  `LoopTheorems` proves that such a function exists
(`LoopExists`) and that what holds at the start and survives a turn holds at the
end (`CountingUp`), by a least counterexample, since the library's induction
theorem cannot be instantiated.  `BestIsLast` then says that after n entries the
candidate is the newest of those before the latest among them, `VerdictExact` that
an archive is accepted exactly if each member and the total are within bounds.

*The score.*  Adding the points finding by finding is adding, type by type, the
weight times the number of findings; `CalculateScore` is written that way, so that
comparing two trees is comparing eight counts.  `ComparingAdds` shows that a
previous version turns hooks that are present into hooks that are added or present
and changes no other count but those of the sizes; added hooks weigh more.

`ServiceProofs` proves, for any packages, versions, risk levels, page sizes, lists,
numbers of rows and deliveries:

| Theorem | Statement |
|---|---|
| `ServiceInvariant` | `Spec => []ServiceInv` |
| `WalksComplete` | `Spec => []WalkComplete` |
| `PagesWithinTotals` | `Spec => []PageWithinTotal` |
| `DetailsCoherent` | `Spec => []DetailCoherent` |
| `FilteredLabels` | `Spec => []FilteredLabel` |
| `ServiceTypes` | `Spec => []TypeOK` |
| `BatchesWhole` | `Spec => []BatchWhole` |
| `MessagesMatch` | `Spec => []MessagesMatchRows` |
| `BatchRowsAwaited` | `Spec => []BatchRowAwaited` |
| `ServiceRefines` | `Spec => TablesAreScanAttempts` |

*The invariant.*  `CatalogueInv` says that the positions of a listing are distinct
ranks and that rows, results and versions agree (`RanksOK`, `RowsCoherent`).
`TablesGrown` is what a transaction may do to the tables between two statements:
rows are added, completed rows stay completed, and a row moves down in a listing
unless it was claimed.  What a reader has learnt survives such a step, and that is
`ReadInv`: a row that is due was shown or lies beyond the pages reached
(`DueAhead`), so that none is left at the end; a page is no larger than the
positions behind its offset, of which there were no more than rows (`PageSized`);
and what one statement of a detail found gives a lower bound for the next ones
(`ScanRead`, `VersionsKnown`, `VersionsRead`).  `FilteredLabel` needs no memory:
the latest scan is the latest completed one, or has no result.  `JobsInv` adds to
`BatchRowAwaited` that a batch with an id of its own uses one row only.
`LoopInv` ties the names requested to the position in the list, which holds each
name once (`ListedDistinct`); `RowsInv` adds to `MessagesMatchRows` the room for
what is about to be counted: the row that is recorded and not yet published
(`Unsent`), and the execution that has yet to fail (`Spare`).  The
refinement maps a row to an attempt (`AttemptsIn`) and each transaction to one
step of `ScanAttempts`.  `ServiceRefines` says no more than that: `Catalogue` does
to the tables only what the history allows.  `ScanLifecycle` implements the same
history, but nothing here shows that `Catalogue` allows all that `ScanLifecycle` does.

*A convention the proofs need.*  The SMT encoding of TLAPS 1.4.5 mistranslates an
`EXCEPT` that updates one index through two paths (`![w].pc = a, ![w].scan = b`)
into contradictory facts.  The specifications write
`![w] = [@ EXCEPT !.pc = a, !.scan = b]` throughout.

*Only model-checked.*  Every invariant and action property of the passing runs is a
theorem, and so are both refinements.  What only TLC checks is liveness, which is
out of the reach of TLAPS, as is `ENABLED`: `JobsSettle`, `ScansSettle`,
`TickEnds`, `ShutdownStops`, `EventuallyScanned` and `ScanEnds`, each on the
instance of its run.  That the counterexamples of the findings exist is a matter
of their runs, too.

## 5. Not modelled, and what could follow

* *Patterns and wording.*  The regular expressions of the detectors, of package
  names and of the package list are data; so are descriptions and evidence.
* *Requests and responses.*  Request parsing, response shapes, the filters of
  listings by name, status, severity and type, and the order of `/packages`.  A
  listing filtered by status loses rows as scans move on, so that its page may
  hold more rows than the total counted after it (`PageWithinTotal` is about
  unfiltered listings), and a package moves to the top of `/packages` when it is
  scanned; both are what the caller asked for.
* *Overlapping deliveries of one batch.*  A batch task whose connection is lost
  runs on while its message is delivered again; both then request every name.
* *Schema.*  The types of `ScanStore` and `Catalogue` are the schema; the Alembic
  scripts, indexes and cascades are not modelled (nothing deletes a package).
* *Configuration, logging, wiring and the health route* have no state.

Next would come the scheduler and the pipeline in one model, so that `EventuallyScanned`
need not reduce the pipeline to an environment.
