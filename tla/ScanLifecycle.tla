--------------------------- MODULE ScanLifecycle ---------------------------
(***************************************************************************)
(* A package scan from the request to its recorded outcome, across the     *)
(* three processes that take part in it:                                   *)
(*                                                                         *)
(*   - an enqueuer (API request, batch or scheduler) runs                  *)
(*     EnqueueScanUseCase.execute: one transaction writes the queued       *)
(*     scan_results and queue_jobs rows, then the message is published;    *)
(*   - the broker keeps messages and delivers each to one worker at a      *)
(*     time, again when a delivery is lost (acks_late,                     *)
(*     reject_on_worker_lost);                                             *)
(*   - a worker runs the Celery task scan_package around                   *)
(*     ScanPackageUseCase.execute: one step here per transaction or        *)
(*     external call there.                                                *)
(*                                                                         *)
(* Transactions of the code are atomic steps: the first statement of the   *)
(* claiming and of the enqueuing transaction (upsert_package) locks the    *)
(* package row until commit, the others lock the rows they update.  The    *)
(* one transaction that reads a status and writes on what it read,         *)
(* set_scan_versions, is two steps.                                        *)
(*                                                                         *)
(* Faults are explicit actions: a model says which kinds may happen        *)
(* (Faults) and how many times altogether (MaxFaults).                     *)
(***************************************************************************)
EXTENDS ScanStore

CONSTANTS Tasks,        \* task ids, one per enqueue request
          PackageOf,    \* the package_name argument each task id is for
          Workers,      \* worker processes; each runs one task at a time
          MaxRetries,   \* retry_kwargs max_retries
          Faults,       \* the kinds of fault that may happen
          MaxFaults,    \* how many faults may happen altogether
          NoTask        \* the task of an idle worker

FaultKinds == {"publish",   \* publishing to the broker reports an error
               "enqueuer",  \* the enqueuing process dies part way
               "worker",    \* a worker process dies during a task
               "redeliver", \* a connection is lost, its task runs on
               "database",  \* a worker's transaction reports an error
               "workspace", \* a temporary directory cannot be made or removed
               "direct"}    \* a task is sent without rows of its own

ASSUME LifecycleAssumption ==
    /\ PackageOf \in [Tasks -> Packages]
    /\ MaxRetries \in Nat
    /\ Faults \subseteq FaultKinds
    /\ MaxFaults \in Nat
    /\ NoTask \notin Tasks

VARIABLES scans,     \* table scan_results, with findings
          jobs,      \* table queue_jobs
          scanned,   \* packages.latest_scanned_version
          known,     \* table package_versions: the versions recorded
          ready,     \* messages in the broker queue, as a bag
          enqueuer,  \* the enqueue request of each task id
          worker,    \* the local state of each worker process
          faultsLeft \* faults that may still happen

tables == <<scans, jobs, scanned, known>>
vars   == <<scans, jobs, scanned, known, ready, enqueuer, worker, faultsLeft>>

Message == [task : Tasks, retries : 0 .. MaxRetries]

EnqueuerPc == {"idle", "publish", "record_failure", "done", "failed", "dead"}

(* Where a worker process is: the step it will take next.                  *)
WorkerPc == {"idle", "mark_running", "claim", "fetch", "commit_versions",
             "analyse", "fail_scan", "fail_job", "complete_job", "retry", "ack"}

(* The local state of a worker process and of the task it runs; scan is    *)
(* scan_result_id, 0 for None.                                             *)
WorkerState == [pc         : WorkerPc,
                task       : Tasks \cup {NoTask},
                retries    : 0 .. MaxRetries,
                scan       : Nat,
                version    : VersionOrNone,
                sawRunning : BOOLEAN,
                willRetry  : BOOLEAN,
                held       : BOOLEAN]

Idle == [pc |-> "idle", task |-> NoTask, retries |-> 0, scan |-> 0,
         version |-> NoVersion, sawRunning |-> FALSE,
         willRetry |-> FALSE, held |-> FALSE]

TypeOK ==
    /\ scans \in Seq(ScanRow)
    /\ jobs \in [Tasks -> QueueJobStatus]
    /\ scanned \in [Packages -> VersionOrNone]
    /\ known \in [Packages -> SUBSET Versions]
    /\ ready \in [Message -> Nat]
    /\ enqueuer \in [Tasks -> [pc : EnqueuerPc, scan : Nat]]
    /\ worker \in [Workers -> WorkerState]
    /\ faultsLeft \in Nat

Init ==
    /\ scans = <<>>
    /\ jobs = [t \in Tasks |-> "none"]
    /\ scanned = [p \in Packages |-> NoVersion]
    /\ known = [p \in Packages |-> {}]
    /\ ready = [m \in Message |-> 0]
    /\ enqueuer = [t \in Tasks |-> [pc |-> "idle", scan |-> 0]]
    /\ worker = [w \in Workers |-> Idle]
    /\ faultsLeft = MaxFaults

-----------------------------------------------------------------------------
(* Helpers *)

Fault(kind) ==
    /\ kind \in Faults
    /\ faultsLeft > 0
    /\ faultsLeft' = faultsLeft - 1

Put(m) == ready' = [ready EXCEPT ![m] = @ + 1]

FirstTry(t)   == [task |-> t, retries |-> 0]
Delivery(w)   == [task |-> worker[w].task, retries |-> worker[w].retries]
NextTry(w)    == [task |-> worker[w].task, retries |-> worker[w].retries + 1]
Package(w)    == PackageOf[worker[w].task]

At(w, pc)     == worker[w].pc = pc
Goto(w, pc)   == worker' = [worker EXCEPT ![w].pc = pc]

(* The task goes to pc, keeping only what it still uses: the row it has to *)
(* fail (0 for none) and whether Celery will retry it.                     *)
Leave(w, pc, scan, willRetry) ==
    worker' = [worker EXCEPT ![w] = [@ EXCEPT !.pc = pc, !.scan = scan,
                                              !.willRetry = willRetry,
                                              !.version = NoVersion,
                                              !.sawRunning = FALSE]]

EnqueuerGoto(t, pc) == enqueuer' = [enqueuer EXCEPT ![t].pc = pc]

-----------------------------------------------------------------------------
(* Enqueuer: EnqueueScanUseCase.execute *)

(* The transaction that records the request, before anything is published. *)
RecordRequest(t) ==
    /\ enqueuer[t].pc = "idle"
    /\ scans' = CreateScanResult(scans, PackageOf[t], "queued")
    /\ jobs' = CreateQueueJob(jobs, t)
    /\ enqueuer' = [enqueuer EXCEPT ![t] = [pc |-> "publish", scan |-> Len(scans')]]
    /\ UNCHANGED <<scanned, known, ready, worker, faultsLeft>>

Publish(t) ==
    /\ enqueuer[t].pc = "publish"
    /\ Put(FirstTry(t))
    /\ EnqueuerGoto(t, "done")
    /\ UNCHANGED <<tables, worker, faultsLeft>>

(* send_task raises QueuePublishError.  With publisher confirms the error  *)
(* may follow a message the broker did accept.                             *)
PublishFails(t) ==
    /\ enqueuer[t].pc = "publish"
    /\ Fault("publish")
    /\ \/ UNCHANGED ready
       \/ Put(FirstTry(t))
    /\ EnqueuerGoto(t, "record_failure")
    /\ UNCHANGED <<tables, worker>>

(* The handler of QueuePublishError.                                       *)
RecordPublishFailure(t) ==
    /\ enqueuer[t].pc = "record_failure"
    /\ jobs' = MarkQueueJobFailed(jobs, t)
    /\ scans' = MarkScanFailed(scans, enqueuer[t].scan)
    /\ EnqueuerGoto(t, "failed")
    /\ UNCHANGED <<scanned, known, ready, worker, faultsLeft>>

(* The enqueuing process dies after its transaction and before publishing, *)
(* or the transaction that records the failure does not commit.            *)
EnqueuerDies(t) ==
    /\ enqueuer[t].pc \in {"publish", "record_failure"}
    /\ Fault("enqueuer")
    /\ EnqueuerGoto(t, "dead")
    /\ UNCHANGED <<tables, ready, worker>>

(* A task sent straight to the broker, with no rows recorded for it.       *)
SendDirect(t) ==
    /\ enqueuer[t].pc = "idle"
    /\ Fault("direct")
    /\ Put(FirstTry(t))
    /\ EnqueuerGoto(t, "done")
    /\ UNCHANGED <<tables, worker>>

-----------------------------------------------------------------------------
(* Broker *)

(* An idle worker takes a message; it stays unacknowledged (held).         *)
Deliver(w, m) ==
    /\ At(w, "idle")
    /\ ready[m] > 0
    /\ ready' = [ready EXCEPT ![m] = @ - 1]
    /\ worker' = [worker EXCEPT ![w] = [Idle EXCEPT !.pc = "mark_running",
                                                    !.task = m.task,
                                                    !.retries = m.retries,
                                                    !.held = TRUE]]
    /\ UNCHANGED <<tables, enqueuer, faultsLeft>>

(* The connection of a busy worker is lost: the broker makes the message   *)
(* available again, the worker goes on with its task and its later         *)
(* acknowledgement has no effect.                                          *)
Redeliver(w) ==
    /\ worker[w].held
    /\ Fault("redeliver")
    /\ Put(Delivery(w))
    /\ worker' = [worker EXCEPT ![w].held = FALSE]
    /\ UNCHANGED <<tables, enqueuer>>

(* A worker process dies: what it knew is gone, and the message it still   *)
(* held goes back to the queue.                                            *)
WorkerDies(w) ==
    /\ ~At(w, "idle")
    /\ Fault("worker")
    /\ IF worker[w].held THEN Put(Delivery(w)) ELSE UNCHANGED ready
    /\ worker' = [worker EXCEPT ![w] = Idle]
    /\ UNCHANGED <<tables, enqueuer>>

-----------------------------------------------------------------------------
(* Worker: the Celery task scan_package *)

(* _mark_queue_job_running: a task id without a row gets one first.        *)
JobMarkedRunning(w) ==
    MarkQueueJobRunning(CreateQueueJob(jobs, worker[w].task), worker[w].task)

MarkJobRunning(w) ==
    /\ At(w, "mark_running")
    /\ jobs' = JobMarkedRunning(w)
    /\ Goto(w, "claim")
    /\ UNCHANGED <<scans, scanned, known, ready, enqueuer, faultsLeft>>

(* The first transaction of ScanPackageUseCase.execute: take the oldest    *)
(* queued row of the package, or create a running one.                     *)
ClaimScan(w) ==
    /\ At(w, "claim")
    /\ \/ \E i \in DOMAIN scans :
            /\ IsNextQueuedScan(scans, Package(w), i)
            /\ scans' = ClaimQueuedScan(scans, i)
            /\ worker' = [worker EXCEPT ![w] = [@ EXCEPT !.pc = "fetch", !.scan = i]]
       \/ /\ ScansWith(scans, Package(w), "queued") = {}
          /\ scans' = CreateScanResult(scans, Package(w), "running")
          /\ worker' = [worker EXCEPT ![w] = [@ EXCEPT !.pc = "fetch", !.scan = Len(scans')]]
    /\ UNCHANGED <<jobs, scanned, known, ready, enqueuer, faultsLeft>>

(* fetch_metadata returns whatever dist-tags.latest is by then; then       *)
(* set_scan_versions reads the row ...                                     *)
FetchMetadata(w) ==
    /\ At(w, "fetch")
    /\ \E v \in Versions :
          worker' = [worker EXCEPT ![w] =
                       [@ EXCEPT !.pc = "commit_versions",
                                 !.version = v,
                                 !.sawRunning = (scans[worker[w].scan].status = "running")]]
    /\ UNCHANGED <<tables, ready, enqueuer, faultsLeft>>

(* Mutant: a version row is written although there is no previous version. *)
VersionsWrittenUnchecked(w) ==
    /\ known' = [known EXCEPT ![Package(w)] =
                    @ \cup {worker[w].version, worker[w].version - 1}]
    /\ scans' = IF worker[w].sawRunning
                THEN SetScanVersions(scans, worker[w].scan, worker[w].version)
                ELSE scans

(* ... and writes on what it read, in one transaction with the version     *)
(* rows of the latest and the previous version.                            *)
VersionsWritten(w) ==
    /\ known' = [known EXCEPT ![Package(w)] =
                    @ \cup ({worker[w].version, worker[w].version - 1} \cap Versions)]
    /\ scans' = IF worker[w].sawRunning
                THEN SetScanVersions(scans, worker[w].scan, worker[w].version)
                ELSE scans

CommitVersions(w) ==
    /\ At(w, "commit_versions")
    /\ VersionsWritten(w)
    /\ Goto(w, "analyse")
    /\ UNCHANGED <<jobs, scanned, ready, enqueuer, faultsLeft>>

(* fetch_metadata, or one of the downloads, extractions and detectors      *)
(* between the transactions, raises.  Celery will retry the task when the  *)
(* class is in autoretry_for and not in dont_autoretry_for (a registry     *)
(* timeout, a failed download) and retries are left.                       *)
ScanStepFails(w) ==
    /\ worker[w].pc \in {"fetch", "analyse"}
    /\ \E willRetry \in BOOLEAN :
          /\ willRetry => worker[w].retries < MaxRetries
          /\ Leave(w, "fail_scan", worker[w].scan, willRetry)
    /\ UNCHANGED <<tables, ready, enqueuer, faultsLeft>>

(* Analysis and scoring write nothing shared.  The last transaction, after *)
(* them: replace_findings, mark_scan_completed, mark_package_scanned.      *)
ResultSaved(w) ==
    /\ scans' = MarkScanCompleted(
                    ReplaceFindings(scans, worker[w].scan, worker[w].version),
                    worker[w].scan)
    /\ scanned' = [scanned EXCEPT ![Package(w)] = worker[w].version]

SaveResult(w) ==
    /\ At(w, "analyse")
    /\ ResultSaved(w)
    /\ Leave(w, "complete_job", 0, FALSE)
    /\ UNCHANGED <<jobs, known, ready, enqueuer, faultsLeft>>

(* _mark_scan_failed.                                                      *)
FailScan(w) ==
    /\ At(w, "fail_scan")
    /\ scans' = MarkScanFailed(scans, worker[w].scan)
    /\ Leave(w, "fail_job", 0, worker[w].willRetry)
    /\ UNCHANGED <<jobs, scanned, known, ready, enqueuer, faultsLeft>>

(* _mark_queue_job_failed, then the exception is raised again to Celery.   *)
FailJob(w) ==
    /\ At(w, "fail_job")
    /\ jobs' = MarkQueueJobFailed(jobs, worker[w].task)
    /\ Leave(w, IF worker[w].willRetry THEN "retry" ELSE "ack", 0, FALSE)
    /\ UNCHANGED <<scans, scanned, known, ready, enqueuer, faultsLeft>>

CompleteJob(w) ==
    /\ At(w, "complete_job")
    /\ jobs' = MarkQueueJobCompleted(jobs, worker[w].task)
    /\ Goto(w, "ack")
    /\ UNCHANGED <<scans, scanned, known, ready, enqueuer, faultsLeft>>

(* Celery publishes the next try under the same task id.                   *)
Retry(w) ==
    /\ At(w, "retry")
    /\ Put(NextTry(w))
    /\ Goto(w, "ack")
    /\ UNCHANGED <<tables, enqueuer, faultsLeft>>

(* Publishing the next try fails: Celery rejects the message.              *)
RetryLost(w) ==
    /\ At(w, "retry")
    /\ Fault("publish")
    /\ Goto(w, "ack")
    /\ UNCHANGED <<tables, ready, enqueuer>>

(* acks_late: the message is acknowledged after the task has run.          *)
Ack(w) ==
    /\ At(w, "ack")
    /\ worker' = [worker EXCEPT ![w] = Idle]
    /\ UNCHANGED <<tables, ready, enqueuer, faultsLeft>>

-----------------------------------------------------------------------------
(* Worker transactions that report an error.  The work of the transaction  *)
(* may have been committed all the same (the error came with the commit)   *)
(* or not.  None of these errors is retriable.                             *)

(* Outside the try of scan_package: the task fails and is acknowledged.    *)
MarkJobRunningError(w) ==
    /\ At(w, "mark_running")
    /\ Fault("database")
    /\ \/ UNCHANGED jobs
       \/ jobs' = JobMarkedRunning(w)
    /\ Leave(w, "ack", 0, FALSE)
    /\ UNCHANGED <<scans, scanned, known, ready, enqueuer>>

(* scan_result_id is set when the row is chosen, before the commit: the    *)
(* handler may hold the id of a row whose claim was rolled back.  The id   *)
(* of a created row that was rolled back names no row: failing it is the   *)
(* ValueError that _mark_scan_failed swallows, so the first case covers it.*)
ClaimScanError(w) ==
    /\ At(w, "claim")
    /\ Fault("database")
    /\ \/ /\ UNCHANGED scans
          /\ Leave(w, "fail_job", 0, FALSE)
       \/ \E i \in DOMAIN scans :
            /\ IsNextQueuedScan(scans, Package(w), i)
            /\ \/ UNCHANGED scans
               \/ scans' = ClaimQueuedScan(scans, i)
            /\ Leave(w, "fail_scan", i, FALSE)
       \/ /\ ScansWith(scans, Package(w), "queued") = {}
          /\ scans' = CreateScanResult(scans, Package(w), "running")
          /\ Leave(w, "fail_scan", Len(scans'), FALSE)
    /\ UNCHANGED <<jobs, scanned, known, ready, enqueuer>>

CommitVersionsError(w) ==
    /\ At(w, "commit_versions")
    /\ Fault("database")
    /\ \/ UNCHANGED <<scans, known>>
       \/ VersionsWritten(w)
    /\ Leave(w, "fail_scan", worker[w].scan, FALSE)
    /\ UNCHANGED <<jobs, scanned, ready, enqueuer>>

SaveResultError(w) ==
    /\ At(w, "analyse")
    /\ Fault("database")
    /\ \/ UNCHANGED <<scans, scanned>>
       \/ ResultSaved(w)
    /\ Leave(w, "fail_scan", worker[w].scan, FALSE)
    /\ UNCHANGED <<jobs, known, ready, enqueuer>>

(* _mark_scan_failed logs and swallows its own error.                      *)
FailScanError(w) ==
    /\ At(w, "fail_scan")
    /\ Fault("database")
    /\ Leave(w, "fail_job", 0, worker[w].willRetry)
    /\ UNCHANGED <<tables, ready, enqueuer>>

(* The new error replaces the one being handled, so nothing is retried.    *)
FailJobError(w) ==
    /\ At(w, "fail_job")
    /\ Fault("database")
    /\ \/ UNCHANGED jobs
       \/ jobs' = MarkQueueJobFailed(jobs, worker[w].task)
    /\ Leave(w, "ack", 0, FALSE)
    /\ UNCHANGED <<scans, scanned, known, ready, enqueuer>>

CompleteJobError(w) ==
    /\ At(w, "complete_job")
    /\ Fault("database")
    /\ Leave(w, "ack", 0, FALSE)
    /\ UNCHANGED <<tables, ready, enqueuer>>

-----------------------------------------------------------------------------
(* The temporary directory of an attempt is outside of the use case's own  *)
(* `try`.  OSError from making it comes before the claim, and no row is    *)
(* taken or failed; from removing it, it comes after the result was saved, *)
(* or replaces the exception Celery would have retried.  The task fails    *)
(* its job and is not retried.                                             *)
WorkspaceError(w) ==
    /\ \/ At(w, "claim")
       \/ At(w, "complete_job")
       \/ At(w, "fail_job") /\ worker[w].willRetry
    /\ Fault("workspace")
    /\ Leave(w, "fail_job", 0, FALSE)
    /\ UNCHANGED <<tables, ready, enqueuer>>

-----------------------------------------------------------------------------
EnqueuerStep(t) == RecordRequest(t) \/ Publish(t) \/ RecordPublishFailure(t)
EnqueuerFault(t) == PublishFails(t) \/ EnqueuerDies(t) \/ SendDirect(t)

TaskStep(w) ==
    \/ MarkJobRunning(w) \/ ClaimScan(w) \/ FetchMetadata(w)
    \/ CommitVersions(w) \/ ScanStepFails(w) \/ SaveResult(w)
    \/ FailScan(w) \/ FailJob(w) \/ CompleteJob(w) \/ Retry(w) \/ Ack(w)

WorkerFault(w) ==
    \/ Redeliver(w) \/ WorkerDies(w) \/ RetryLost(w)
    \/ MarkJobRunningError(w) \/ ClaimScanError(w) \/ CommitVersionsError(w)
    \/ SaveResultError(w) \/ FailScanError(w) \/ FailJobError(w)
    \/ CompleteJobError(w) \/ WorkspaceError(w)

(* Nothing is left to do: no request to come, no message, no busy worker.  *)
AtRest ==
    /\ \A t \in Tasks : enqueuer[t].pc \in {"done", "failed", "dead"}
    /\ \A m \in Message : ready[m] = 0
    /\ \A w \in Workers : At(w, "idle")
    /\ UNCHANGED vars

Next ==
    \/ \E t \in Tasks : EnqueuerStep(t) \/ EnqueuerFault(t)
    \/ \E w \in Workers, m \in Message : Deliver(w, m)
    \/ \E w \in Workers : TaskStep(w) \/ WorkerFault(w)
    \/ AtRest

Spec == Init /\ [][Next]_vars

(* A request that was recorded is published or its failure handled, a free *)
(* worker takes a waiting message, and a running task reaches its next     *)
(* step: every external call of it has a timeout.  Faults are never owed.  *)
Fairness ==
    /\ \A t \in Tasks : WF_vars(Publish(t) \/ RecordPublishFailure(t))
    /\ \A w \in Workers : /\ WF_vars(\E m \in Message : Deliver(w, m))
                          /\ WF_vars(TaskStep(w))

FairSpec == Spec /\ Fairness
=============================================================================
