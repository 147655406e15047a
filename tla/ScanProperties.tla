-------------------------- MODULE ScanProperties --------------------------
(***************************************************************************)
(* What a scan promises, stated over ScanLifecycle.  Each property names   *)
(* the faults under which it is claimed; the runs choose Faults to match.  *)
(***************************************************************************)
EXTENDS ScanLifecycle, FiniteSets

(* The steps at which a worker writes, or may still write, the row it      *)
(* claimed as the outcome of its own scan.                                 *)
Scanning(w) ==
    worker[w].pc \in {"fetch", "commit_versions", "analyse"}

(* Two deliveries never scan into the same scan_results row, under every   *)
(* fault: "each delivery creates an independent scan attempt"              *)
(* (evidence/architecture_notes.md:53).  Rests on claim_next_queued_scan   *)
(* leaving no claimed row queued and on no operation queueing a row again. *)
ScanOwnedOnce ==
    \A v, w \in Workers :
        Scanning(v) /\ Scanning(w) /\ v # w => worker[v].scan # worker[w].scan

CompletedRowsKept ==
    \A i \in DOMAIN scans :
        scans[i].status = "completed" => i \in DOMAIN scans' /\ scans'[i] = scans[i]

(* A completed attempt, its findings included, never changes again, under  *)
(* every fault: "Completed scan attempts are not overwritten by late       *)
(* failures" (evidence/architecture_notes.md:55).  replace_findings itself *)
(* has no guard; only exclusive ownership keeps it off a completed row.    *)
CompletedScanIsFinal == [][CompletedRowsKept]_vars

(* The inductive invariant behind the two: ids that a process holds name   *)
(* rows, and the row a worker scans into is running, or failed by someone  *)
(* else; it is not queued, so no claim can take it, and not completed.     *)
HeldScansExist ==
    /\ \A w \in Workers :
          Scanning(w) \/ worker[w].pc = "fail_scan" => worker[w].scan \in DOMAIN scans
    /\ \A t \in Tasks :
          enqueuer[t].pc \in {"publish", "record_failure"} =>
              enqueuer[t].scan \in DOMAIN scans

ScannedRowIsOpen ==
    \A w \in Workers :
        Scanning(w) => scans[worker[w].scan].status \in {"running", "failed"}

BusyHasTask ==
    \A w \in Workers : /\ worker[w].pc # "idle" => worker[w].task \in Tasks
                       /\ worker[w].held => worker[w].pc # "idle"

LifecycleInv ==
    TypeOK /\ BusyHasTask /\ HeldScansExist /\ ScannedRowIsOpen /\ ScanOwnedOnce

-----------------------------------------------------------------------------
(* Queued rows and live jobs do not outlive the deliveries that would      *)
(* finish them.                                                            *)

(* Claims still to come for package p: messages in the queue, counted one  *)
(* by one, deliveries that have not claimed yet and that the broker still  *)
(* holds for their worker, and recorded requests not published yet.        *)
WaitingFor(p) ==
    UNION {{m} \X (1 .. ready[m]) : m \in {m \in Message : PackageOf[m.task] = p}}

ClaimersFor(p) ==
    {w \in Workers : /\ worker[w].pc \in {"mark_running", "claim"}
                     /\ worker[w].held
                     /\ Package(w) = p}

PublishersFor(p) ==
    {t \in Tasks : PackageOf[t] = p /\ enqueuer[t].pc = "publish"}

AwaitedClaims(p) ==
    Cardinality(WaitingFor(p)) + Cardinality(ClaimersFor(p)) + Cardinality(PublishersFor(p))

(* Without publish, enqueuer, database and workspace faults no queued row  *)
(* is orphaned: whichever delivery takes whichever row, there are at least *)
(* as many claims to come as rows queued.  Retries and redeliveries only   *)
(* add claims (claim_next_queued_scan, scan_package), and a worker that    *)
(* dies before its claim leaves it to the message the broker held for it.  *)
(* (A temporary directory that cannot be made, scan_package.py:49, ends a  *)
(* delivery before its claim.)                                             *)
QueuedScansAwaited ==
    \A p \in Packages :
        Cardinality(ScansWith(scans, p, "queued")) <= AwaitedClaims(p)

(* A task is on its way when a message for it waits or a worker has yet to *)
(* record how its delivery ended.                                          *)
DeliveryPending(t) ==
    \/ \E m \in Message : m.task = t /\ ready[m] > 0
    \/ \E w \in Workers : /\ worker[w].task = t
                          /\ worker[w].pc \notin {"retry", "ack"}

(* Without enqueuer and database faults, and with either worker or         *)
(* redeliver faults but not both, a queue_jobs row is queued or running    *)
(* only while something will still move it, so the row settles as          *)
(* "completed or failed" (evidence/architecture_notes.md:40) when the last *)
(* delivery of its task ends, however deliveries of one task overlap.      *)
(* With both, it is false: a worker whose message was delivered again and  *)
(* dealt with can mark the row running again (repositories.py:261) and     *)
(* die, and no message is left to go back.                                 *)
LiveJobIsPending ==
    \A t \in Tasks :
        jobs[t] \in {"queued", "running"} =>
            \/ enqueuer[t].pc \in {"publish", "record_failure"}
            \/ DeliveryPending(t)

(* Without worker deaths and database faults a running row has a worker    *)
(* that will complete or fail it; a publish failure handled while another  *)
(* delivery scans the row does not change that.                            *)
RunningScanHasWorker ==
    \A i \in DOMAIN scans :
        scans[i].status = "running" =>
            \E w \in Workers : /\ worker[w].scan = i
                               /\ Scanning(w) \/ worker[w].pc = "fail_scan"

-----------------------------------------------------------------------------
(* What is published agrees across the tables.  Claimed without publish    *)
(* and database faults: those let another process fail a row that a worker *)
(* is still scanning.                                                      *)

(* Findings are stored only for completed attempts, and are those of the   *)
(* version the attempt records (the transaction at scan_package.py:207).   *)
FindingsAreOfCompletedScans ==
    \A i \in DOMAIN scans :
        scans[i].findings # NoVersion =>
            scans[i].status = "completed" /\ scans[i].latest = scans[i].findings

(* latest_scanned_version names a version that a completed attempt of the  *)
(* package covers: the scheduler skips the package on the strength of it   *)
(* (monitor_updates.py:96).                                                *)
ScannedVersionHasScan ==
    \A p \in Packages :
        scanned[p] # NoVersion =>
            \E i \in ScansWith(scans, p, "completed") : scans[i].latest = scanned[p]

(* Each completed job of a package is backed by a completed attempt of its *)
(* own, although jobs and attempts are not linked in the schema.           *)
CompletedJobsHaveScans ==
    \A p \in Packages :
        Cardinality({t \in Tasks : PackageOf[t] = p /\ jobs[t] = "completed"})
            <= Cardinality(ScansWith(scans, p, "completed"))

(* The rows seen as attempts: an attempt's result is the version whose     *)
(* findings are stored for it.                                             *)
AttemptsSeen ==
    [i \in DOMAIN scans |-> [pkg    |-> scans[i].pkg,
                             status |-> scans[i].status,
                             result |-> scans[i].findings]]

Attempts == INSTANCE ScanAttempts WITH attempts <- AttemptsSeen,
                                       latest   <- scanned

(* Retries, duplicate deliveries, stolen queued rows and dying workers are *)
(* invisible in the tables: an attempt runs once, ends once, and completes *)
(* together with its findings and the package's latest version.            *)
ImplementsScanAttempts == Attempts!Spec

-----------------------------------------------------------------------------
(* Liveness, under Fairness.                                               *)

(* Every job ends completed or failed and stays so: claimed where          *)
(* LiveJobIsPending is, without enqueuer and database faults and without   *)
(* worker and redeliver faults together, whose combination leaves a job    *)
(* running for ever.  scan_jobs_settle has workers that die,               *)
(* scan_scans_settle deliveries that overlap.                              *)
JobsSettle ==
    <>[](\A t \in Tasks : jobs[t] \in {"none", "completed", "failed"})

(* Every scan attempt ends completed or failed ("Persist failures instead  *)
(* of silently losing them", PROJECT_PLAN.md:53).  Claimed with redeliver  *)
(* and direct faults only: a lost message or a temporary directory that    *)
(* cannot be made leaves a row queued, and a lost worker (which            *)
(* scan_worker_lost shows) or a database error leaves one running.         *)
ScansSettle ==
    <>[](\A i \in DOMAIN scans : scans[i].status \in {"completed", "failed"})

-----------------------------------------------------------------------------
(* Statements of the documentation that the code does not meet.            *)

(* When the publish failure of a request has been handled, the attempt it  *)
(* recorded is not left queued ("Failure states are persisted with error   *)
(* messages", evidence/architecture_notes.md:54).                          *)
PublishFailureIsPersisted ==
    \A t \in Tasks :
        enqueuer[t].pc = "failed" => scans[enqueuer[t].scan].status # "queued"
=============================================================================
