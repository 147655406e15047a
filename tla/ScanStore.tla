----------------------------- MODULE ScanStore -----------------------------
(***************************************************************************)
(* The rows a scan writes in PostgreSQL and the repository operations that *)
(* change them (app/infrastructure/db/repositories.py).  A table is a      *)
(* value and an operation maps a table to the table it leaves; a           *)
(* transaction of the code is a composition of these operations inside one *)
(* action of the modules that use this one.                                *)
(*                                                                         *)
(* scan_results is a sequence: the row's position is its id, and a new row *)
(* is appended.  The sequence order also stands for created_at.            *)
(***************************************************************************)
EXTENDS Naturals, Sequences

CONSTANTS Packages,     \* package names
          MaxVersion    \* versions of a package are 1..MaxVersion

ASSUME MaxVersionAssumption == MaxVersion \in Nat \ {0}

(* A version is its rank in publish order, so that the version published   *)
(* just before v is v - 1; NoVersion stands for SQL NULL.                  *)
Versions  == 1 .. MaxVersion
NoVersion == 0
VersionOrNone == Versions \cup {NoVersion}

ScanStatus     == {"queued", "running", "completed", "failed"}
QueueJobStatus == {"none", "queued", "running", "completed", "failed"}

(* One scan_results row with its findings rows: `findings` is the version  *)
(* whose analysis produced the findings stored for the row.  score,        *)
(* risk_level and finished_at are set exactly when the row completes;      *)
(* previous_version is latest - 1.                                         *)
ScanRow == [pkg      : Packages,
            status   : ScanStatus,
            latest   : VersionOrNone,
            findings : VersionOrNone]

-----------------------------------------------------------------------------
(* scan_results and findings *)

(* Mutant: the status argument is ignored.                                 *)
CreateScanResultQueued(scans, p, status) ==
    Append(scans, [pkg      |-> p,
                   status   |-> "queued",
                   latest   |-> NoVersion,
                   findings |-> NoVersion])

CreateScanResult(scans, p, status) ==
    Append(scans, [pkg      |-> p,
                   status   |-> status,
                   latest   |-> NoVersion,
                   findings |-> NoVersion])

ScansWith(scans, p, status) ==
    {i \in DOMAIN scans : scans[i].pkg = p /\ scans[i].status = status}

(* Mutant: the newest queued row first.                                    *)
IsLastQueuedScan(scans, p, i) ==
    /\ i \in ScansWith(scans, p, "queued")
    /\ \A j \in ScansWith(scans, p, "queued") : i >= j

(* claim_next_queued_scan takes the first queued row of the package.       *)
IsNextQueuedScan(scans, p, i) ==
    /\ i \in ScansWith(scans, p, "queued")
    /\ \A j \in ScansWith(scans, p, "queued") : i <= j

(* Mutant: the row is chosen but its status is not updated.                *)
ClaimWithoutUpdate(scans, i) == scans

ClaimQueuedScan(scans, i) == [scans EXCEPT ![i].status = "running"]

(* UPDATE ... WHERE id = i AND status = 'running'; rowcount 0 on a row     *)
(* that exists is not an error.                                            *)
IfRunning(scans, i, changed) ==
    IF scans[i].status = "running" THEN changed ELSE scans

(* Mutant: latest_version and previous_version swapped.                    *)
SetScanVersionsSwapped(scans, i, v) == [scans EXCEPT ![i].latest = v - 1]

SetScanVersions(scans, i, v) == [scans EXCEPT ![i].latest = v]

(* Mutants: the UPDATE filters on another status, or on none.              *)
MarkScanCompletedIfQueued(scans, i) ==
    IF scans[i].status = "queued"
    THEN [scans EXCEPT ![i].status = "completed"] ELSE scans

MarkScanFailedIfQueued(scans, i) ==
    IF scans[i].status = "queued"
    THEN [scans EXCEPT ![i].status = "failed"] ELSE scans

MarkScanFailedAlways(scans, i) == [scans EXCEPT ![i].status = "failed"]

MarkScanCompleted(scans, i) ==
    IfRunning(scans, i, [scans EXCEPT ![i].status = "completed"])

MarkScanFailed(scans, i) ==
    IfRunning(scans, i, [scans EXCEPT ![i].status = "failed"])

(* DELETE then INSERT, whatever the status of the row.                     *)
ReplaceFindings(scans, i, v) == [scans EXCEPT ![i].findings = v]

HasRunningScan(scans, p) == ScansWith(scans, p, "running") # {}

-----------------------------------------------------------------------------
(* queue_jobs: jobs[t] is the status of the row with task_id t, "none"     *)
(* when there is no such row.                                              *)

(* INSERT ... ON CONFLICT DO NOTHING *)
CreateQueueJob(jobs, t) ==
    IF jobs[t] = "none" THEN [jobs EXCEPT ![t] = "queued"] ELSE jobs

(* UPDATE ... WHERE task_id = t AND status IN (from) *)
MoveQueueJob(jobs, t, from, to) ==
    IF jobs[t] \in from THEN [jobs EXCEPT ![t] = to] ELSE jobs

(* Mutants: the UPDATE misses running rows, or writes the wrong status.    *)
MarkQueueJobCompletedIfQueued(jobs, t) ==
    MoveQueueJob(jobs, t, {"queued"}, "completed")

MarkQueueJobFailedIfQueued(jobs, t) ==
    MoveQueueJob(jobs, t, {"queued"}, "failed")

MarkQueueJobFailedAsCompleted(jobs, t) ==
    MoveQueueJob(jobs, t, {"queued", "running"}, "completed")

MarkQueueJobRunning(jobs, t) ==
    MoveQueueJob(jobs, t, {"queued", "failed"}, "running")

MarkQueueJobCompleted(jobs, t) ==
    MoveQueueJob(jobs, t, {"queued", "running"}, "completed")

MarkQueueJobFailed(jobs, t) ==
    MoveQueueJob(jobs, t, {"queued", "running"}, "failed")
=============================================================================
