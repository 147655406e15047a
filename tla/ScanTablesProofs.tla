-------------------------- MODULE ScanTablesProofs --------------------------
(***************************************************************************)
(* What the tables of a scan say when neither publishing nor a database    *)
(* transaction reports an error, whatever else happens: worker processes   *)
(* and enqueuers die, connections are lost and messages delivered twice,   *)
(* tasks are sent without rows.  The two kinds of fault are excluded       *)
(* because they let a process fail a row that another one scans.           *)
(***************************************************************************)
EXTENDS ScanLifecycleProofs, FiniteSetTheorems

USE LifecycleAssumption, MaxVersionAssumption

NoReportedErrors == "publish" \notin Faults /\ "database" \notin Faults

(* The steps at which a worker will still write the row it claimed.        *)
Holding(w) == Scanning(w) \/ At(w, "fail_scan")

NoFailedPublish ==
    \A t \in Tasks : enqueuer[t].pc \notin {"record_failure", "failed"}

(* Without those errors a held row is running, not merely open ...         *)
HeldRowRunning ==
    \A w \in Workers :
        Holding(w) => /\ scans[worker[w].scan].status = "running"
                      /\ scans[worker[w].scan].pkg = Package(w)

(* ... and exclusive until the row is completed or failed.                 *)
HeldOnce ==
    \A v, w \in Workers :
        Holding(v) /\ Holding(w) /\ v # w => worker[v].scan # worker[w].scan

(* The version a worker analyses is the one its row records.               *)
VersionHeld ==
    \A w \in Workers :
        /\ worker[w].pc \in {"commit_versions", "analyse"} => worker[w].version \in Versions
        /\ At(w, "commit_versions") => worker[w].sawRunning
        /\ At(w, "analyse") => scans[worker[w].scan].latest = worker[w].version

RowsInv ==
    /\ NoFailedPublish /\ HeldRowRunning /\ HeldOnce /\ VersionHeld
    /\ FindingsAreOfCompletedScans

-----------------------------------------------------------------------------
(* How the ways to write the worker variable move a worker.                *)

OthersStay(w) == \A v \in Workers : v # w => worker'[v] = worker[v]

LEMMA GotoMoves ==
    ASSUME TypeOK, NEW w \in Workers, NEW pc, Goto(w, pc)
    PROVE  /\ OthersStay(w)
           /\ worker'[w].pc = pc /\ worker'[w].task = worker[w].task
           /\ worker'[w].scan = worker[w].scan /\ worker'[w].version = worker[w].version
           /\ worker'[w].held = worker[w].held
<1>1. worker[w] \in WorkerState /\ worker \in [Workers -> WorkerState]
  BY DEF TypeOK
<1> QED  BY <1>1 DEF Goto, OthersStay, WorkerState

LEMMA LeaveMoves ==
    ASSUME TypeOK, NEW w \in Workers, NEW pc, NEW i, NEW b, Leave(w, pc, i, b)
    PROVE  /\ OthersStay(w)
           /\ worker'[w].pc = pc /\ worker'[w].task = worker[w].task
           /\ worker'[w].scan = i /\ worker'[w].held = worker[w].held
<1>1. worker[w] \in WorkerState /\ worker \in [Workers -> WorkerState]
  BY DEF TypeOK
<1> QED  BY <1>1 DEF Leave, OthersStay, WorkerState

(* The claim of a row, new or queued.                                      *)
Claimed(w, i) ==
    /\ At(w, "claim")
    /\ OthersStay(w)
    /\ worker'[w].pc = "fetch" /\ worker'[w].scan = i
    /\ worker'[w].task = worker[w].task
    /\ UNCHANGED <<jobs, scanned, known, ready, enqueuer, faultsLeft>>

ClaimedQueued(w, i) ==
    /\ IsNextQueuedScan(scans, Package(w), i)
    /\ scans' = ClaimQueuedScan(scans, i)
    /\ Claimed(w, i)

ClaimedNew(w) ==
    /\ ScansWith(scans, Package(w), "queued") = {}
    /\ scans' = CreateScanResult(scans, Package(w), "running")
    /\ Claimed(w, Len(scans'))

LEMMA ClaimMoves ==
    ASSUME TypeOK, NEW w \in Workers, ClaimScan(w)
    PROVE  (\E i \in DOMAIN scans : ClaimedQueued(w, i)) \/ ClaimedNew(w)
<1>1. worker[w] \in WorkerState /\ worker \in [Workers -> WorkerState]
  BY DEF TypeOK
<1>2. ASSUME NEW i, worker' = [worker EXCEPT ![w] = [@ EXCEPT !.pc = "fetch", !.scan = i]]
      PROVE  Claimed(w, i)
  <2>1. /\ worker'[w].pc = "fetch" /\ worker'[w].scan = i
        /\ worker'[w].task = worker[w].task
    BY <1>1, <1>2 DEF WorkerState
  <2>2. OthersStay(w)
    BY <1>1, <1>2 DEF OthersStay
  <2>3. At(w, "claim") /\ UNCHANGED <<jobs, scanned, known, ready, enqueuer, faultsLeft>>
    BY DEF ClaimScan
  <2> QED  BY <2>1, <2>2, <2>3 DEF Claimed
<1>3. CASE \E i \in DOMAIN scans :
              /\ IsNextQueuedScan(scans, Package(w), i)
              /\ scans' = ClaimQueuedScan(scans, i)
              /\ worker' = [worker EXCEPT ![w] = [@ EXCEPT !.pc = "fetch", !.scan = i]]
  BY <1>2, <1>3 DEF ClaimedQueued
<1>4. CASE /\ ScansWith(scans, Package(w), "queued") = {}
           /\ scans' = CreateScanResult(scans, Package(w), "running")
           /\ worker' = [worker EXCEPT ![w] = [@ EXCEPT !.pc = "fetch", !.scan = Len(scans')]]
  <2>1. Claimed(w, Len(scans'))
    BY <1>2, <1>4
  <2> QED  BY <1>4, <2>1 DEF ClaimedNew
<1> QED  BY <1>3, <1>4 DEF ClaimScan

-----------------------------------------------------------------------------
(* The steps there are without those errors, by what they do to the rows.  *)

LocalStep ==
    \/ \E t \in Tasks : Publish(t) \/ EnqueuerDies(t) \/ SendDirect(t)
    \/ \E w \in Workers, m \in Message : Deliver(w, m)
    \/ \E w \in Workers :
          \/ MarkJobRunning(w) \/ ScanStepFails(w) \/ FailJob(w) \/ CompleteJob(w)
          \/ Retry(w) \/ Ack(w) \/ Redeliver(w) \/ WorkerDies(w) \/ WorkspaceError(w)
    \/ UNCHANGED vars

RowStep(w) ==
    \/ \E i \in DOMAIN scans : ClaimedQueued(w, i)
    \/ ClaimedNew(w)
    \/ FetchMetadata(w) \/ CommitVersions(w) \/ SaveResult(w) \/ FailScan(w)

LEMMA StepKinds ==
    ASSUME NoReportedErrors, TypeOK, NoFailedPublish, [Next]_vars
    PROVE  \/ LocalStep
           \/ \E t \in Tasks : RecordRequest(t)
           \/ \E w \in Workers : RowStep(w)
<1>1. ASSUME NEW t \in Tasks, EnqueuerStep(t) \/ EnqueuerFault(t)
      PROVE  LocalStep \/ RecordRequest(t)
  <2>1. ~RecordPublishFailure(t) /\ ~PublishFails(t)
    BY DEF NoReportedErrors, NoFailedPublish, RecordPublishFailure, PublishFails, Fault
  <2> QED  BY <1>1, <2>1 DEF EnqueuerStep, EnqueuerFault, LocalStep
<1>2. ASSUME NEW w \in Workers, WorkerFault(w)
      PROVE  LocalStep
  <2>1. /\ ~RetryLost(w) /\ ~MarkJobRunningError(w) /\ ~ClaimScanError(w)
        /\ ~CommitVersionsError(w) /\ ~SaveResultError(w) /\ ~FailScanError(w)
        /\ ~FailJobError(w) /\ ~CompleteJobError(w)
    BY DEF NoReportedErrors, Fault, RetryLost, MarkJobRunningError, ClaimScanError,
           CommitVersionsError, SaveResultError, FailScanError, FailJobError,
           CompleteJobError
  <2> QED  BY <1>2, <2>1 DEF WorkerFault, LocalStep
<1>3. ASSUME NEW w \in Workers, TaskStep(w)
      PROVE  LocalStep \/ RowStep(w)
  BY <1>3, ClaimMoves DEF TaskStep, LocalStep, RowStep
<1>4. CASE Next
  BY <1>1, <1>2, <1>3, <1>4 DEF Next, AtRest, LocalStep
<1>5. CASE UNCHANGED vars
  BY <1>5 DEF LocalStep
<1> QED  BY <1>4, <1>5

-----------------------------------------------------------------------------
(* RowsInv is inductive.                                                   *)

(* A step that takes no row and writes no version of a worker.             *)
NothingTaken ==
    \A w \in Workers :
        /\ Holding(w)' => /\ Holding(w)
                          /\ worker'[w].scan = worker[w].scan
                          /\ worker'[w].task = worker[w].task
        /\ worker'[w].pc \in {"commit_versions", "analyse"} =>
              /\ worker'[w].pc = worker[w].pc
              /\ worker'[w].version = worker[w].version
              /\ worker'[w].sawRunning = worker[w].sawRunning

LEMMA LocalStepTakesNothing ==
    ASSUME TypeOK, LocalStep
    PROVE  NothingTaken /\ UNCHANGED <<scans, scanned>>
<1>1. worker \in [Workers -> WorkerState]
  BY DEF TypeOK
<1>2. ASSUME NEW w \in Workers, OthersStay(w),
             ~Holding(w)' /\ worker'[w].pc \notin {"commit_versions", "analyse"}
      PROVE  NothingTaken
  BY <1>2 DEF NothingTaken, OthersStay, Holding, Scanning, At
<1>3. CASE UNCHANGED <<worker, scans, scanned>>
  BY <1>3 DEF NothingTaken, Holding, Scanning, At, Package
<1>4. CASE \E t \in Tasks : Publish(t) \/ EnqueuerDies(t) \/ SendDirect(t)
  BY <1>3, <1>4 DEF Publish, EnqueuerDies, SendDirect, tables
<1>5. ASSUME NEW w \in Workers, NEW m \in Message, Deliver(w, m)
      PROVE  NothingTaken
  BY <1>1, <1>2, <1>5 DEF Deliver, Idle, OthersStay, Holding, Scanning, At
<1>6. ASSUME NEW w \in Workers, MarkJobRunning(w) \/ CompleteJob(w) \/ Retry(w)
      PROVE  NothingTaken
  <2>1. PICK pc \in {"claim", "ack"} : Goto(w, pc)
    BY <1>6 DEF MarkJobRunning, CompleteJob, Retry
  <2> QED  BY <1>2, <2>1, GotoMoves DEF Holding, Scanning, At
<1>7. ASSUME NEW w \in Workers, ScanStepFails(w)
      PROVE  NothingTaken
  <2>1. Scanning(w) /\ \E b : Leave(w, "fail_scan", worker[w].scan, b)
    BY <1>7 DEF ScanStepFails, Scanning
  <2> QED  BY <2>1, LeaveMoves DEF NothingTaken, OthersStay, Holding, Scanning, At, Package
<1>8. ASSUME NEW w \in Workers, FailJob(w)
      PROVE  NothingTaken
  <2>1. PICK pc \in {"retry", "ack"} : Leave(w, pc, 0, FALSE)
    BY <1>8 DEF FailJob
  <2> QED  BY <1>2, <2>1, LeaveMoves DEF Holding, Scanning, At
<1>9. ASSUME NEW w \in Workers, Ack(w) \/ WorkerDies(w)
      PROVE  NothingTaken
  BY <1>1, <1>2, <1>9 DEF Ack, WorkerDies, Idle, OthersStay, Holding, Scanning, At
<1>10. ASSUME NEW w \in Workers, Redeliver(w)
       PROVE  NothingTaken
  <2>1. worker[w] \in WorkerState
    BY <1>1
  <2>2. /\ worker'[w].pc = worker[w].pc /\ worker'[w].scan = worker[w].scan
        /\ worker'[w].task = worker[w].task /\ worker'[w].version = worker[w].version
        /\ worker'[w].sawRunning = worker[w].sawRunning
        /\ OthersStay(w)
    BY <1>1, <1>10, <2>1 DEF Redeliver, WorkerState, OthersStay
  <2> QED  BY <2>2 DEF NothingTaken, OthersStay, Holding, Scanning, At, Package
<1>11. LocalStep => UNCHANGED <<scans, scanned>>
  BY DEF LocalStep, Publish, EnqueuerDies, SendDirect, Deliver, MarkJobRunning,
         ScanStepFails, FailJob, CompleteJob, Retry, Ack, Redeliver, WorkerDies,
         WorkspaceError, tables, vars
<1>12. CASE UNCHANGED vars
  BY <1>3, <1>12 DEF vars
<1>13. ASSUME NEW w \in Workers, WorkspaceError(w)
       PROVE  NothingTaken
  <2>1. Leave(w, "fail_job", 0, FALSE)
    BY <1>13 DEF WorkspaceError
  <2>2. OthersStay(w) /\ worker'[w].pc = "fail_job"
    BY <2>1, LeaveMoves
  <2> QED  BY <1>2, <2>2 DEF Holding, Scanning, At
<1> QED
  BY <1>4, <1>5, <1>6, <1>7, <1>8, <1>9, <1>10, <1>11, <1>12, <1>13 DEF LocalStep

LEMMA NoFailureRecorded ==
    ASSUME NoReportedErrors, TypeOK, NoFailedPublish, [Next]_vars
    PROVE  NoFailedPublish'
<1>1. CASE UNCHANGED enqueuer
  BY <1>1 DEF NoFailedPublish
<1>2. ASSUME NEW t \in Tasks,
             RecordRequest(t) \/ Publish(t) \/ EnqueuerDies(t) \/ SendDirect(t)
      PROVE  NoFailedPublish'
  <2>1. enqueuer \in [Tasks -> [pc : EnqueuerPc, scan : Nat]]
    BY DEF TypeOK
  <2>2. CASE RecordRequest(t)
    BY <2>1, <2>2 DEF NoFailedPublish, RecordRequest
  <2>3. ASSUME NEW pc \in {"done", "dead"}, EnqueuerGoto(t, pc)
        PROVE  NoFailedPublish'
    BY <2>1, <2>3 DEF NoFailedPublish, EnqueuerGoto
  <2> QED  BY <1>2, <2>2, <2>3 DEF Publish, EnqueuerDies, SendDirect
<1>3. ASSUME NEW w \in Workers, RowStep(w)
      PROVE  UNCHANGED enqueuer
  BY <1>3 DEF RowStep, ClaimedQueued, ClaimedNew, Claimed, FetchMetadata, CommitVersions,
              SaveResult, FailScan
<1>4. CASE LocalStep
  BY <1>1, <1>2, <1>4
  DEF LocalStep, Deliver, MarkJobRunning, ScanStepFails, FailJob, CompleteJob, Retry,
      Ack, Redeliver, WorkerDies, WorkspaceError, vars
<1> QED  BY <1>1, <1>2, <1>3, <1>4, StepKinds

(* What RowsInv says of the worker and scans variables alone.              *)
RowsHeld == HeldRowRunning /\ HeldOnce /\ VersionHeld /\ FindingsAreOfCompletedScans

LEMMA LocalStepHolds ==
    ASSUME TypeOK, RowsInv, LocalStep
    PROVE  RowsHeld'
<1>1. NothingTaken /\ UNCHANGED scans
  BY LocalStepTakesNothing
<1>2. HeldRowRunning' /\ HeldOnce'
  BY <1>1 DEF NothingTaken, RowsInv, HeldRowRunning, HeldOnce, Package
<1>3. VersionHeld'
  <2>1. \A w \in Workers : At(w, "analyse") => Holding(w)
    BY DEF At, Holding, Scanning
  <2>2. \A w \in Workers : At(w, "analyse")' => Holding(w)'
    BY DEF At, Holding, Scanning
  <2> QED  BY <1>1, <2>1, <2>2 DEF NothingTaken, RowsInv, VersionHeld, At
<1>4. FindingsAreOfCompletedScans'
  BY <1>1 DEF RowsInv, FindingsAreOfCompletedScans
<1> QED  BY <1>2, <1>3, <1>4 DEF RowsHeld

LEMMA RequestHolds ==
    ASSUME LifecycleInv, RowsInv, NEW t \in Tasks, RecordRequest(t)
    PROVE  RowsHeld'
<1>1. scans \in ScanTable /\ PackageOf[t] \in Packages /\ "queued" \in ScanStatus
  BY DEF LifecycleInv, TypeOK, ScanTable, ScanStatus
<1>2. /\ UNCHANGED worker
      /\ RowAdded(scans, scans', "queued")
      /\ scans'[Len(scans')].findings = NoVersion
  <2>1. UNCHANGED worker /\ scans' = CreateScanResult(scans, PackageOf[t], "queued")
    BY DEF RecordRequest
  <2> QED  BY <1>1, <2>1, NewRowFields
<1>3. \A w \in Workers : Holding(w) => worker[w].scan \in DOMAIN scans
  BY DEF LifecycleInv, HeldScansExist, Holding, At
<1>4. HeldRowRunning' /\ HeldOnce'
  BY <1>2, <1>3
  DEF RowAdded, RowsInv, HeldRowRunning, HeldOnce, Holding, Scanning, At, Package
<1>5. VersionHeld'
  <2>1. \A w \in Workers : At(w, "analyse") => Holding(w)
    BY DEF At, Holding, Scanning
  <2> QED  BY <1>2, <1>3, <2>1 DEF RowAdded, RowsInv, VersionHeld, At
<1>6. FindingsAreOfCompletedScans'
  BY <1>2 DEF RowAdded, RowsInv, FindingsAreOfCompletedScans
<1> QED  BY <1>4, <1>5, <1>6 DEF RowsHeld

(* A row is taken that no worker holds: it was queued, or was not there.   *)
LEMMA ClaimHolds ==
    ASSUME LifecycleInv, RowsInv, NEW w \in Workers, NEW i, Claimed(w, i),
           i \in DOMAIN scans => scans[i].status = "queued",
           \A j \in DOMAIN scans : j # i => scans'[j] = scans[j],
           DOMAIN scans' = DOMAIN scans \cup {i},
           scans'[i].status = "running", scans'[i].pkg = Package(w),
           scans'[i].findings = NoVersion
    PROVE  RowsHeld'
<1>1. ASSUME NEW v \in Workers, v # w, Holding(v)
      PROVE  /\ worker[v].scan # i
             /\ scans'[worker[v].scan] = scans[worker[v].scan]
  <2>1. worker[v].scan \in DOMAIN scans /\ scans[worker[v].scan].status = "running"
    BY <1>1 DEF LifecycleInv, HeldScansExist, RowsInv, HeldRowRunning, Holding, At
  <2> QED  BY <2>1
<1>2. /\ \A v \in Workers : v # w => worker'[v] = worker[v]
      /\ worker'[w].pc = "fetch" /\ worker'[w].scan = i
      /\ worker'[w].task = worker[w].task
  BY DEF Claimed, OthersStay
<1>3. \A v \in Workers : v # w /\ Holding(v)' => Holding(v)
  BY <1>2 DEF Holding, Scanning, At
<1>4. HeldRowRunning' /\ HeldOnce'
  BY <1>1, <1>2, <1>3 DEF RowsInv, HeldRowRunning, HeldOnce, Package
<1>5. VersionHeld'
  <2>1. \A v \in Workers : At(v, "analyse") => Holding(v)
    BY DEF At, Holding, Scanning
  <2> QED  BY <1>1, <1>2, <2>1 DEF RowsInv, VersionHeld, At
<1>6. FindingsAreOfCompletedScans'
  BY DEF RowsInv, FindingsAreOfCompletedScans
<1> QED  BY <1>4, <1>5, <1>6 DEF RowsHeld

LEMMA ClaimFacts ==
    ASSUME LifecycleInv, RowsInv, NEW w \in Workers, NEW i,
           \/ ClaimedQueued(w, i)
           \/ ClaimedNew(w) /\ i = Len(scans')
    PROVE  /\ i \in DOMAIN scans => scans[i].status = "queued"
           /\ \A j \in DOMAIN scans : j # i => scans'[j] = scans[j]
           /\ DOMAIN scans' = DOMAIN scans \cup {i}
           /\ scans'[i].status = "running" /\ scans'[i].pkg = Package(w)
           /\ scans'[i].findings = NoVersion
<1>1. scans \in ScanTable
  BY DEF LifecycleInv, TypeOK, ScanTable
<1>2. CASE ClaimedQueued(w, i)
  <2>1. i \in DOMAIN scans /\ scans[i].status = "queued" /\ scans[i].pkg = Package(w)
    BY <1>2 DEF ClaimedQueued, IsNextQueuedScan, ScansWith
  <2>2. scans[i].findings = NoVersion
    BY <2>1 DEF RowsInv, FindingsAreOfCompletedScans
  <2> QED  BY <1>1, <1>2, <2>1, <2>2, RowClaimed DEF ClaimedQueued, RowMoved, OnlyRow
<1>3. CASE ClaimedNew(w) /\ i = Len(scans')
  <2>1. Package(w) \in Packages /\ "running" \in ScanStatus
    BY <1>3 DEF ClaimedNew, Claimed, LifecycleInv, BusyHasTask, At, Package, ScanStatus
  <2>2. scans' = CreateScanResult(scans, Package(w), "running")
    BY <1>3 DEF ClaimedNew
  <2>3. /\ RowAdded(scans, scans', "running")
        /\ scans'[Len(scans')].pkg = Package(w) /\ scans'[Len(scans')].findings = NoVersion
    BY <1>1, <2>1, <2>2, NewRowFields
  <2> QED  BY <1>3, <2>3 DEF RowAdded
<1> QED  BY <1>2, <1>3

(* A worker goes on with the row it holds, or is done with it.             *)
LEMMA HeldRowHolds ==
    ASSUME LifecycleInv, RowsInv, NEW w \in Workers, Holding(w), OthersStay(w),
           worker'[w].task = worker[w].task,
           RowMoved(scans, scans', worker[w].scan),
           Holding(w)' => /\ worker'[w].scan = worker[w].scan
                          /\ scans'[worker[w].scan].status = "running",
           worker'[w].pc \in {"commit_versions", "analyse"} => worker'[w].version \in Versions,
           worker'[w].pc = "commit_versions" => worker'[w].sawRunning,
           worker'[w].pc = "analyse" => scans'[worker[w].scan].latest = worker'[w].version,
           scans'[worker[w].scan].findings # NoVersion =>
              /\ scans'[worker[w].scan].status = "completed"
              /\ scans'[worker[w].scan].latest = scans'[worker[w].scan].findings
    PROVE  RowsHeld'
<1> DEFINE i == worker[w].scan
<1>1. i \in DOMAIN scans /\ scans[i].pkg = Package(w)
  BY DEF LifecycleInv, HeldScansExist, RowsInv, HeldRowRunning, Holding, At
<1>2. /\ DOMAIN scans' = DOMAIN scans /\ scans'[i].pkg = scans[i].pkg
      /\ \A j \in DOMAIN scans : j # i => scans'[j] = scans[j]
  BY DEF RowMoved, OnlyRow
<1> HIDE DEF i
<1>3. ASSUME NEW v \in Workers, v # w, Holding(v)
      PROVE  /\ worker[v].scan # i
             /\ scans'[worker[v].scan] = scans[worker[v].scan]
  <2>1. worker[v].scan \in DOMAIN scans /\ worker[v].scan # i
    BY <1>3 DEF LifecycleInv, HeldScansExist, RowsInv, HeldOnce, Holding, At, i
  <2> QED  BY <1>2, <2>1
<1>4. \A v \in Workers : v # w => worker'[v] = worker[v]
  BY DEF OthersStay
<1>5. \A v \in Workers : v # w /\ Holding(v)' => Holding(v)
  BY <1>4 DEF Holding, Scanning, At
<1>6. HeldRowRunning'
  BY <1>1, <1>2, <1>3, <1>4, <1>5 DEF RowsInv, HeldRowRunning, Package, i
<1>7. HeldOnce'
  BY <1>3, <1>4, <1>5 DEF RowsInv, HeldOnce, i
<1>8. VersionHeld'
  <2>1. \A v \in Workers : At(v, "analyse") => Holding(v)
    BY DEF At, Holding, Scanning
  <2>2. worker'[w].pc = "analyse" => worker'[w].scan = i
    BY DEF Holding, Scanning, At, i
  <2> QED  BY <1>3, <1>4, <2>1, <2>2 DEF RowsInv, VersionHeld, At, i
<1>9. FindingsAreOfCompletedScans'
  BY <1>2 DEF RowsInv, FindingsAreOfCompletedScans, i
<1> QED  BY <1>6, <1>7, <1>8, <1>9 DEF RowsHeld

(* What is known of a worker that holds a row, and of the row.             *)
LEMMA HeldRowFacts ==
    ASSUME LifecycleInv, RowsInv, NEW w \in Workers, Holding(w)
    PROVE  /\ scans \in ScanTable /\ worker[w].scan \in DOMAIN scans
           /\ worker[w] \in WorkerState /\ worker \in [Workers -> WorkerState]
           /\ scans[worker[w].scan].status = "running"
           /\ scans[worker[w].scan].pkg = Package(w)
           /\ scans[worker[w].scan].findings = NoVersion
           /\ Package(w) \in Packages
<1>1. /\ worker[w].scan \in DOMAIN scans
      /\ scans[worker[w].scan].status = "running"
      /\ scans[worker[w].scan].pkg = Package(w)
  BY DEF LifecycleInv, HeldScansExist, RowsInv, HeldRowRunning, Holding, At
<1>2. scans[worker[w].scan].findings = NoVersion
  BY <1>1 DEF RowsInv, FindingsAreOfCompletedScans
<1>3. Scanning(w) \/ worker[w].pc = "fail_scan"
  BY DEF Holding, At
<1> QED  BY <1>1, <1>2, <1>3, HeldRowType DEF LifecycleInv, TypeOK

LEMMA FetchHolds ==
    ASSUME LifecycleInv, RowsInv, NEW w \in Workers, FetchMetadata(w)
    PROVE  RowsHeld'
<1>1. Holding(w) /\ UNCHANGED scans
  BY DEF FetchMetadata, At, Holding, Scanning, tables
<1>2. PICK v \in Versions :
        worker' = [worker EXCEPT ![w] =
                     [@ EXCEPT !.pc = "commit_versions",
                               !.version = v,
                               !.sawRunning = (scans[worker[w].scan].status = "running")]]
  BY DEF FetchMetadata
<1>3. /\ OthersStay(w) /\ worker'[w].pc = "commit_versions"
      /\ worker'[w].task = worker[w].task /\ worker'[w].scan = worker[w].scan
      /\ worker'[w].version = v /\ worker'[w].sawRunning
  BY <1>1, <1>2, HeldRowFacts DEF WorkerState, OthersStay
<1>4. RowMoved(scans, scans', worker[w].scan)
  BY <1>1, HeldRowFacts DEF RowMoved, OnlyRow
<1> QED  BY <1>1, <1>3, <1>4, HeldRowFacts, HeldRowHolds

LEMMA CommitHolds ==
    ASSUME LifecycleInv, RowsInv, NEW w \in Workers, CommitVersions(w)
    PROVE  RowsHeld'
<1>1. Holding(w) /\ At(w, "commit_versions") /\ Goto(w, "analyse")
  BY DEF CommitVersions, At, Holding, Scanning
<1>2. worker[w].version \in Versions /\ worker[w].sawRunning
  BY <1>1 DEF RowsInv, VersionHeld, At
<1>3. /\ RowMoved(scans, scans', worker[w].scan)
      /\ scans'[worker[w].scan].status = "running"
      /\ scans'[worker[w].scan].latest = worker[w].version
      /\ scans'[worker[w].scan].findings = NoVersion
  BY <1>1, <1>2, HeldRowFacts, RowVersioned DEF CommitVersions, VersionsWritten
<1>4. /\ OthersStay(w) /\ worker'[w].pc = "analyse"
      /\ worker'[w].task = worker[w].task /\ worker'[w].scan = worker[w].scan
      /\ worker'[w].version = worker[w].version
  BY <1>1, GotoMoves DEF LifecycleInv
<1> QED  BY <1>1, <1>2, <1>3, <1>4, HeldRowHolds

(* The row that a saved result completes.                                  *)
LEMMA ResultRow ==
    ASSUME LifecycleInv, RowsInv, NEW w \in Workers, SaveResult(w)
    PROVE  LET i == worker[w].scan
           IN  /\ RowMoved(scans, scans', i)
               /\ scans'[i].status = "completed"
               /\ worker[w].version \in Versions
               /\ scans'[i].latest = worker[w].version
               /\ scans'[i].findings = worker[w].version
               /\ scanned' = [scanned EXCEPT ![Package(w)] = worker[w].version]
<1>1. Holding(w) /\ At(w, "analyse")
  BY DEF SaveResult, At, Holding, Scanning
<1>2. /\ worker[w].version \in Versions
      /\ scans[worker[w].scan].latest = worker[w].version
  BY <1>1 DEF RowsInv, VersionHeld, At
<1>3. worker[w].version \in VersionOrNone
  BY <1>2 DEF VersionOrNone
<1> QED  BY <1>1, <1>2, <1>3, HeldRowFacts, RowCompleted DEF SaveResult, ResultSaved

LEMMA SaveHolds ==
    ASSUME LifecycleInv, RowsInv, NEW w \in Workers, SaveResult(w)
    PROVE  RowsHeld'
<1>1. Holding(w) /\ Leave(w, "complete_job", 0, FALSE)
  BY DEF SaveResult, At, Holding, Scanning
<1>2. OthersStay(w) /\ worker'[w].pc = "complete_job" /\ worker'[w].task = worker[w].task
  BY <1>1, LeaveMoves DEF LifecycleInv
<1>3. ~Holding(w)'
  BY <1>2 DEF Holding, Scanning, At
<1> QED  BY <1>1, <1>2, <1>3, ResultRow, HeldRowHolds

LEMMA FailHolds ==
    ASSUME LifecycleInv, RowsInv, NEW w \in Workers, FailScan(w)
    PROVE  RowsHeld'
<1>1. Holding(w) /\ Leave(w, "fail_job", 0, worker[w].willRetry)
  BY DEF FailScan, At, Holding
<1>2. OthersStay(w) /\ worker'[w].pc = "fail_job" /\ worker'[w].task = worker[w].task
  BY <1>1, LeaveMoves DEF LifecycleInv
<1>3. ~Holding(w)'
  BY <1>2 DEF Holding, Scanning, At
<1>4. /\ RowMoved(scans, scans', worker[w].scan)
      /\ scans'[worker[w].scan].findings = NoVersion
  BY <1>1, HeldRowFacts, RowFailed DEF FailScan
<1> QED  BY <1>1, <1>2, <1>3, <1>4, HeldRowHolds

LEMMA RowsKept == NoReportedErrors /\ LifecycleInv /\ RowsInv /\ [Next]_vars => RowsInv'
<1> SUFFICES ASSUME NoReportedErrors, LifecycleInv, RowsInv, [Next]_vars
             PROVE  RowsInv'
  OBVIOUS
<1>1. TypeOK /\ NoFailedPublish
  BY DEF LifecycleInv, RowsInv
<1>2. NoFailedPublish'
  BY <1>1, NoFailureRecorded
<1>3. ASSUME NEW w \in Workers, RowStep(w)
      PROVE  RowsHeld'
  <2>1. ASSUME NEW i \in DOMAIN scans, ClaimedQueued(w, i)
        PROVE  RowsHeld'
    <3>1. Claimed(w, i)
      BY <2>1 DEF ClaimedQueued
    <3> QED  BY <2>1, <3>1, ClaimFacts, ClaimHolds
  <2>2. CASE ClaimedNew(w)
    <3>1. PICK i : i = Len(scans')
      OBVIOUS
    <3>2. Claimed(w, i) /\ ClaimedNew(w) /\ i = Len(scans')
      BY <2>2, <3>1 DEF ClaimedNew
    <3>3. /\ i \in DOMAIN scans => scans[i].status = "queued"
          /\ \A j \in DOMAIN scans : j # i => scans'[j] = scans[j]
          /\ DOMAIN scans' = DOMAIN scans \cup {i}
          /\ scans'[i].status = "running" /\ scans'[i].pkg = Package(w)
          /\ scans'[i].findings = NoVersion
      BY <3>2, ClaimFacts
    <3> QED  BY <3>2, <3>3, ClaimHolds
  <2> QED  BY <1>3, <2>1, <2>2, FetchHolds, CommitHolds, SaveHolds, FailHolds DEF RowStep
<1>4. RowsHeld'
  BY <1>1, <1>3, StepKinds, LocalStepHolds, RequestHolds
<1> QED  BY <1>2, <1>4 DEF RowsInv, RowsHeld

LEMMA RowsStart == Init => RowsInv
<1> SUFFICES ASSUME Init PROVE RowsInv
  OBVIOUS
<1>1. /\ scans = <<>> /\ \A w \in Workers : worker[w] = Idle
      /\ \A t \in Tasks : enqueuer[t].pc = "idle"
  BY DEF Init
<1> QED
  BY <1>1 DEF RowsInv, NoFailedPublish, HeldRowRunning, HeldOnce, VersionHeld,
              FindingsAreOfCompletedScans, Holding, Scanning, At, Idle

(* Without reported errors a row is held by one worker, running, with the  *)
(* version that worker analyses, until its result is saved in one step.    *)
THEOREM RowsInvariant ==
    ASSUME NoReportedErrors
    PROVE  Spec => [](LifecycleInv /\ RowsInv)
<1>1. Init => LifecycleInv /\ RowsInv
  BY InvInit, RowsStart
<1>2. LifecycleInv /\ RowsInv /\ [Next]_vars => (LifecycleInv /\ RowsInv)'
  BY TypePreserved, BusyPreserved, OwnershipPreserved, RowsKept DEF LifecycleInv, Ownership
<1> QED  BY <1>1, <1>2, PTL DEF Spec

(* Findings are only ever those of a completed attempt, of the version the *)
(* attempt records.                                                        *)
THEOREM FindingsOfCompletedScans ==
    ASSUME NoReportedErrors
    PROVE  Spec => []FindingsAreOfCompletedScans
<1>1. RowsInv => FindingsAreOfCompletedScans
  BY DEF RowsInv
<1> QED  BY <1>1, RowsInvariant, PTL

-----------------------------------------------------------------------------
(* packages.latest_scanned_version                                         *)

LEMMA ScannedWritten ==
    ASSUME NoReportedErrors, LifecycleInv, RowsInv, [Next]_vars
    PROVE  UNCHANGED scanned \/ \E w \in Workers : SaveResult(w)
<1>1. TypeOK /\ NoFailedPublish
  BY DEF LifecycleInv, RowsInv
<1>2. LocalStep => UNCHANGED scanned
  BY <1>1, LocalStepTakesNothing
<1> QED
  BY <1>1, <1>2, StepKinds
  DEF RecordRequest, RowStep, ClaimedQueued, ClaimedNew, Claimed, FetchMetadata,
      CommitVersions, FailScan, tables

LEMMA ScannedKept ==
    NoReportedErrors /\ LifecycleInv /\ RowsInv /\ ScannedVersionHasScan /\ [Next]_vars
    => ScannedVersionHasScan'
<1> SUFFICES ASSUME NoReportedErrors, LifecycleInv, RowsInv, ScannedVersionHasScan,
                    [Next]_vars, NEW p \in Packages, scanned'[p] # NoVersion
             PROVE  \E i \in ScansWith(scans', p, "completed") : scans'[i].latest = scanned'[p]
  BY DEF ScannedVersionHasScan
<1>1. CASE scanned'[p] = scanned[p]
  <2>1. PICK i \in ScansWith(scans, p, "completed") : scans[i].latest = scanned[p]
    BY <1>1 DEF ScannedVersionHasScan
  <2>2. i \in DOMAIN scans' /\ scans'[i] = scans[i]
    BY <2>1, CompletedPreserved DEF CompletedRowsKept, ScansWith
  <2> QED  BY <1>1, <2>1, <2>2 DEF ScansWith
<1>2. CASE scanned'[p] # scanned[p]
  <2>1. PICK w \in Workers : SaveResult(w)
    BY <1>2, ScannedWritten
  <2> DEFINE i == worker[w].scan
  <2>2. Holding(w)
    BY <2>1 DEF SaveResult, At, Holding, Scanning
  <2>3. i \in DOMAIN scans /\ scans[i].pkg = Package(w)
    BY <2>2, HeldRowFacts
  <2>4. /\ DOMAIN scans' = DOMAIN scans /\ scans'[i].pkg = scans[i].pkg
        /\ scans'[i].status = "completed" /\ scans'[i].latest = worker[w].version
        /\ scanned' = [scanned EXCEPT ![Package(w)] = worker[w].version]
    BY <2>1, ResultRow DEF RowMoved, OnlyRow
  <2> HIDE DEF i
  <2>5. p = Package(w) /\ scanned'[p] = worker[w].version
    <3>1. scanned \in [Packages -> VersionOrNone]
      BY DEF LifecycleInv, TypeOK
    <3> QED  BY <1>2, <2>4, <3>1
  <2> QED  BY <2>3, <2>4, <2>5 DEF ScansWith
<1> QED  BY <1>1, <1>2

(* latest_scanned_version, on which the scheduler skips a package, always  *)
(* names a version that a completed attempt of the package covers.         *)
THEOREM ScannedVersionsHaveScans ==
    ASSUME NoReportedErrors
    PROVE  Spec => []ScannedVersionHasScan
<1>1. Init => ScannedVersionHasScan
  BY DEF Init, ScannedVersionHasScan
<1> QED  BY <1>1, ScannedKept, RowsInvariant, PTL DEF Spec

-----------------------------------------------------------------------------
(* Completed jobs against completed attempts.                              *)

(* The tasks of package p whose job is completed, or is about to be.       *)
Done(p) ==
    {t \in Tasks :
        /\ PackageOf[t] = p
        /\ \/ jobs[t] = "completed"
           \/ \E w \in Workers : At(w, "complete_job") /\ worker[w].task = t}

DoneHaveScans ==
    \A p \in Packages :
        /\ IsFiniteSet(Done(p))
        /\ Cardinality(Done(p)) <= Cardinality(ScansWith(scans, p, "completed"))

LEMMA TableRowsFinite ==
    ASSUME NEW S \in ScanTable, NEW p, NEW st
    PROVE  IsFiniteSet(ScansWith(S, p, st))
<1>1. Len(S) \in Nat /\ DOMAIN S = 1 .. Len(S)
  BY LenProperties DEF ScanTable
<1>2. IsFiniteSet(1 .. Len(S))
  BY <1>1, FS_Interval
<1>3. ScansWith(S, p, st) \in SUBSET (1 .. Len(S))
  BY <1>1 DEF ScansWith
<1> QED  BY <1>2, <1>3, FS_Subset

(* Of the operations on queue_jobs one completes a job.                    *)
LEMMA JobsCompleted ==
    ASSUME NEW J \in [Tasks -> QueueJobStatus], NEW u, NEW t \in Tasks
    PROVE  /\ CreateQueueJob(J, u)[t] = "completed" => J[t] = "completed"
           /\ MarkQueueJobFailed(J, u)[t] = "completed" => J[t] = "completed"
           /\ MarkQueueJobRunning(CreateQueueJob(J, u), u)[t] = "completed"
                 => J[t] = "completed"
           /\ MarkQueueJobCompleted(J, u)[t] = "completed" => J[t] = "completed" \/ t = u
  BY DEF CreateQueueJob, MarkQueueJobFailed, MarkQueueJobRunning, MarkQueueJobCompleted,
         MoveQueueJob, QueueJobStatus

LEMMA JobCompletes ==
    ASSUME NoReportedErrors, LifecycleInv, RowsInv, [Next]_vars,
           NEW t \in Tasks, jobs'[t] = "completed"
    PROVE  \/ jobs[t] = "completed"
           \/ \E w \in Workers : CompleteJob(w) /\ worker[w].task = t
<1>1. jobs \in [Tasks -> QueueJobStatus] /\ TypeOK /\ NoFailedPublish
  BY DEF LifecycleInv, TypeOK, RowsInv
<1>2. CASE \E u \in Tasks : RecordRequest(u)
  BY <1>1, <1>2, JobsCompleted DEF RecordRequest
<1>3. CASE \E w \in Workers : MarkJobRunning(w)
  BY <1>1, <1>3, JobsCompleted DEF MarkJobRunning, JobMarkedRunning
<1>4. CASE \E w \in Workers : FailJob(w)
  BY <1>1, <1>4, JobsCompleted DEF FailJob
<1>5. CASE \E w \in Workers : CompleteJob(w)
  BY <1>1, <1>5, JobsCompleted DEF CompleteJob
<1>6. ASSUME UNCHANGED jobs
      PROVE  jobs[t] = "completed"
  BY <1>6
<1>7. CASE LocalStep
  BY <1>3, <1>4, <1>5, <1>6, <1>7
  DEF LocalStep, Publish, EnqueuerDies, SendDirect, Deliver, ScanStepFails, Retry, Ack,
      Redeliver, WorkerDies, WorkspaceError, tables, vars
<1>8. ASSUME NEW w \in Workers, RowStep(w)
      PROVE  UNCHANGED jobs
  BY <1>8 DEF RowStep, ClaimedQueued, ClaimedNew, Claimed, FetchMetadata, CommitVersions,
              SaveResult, FailScan, tables
<1> QED  BY <1>1, <1>2, <1>6, <1>7, <1>8, StepKinds

LEMMA ReachesCompleteJob ==
    ASSUME NoReportedErrors, LifecycleInv, RowsInv, [Next]_vars,
           NEW v \in Workers, At(v, "complete_job")'
    PROVE  worker'[v].task = worker[v].task /\ (At(v, "complete_job") \/ SaveResult(v))
<1>1. TypeOK /\ NoFailedPublish /\ worker \in [Workers -> WorkerState]
  BY DEF LifecycleInv, TypeOK, RowsInv
<1>2. worker'[v].pc = "complete_job"
  BY DEF At
<1>3. ASSUME worker'[v] = worker[v]
      PROVE  worker'[v].task = worker[v].task /\ At(v, "complete_job")
  BY <1>2, <1>3 DEF At
<1>4. ASSUME NEW w \in Workers, OthersStay(w), worker'[w].pc # "complete_job"
      PROVE  worker'[v] = worker[v]
  BY <1>2, <1>4 DEF OthersStay
<1>5. ASSUME NEW w \in Workers, NEW pc \in WorkerPc \ {"complete_job"},
             Goto(w, pc) \/ \E i, b : Leave(w, pc, i, b)
      PROVE  worker'[v] = worker[v]
  BY <1>1, <1>4, <1>5, GotoMoves, LeaveMoves
<1>6. ASSUME NEW w \in Workers, RowStep(w)
      PROVE  worker'[v].task = worker[v].task /\ (At(v, "complete_job") \/ SaveResult(v))
  <2>1. CASE SaveResult(w)
    <3>1. OthersStay(w) /\ worker'[w].task = worker[w].task
      BY <1>1, <2>1, LeaveMoves DEF SaveResult
    <3> QED  BY <1>3, <2>1, <3>1 DEF OthersStay
  <2>2. CASE FailScan(w) \/ CommitVersions(w)
    BY <1>3, <1>5, <2>2 DEF FailScan, CommitVersions, WorkerPc
  <2>3. CASE FetchMetadata(w)
    <3>1. worker[w] \in WorkerState
      BY <1>1
    <3>2. OthersStay(w) /\ worker'[w].pc = "commit_versions"
      BY <1>1, <2>3, <3>1 DEF FetchMetadata, OthersStay, WorkerState
    <3> QED  BY <1>3, <1>4, <3>2
  <2>4. CASE ClaimedNew(w) \/ \E i : ClaimedQueued(w, i)
    BY <1>3, <1>4, <2>4 DEF ClaimedNew, ClaimedQueued, Claimed
  <2> QED  BY <1>6, <2>1, <2>2, <2>3, <2>4 DEF RowStep
<1>7. CASE LocalStep
  <2>1. CASE UNCHANGED worker
    BY <1>3, <2>1
  <2>2. ASSUME NEW w \in Workers, NEW m \in Message, Deliver(w, m)
        PROVE  worker'[v] = worker[v]
    BY <1>1, <1>4, <2>2 DEF Deliver, Idle, OthersStay
  <2>3. ASSUME NEW w \in Workers,
               \/ MarkJobRunning(w) \/ ScanStepFails(w) \/ FailJob(w) \/ CompleteJob(w)
               \/ Retry(w) \/ WorkspaceError(w)
        PROVE  worker'[v] = worker[v]
    BY <1>5, <2>3
    DEF MarkJobRunning, ScanStepFails, FailJob, CompleteJob, Retry, WorkspaceError, WorkerPc
  <2>4. ASSUME NEW w \in Workers, Ack(w) \/ WorkerDies(w)
        PROVE  worker'[v] = worker[v]
    BY <1>1, <1>4, <2>4 DEF Ack, WorkerDies, Idle, OthersStay
  <2>5. ASSUME NEW w \in Workers, Redeliver(w)
        PROVE  worker'[v].task = worker[v].task /\ At(v, "complete_job")
    <3>1. worker[w] \in WorkerState
      BY <1>1
    <3>2. /\ OthersStay(w) /\ worker'[w].pc = worker[w].pc
          /\ worker'[w].task = worker[w].task
      BY <1>1, <2>5, <3>1 DEF Redeliver, OthersStay, WorkerState
    <3> QED  BY <1>2, <3>2 DEF OthersStay, At
  <2> QED
    BY <1>3, <1>7, <2>1, <2>2, <2>3, <2>4, <2>5
    DEF LocalStep, Publish, EnqueuerDies, SendDirect, vars
<1>8. CASE \E t \in Tasks : RecordRequest(t)
  BY <1>3, <1>8 DEF RecordRequest
<1> QED  BY <1>1, <1>6, <1>7, <1>8, StepKinds

(* A task gets done by the step that completes an attempt, or was.         *)
LEMMA DoneGrows ==
    ASSUME NoReportedErrors, LifecycleInv, RowsInv, [Next]_vars,
           NEW p \in Packages, NEW t \in Done(p)'
    PROVE  t \in Done(p) \/ \E w \in Workers : SaveResult(w) /\ worker[w].task = t
<1>1. t \in Tasks /\ PackageOf[t] = p
  BY DEF Done
<1>2. CASE jobs'[t] = "completed"
  <2>1. \/ jobs[t] = "completed"
        \/ \E w \in Workers : CompleteJob(w) /\ worker[w].task = t
    BY <1>1, <1>2, JobCompletes
  <2> QED  BY <1>1, <2>1 DEF Done, CompleteJob
<1>3. CASE \E v \in Workers : At(v, "complete_job")' /\ worker'[v].task = t
  BY <1>1, <1>3, ReachesCompleteJob DEF Done
<1> QED  BY <1>2, <1>3 DEF Done

LEMMA CompletedGrow ==
    ASSUME LifecycleInv, [Next]_vars, NEW p
    PROVE  ScansWith(scans, p, "completed") \subseteq ScansWith(scans', p, "completed")
  BY CompletedPreserved DEF CompletedRowsKept, ScansWith

LEMMA DoneKept ==
    NoReportedErrors /\ LifecycleInv /\ RowsInv /\ DoneHaveScans /\ TypeOK' /\ [Next]_vars
    => DoneHaveScans'
<1> SUFFICES ASSUME NoReportedErrors, LifecycleInv, RowsInv, DoneHaveScans, TypeOK',
                    [Next]_vars, NEW p \in Packages
             PROVE  /\ IsFiniteSet(Done(p)')
                    /\ Cardinality(Done(p)') <= Cardinality(ScansWith(scans', p, "completed"))
  BY DEF DoneHaveScans
<1> DEFINE C == ScansWith(scans, p, "completed")
           D == ScansWith(scans', p, "completed")
           E == Done(p)'
<1>1. IsFiniteSet(C) /\ IsFiniteSet(D) /\ C \subseteq D
  BY TableRowsFinite, CompletedGrow DEF LifecycleInv, TypeOK, ScanTable
<1>2. IsFiniteSet(Done(p)) /\ Cardinality(Done(p)) <= Cardinality(C)
  BY DEF DoneHaveScans
<1>3. Cardinality(C) \in Nat /\ Cardinality(D) \in Nat /\ Cardinality(Done(p)) \in Nat
      /\ Cardinality(C) <= Cardinality(D)
  BY <1>1, <1>2, FS_CardinalityType, FS_Subset
<1>4. CASE E \subseteq Done(p)
  <2>1. IsFiniteSet(E) /\ Cardinality(E) \in Nat /\ Cardinality(E) <= Cardinality(Done(p))
    BY <1>2, <1>4, FS_Subset, FS_CardinalityType
  <2> HIDE DEF C, D, E
  <2>2. Cardinality(E) <= Cardinality(D)
    BY <1>2, <1>3, <2>1
  <2> QED  BY <2>1, <2>2 DEF D, E
<1>5. CASE ~(E \subseteq Done(p))
  <2>1. PICK t \in E : t \notin Done(p)
    BY <1>5
  <2>2. PICK w \in Workers : SaveResult(w) /\ worker[w].task = t
    BY <2>1, DoneGrows
  <2>3. PackageOf[t] = p /\ Package(w) = p /\ Holding(w)
    BY <2>1, <2>2 DEF Done, Package, SaveResult, At, Holding, Scanning
  <2> DEFINE i == worker[w].scan
  <2>4. i \notin C /\ i \in D
    <3>1. i \in DOMAIN scans /\ scans[i].status = "running" /\ scans[i].pkg = p
      BY <2>3, HeldRowFacts
    <3>2. /\ DOMAIN scans' = DOMAIN scans /\ scans'[i].pkg = scans[i].pkg
          /\ scans'[i].status = "completed"
      BY <2>2, ResultRow DEF RowMoved, OnlyRow
    <3> QED  BY <3>1, <3>2 DEF ScansWith
  <2>5. Cardinality(D) >= Cardinality(C) + 1
    <3>1. IsFiniteSet(C \cup {i}) /\ Cardinality(C \cup {i}) = Cardinality(C) + 1
      BY <1>1, <2>4, FS_AddElement
    <3>2. Cardinality(C \cup {i}) <= Cardinality(D)
      BY <1>1, <2>4, FS_Subset
    <3> QED  BY <1>3, <3>1, <3>2
  <2>6. E \subseteq Done(p) \cup {t}
    <3>1. \A u \in E : u \in Done(p) \/ \E v \in Workers : SaveResult(v) /\ worker[v].task = u
      BY DoneGrows
    <3>2. \A v \in Workers : SaveResult(v) => v = w
      <4>0. TypeOK /\ Leave(w, "complete_job", 0, FALSE)
        BY <2>2 DEF SaveResult, LifecycleInv
      <4>1. OthersStay(w)
        BY <4>0, LeaveMoves
      <4>2. ASSUME NEW v \in Workers, SaveResult(v), v # w
            PROVE  FALSE
        <5>1. worker'[v].pc = "complete_job" /\ worker[v].pc = "analyse"
          BY <4>2, LeaveMoves DEF SaveResult, At, LifecycleInv
        <5> QED  BY <4>1, <4>2, <5>1 DEF OthersStay
      <4> QED  BY <4>2
    <3> QED  BY <2>2, <3>1, <3>2
  <2>7. /\ IsFiniteSet(Done(p) \cup {t})
        /\ Cardinality(Done(p) \cup {t}) = Cardinality(Done(p)) + 1
    BY <1>2, <2>1, FS_AddElement
  <2>8. IsFiniteSet(E) /\ Cardinality(E) \in Nat /\ Cardinality(E) <= Cardinality(Done(p)) + 1
    BY <2>6, <2>7, FS_Subset, FS_CardinalityType
  <2> HIDE DEF C, D, E
  <2>9. Cardinality(E) <= Cardinality(D)
    BY <1>2, <1>3, <2>5, <2>8
  <2> QED  BY <2>8, <2>9 DEF D, E
<1> QED  BY <1>4, <1>5

LEMMA DoneStarts == Init => DoneHaveScans
<1> SUFFICES ASSUME Init, NEW p \in Packages
             PROVE  IsFiniteSet(Done(p))
                    /\ Cardinality(Done(p)) <= Cardinality(ScansWith(scans, p, "completed"))
  BY DEF DoneHaveScans
<1>1. Done(p) = {} /\ ScansWith(scans, p, "completed") = {}
  BY DEF Init, Idle, Done, At, ScansWith
<1> QED  BY <1>1, FS_EmptySet

(* Every completed job of a package is backed by a completed attempt of    *)
(* its own, although nothing in the schema links the two: a redelivery or  *)
(* a stolen row never completes two jobs with one attempt.                 *)
THEOREM CompletedJobsBacked ==
    ASSUME NoReportedErrors
    PROVE  Spec => []CompletedJobsHaveScans
<1>1. DoneHaveScans /\ LifecycleInv => CompletedJobsHaveScans
  <2> SUFFICES ASSUME DoneHaveScans, LifecycleInv, NEW p \in Packages
               PROVE  Cardinality({t \in Tasks : PackageOf[t] = p /\ jobs[t] = "completed"})
                         <= Cardinality(ScansWith(scans, p, "completed"))
    BY DEF CompletedJobsHaveScans
  <2> DEFINE J == {t \in Tasks : PackageOf[t] = p /\ jobs[t] = "completed"}
             C == ScansWith(scans, p, "completed")
  <2>1. J \subseteq Done(p)
    BY DEF Done
  <2>2. IsFiniteSet(Done(p)) /\ Cardinality(Done(p)) <= Cardinality(C)
    BY DEF DoneHaveScans
  <2>3. IsFiniteSet(J) /\ Cardinality(J) <= Cardinality(Done(p))
    BY <2>1, <2>2, FS_Subset
  <2>4. IsFiniteSet(C)
    BY TableRowsFinite DEF LifecycleInv, TypeOK, ScanTable
  <2>5. Cardinality(J) \in Nat /\ Cardinality(Done(p)) \in Nat /\ Cardinality(C) \in Nat
    BY <2>2, <2>3, <2>4, FS_CardinalityType
  <2> HIDE DEF J, C
  <2>6. Cardinality(J) <= Cardinality(C)
    BY <2>2, <2>3, <2>5
  <2> QED  BY <2>6 DEF J, C
<1> QED  BY <1>1, DoneStarts, DoneKept, RowsInvariant, TypeCorrect, PTL DEF Spec

-----------------------------------------------------------------------------
(* The tables as a history of scan attempts.                               *)

AttemptStep == [Attempts!Next]_(Attempts!avars)

LEMMA AttemptsSeenIn ==
    ASSUME LifecycleInv
    PROVE  /\ AttemptsSeen = AttemptsIn(scans) /\ AttemptsSeen' = AttemptsIn(scans')
           /\ AttemptsSeen \in Seq(AttemptRow) /\ DOMAIN AttemptsSeen = DOMAIN scans
           /\ \A i \in DOMAIN scans : AttemptsSeen[i] = Seen(scans, i)
           /\ \A p : Attempts!Queued(p) = ScansWith(scans, p, "queued")
<1>1. AttemptsSeen = AttemptsIn(scans) /\ AttemptsSeen' = AttemptsIn(scans')
  BY DEF AttemptsSeen, AttemptsIn, Seen
<1>2. /\ AttemptsSeen \in Seq(AttemptRow) /\ DOMAIN AttemptsSeen = DOMAIN scans
      /\ \A i \in DOMAIN scans : AttemptsSeen[i] = Seen(scans, i)
  BY <1>1, AttemptsTyped DEF LifecycleInv, TypeOK, ScanTable
<1>3. \A p : Attempts!Queued(p) = ScansWith(scans, p, "queued")
  BY <1>2 DEF Attempts!Queued, ScansWith, Seen
<1> QED  BY <1>1, <1>2, <1>3

(* A row that moves on shows in its own attempt alone.                     *)
LEMMA SeenMoved ==
    ASSUME LifecycleInv, NEW i \in DOMAIN scans, RowMoved(scans, scans', i)
    PROVE  AttemptsSeen' = [AttemptsSeen EXCEPT ![i] = Seen(scans', i)]
  BY AttemptsSeenIn, AttemptMoved DEF LifecycleInv, TypeOK, ScanTable

LEMMA SameTables ==
    ASSUME UNCHANGED <<scans, scanned>>
    PROVE  AttemptStep
  BY DEF AttemptStep, Attempts!avars, AttemptsSeen

LEMMA RequestIsRequest ==
    ASSUME LifecycleInv, NEW t \in Tasks, RecordRequest(t)
    PROVE  AttemptStep
<1> DEFINE p == PackageOf[t]
<1>1. /\ p \in Packages /\ scans \in ScanTable /\ "queued" \in ScanStatus
      /\ scans' = CreateScanResult(scans, p, "queued") /\ UNCHANGED scanned
  BY DEF RecordRequest, LifecycleInv, TypeOK, ScanTable, ScanStatus
<1> HIDE DEF p
<1>2. AttemptsSeen' = Append(AttemptsSeen, Attempts!Attempt(p, "queued"))
  BY <1>1, AttemptAppended, AttemptsSeenIn DEF Attempts!Attempt
<1>3. Attempts!Request(p)
  BY <1>1, <1>2 DEF Attempts!Request
<1> QED  BY <1>1, <1>3 DEF AttemptStep, Attempts!Next

LEMMA ClaimIsStart ==
    ASSUME LifecycleInv, NEW w \in Workers, NEW i \in DOMAIN scans, ClaimedQueued(w, i)
    PROVE  AttemptStep
<1>1. /\ scans[i].pkg = Package(w) /\ scans[i].status = "queued"
      /\ \A j \in ScansWith(scans, Package(w), "queued") : i <= j
      /\ scans' = ClaimQueuedScan(scans, i) /\ UNCHANGED scanned
  BY DEF ClaimedQueued, Claimed, IsNextQueuedScan, ScansWith
<1>2. /\ RowMoved(scans, scans', i)
      /\ scans'[i].status = "running" /\ scans'[i].findings = scans[i].findings
  BY <1>1, RowClaimed DEF LifecycleInv, TypeOK, ScanTable
<1>3. AttemptsSeen[i] = Seen(scans, i) /\ i \in DOMAIN AttemptsSeen
  BY AttemptsSeenIn
<1>4. AttemptsSeen' = [AttemptsSeen EXCEPT ![i].status = "running"]
  <2>1. Seen(scans', i) = [Seen(scans, i) EXCEPT !.status = "running"]
    BY <1>2 DEF Seen, RowMoved
  <2> QED  BY <1>2, <1>3, <2>1, SeenMoved
<1>5. AttemptsSeen[i].pkg = Package(w)
  BY <1>1, <1>3 DEF Seen
<1>6. Attempts!Queued(AttemptsSeen[i].pkg) = ScansWith(scans, Package(w), "queued")
  BY <1>5, AttemptsSeenIn
<1>7. i \in ScansWith(scans, Package(w), "queued")
  BY <1>1 DEF ScansWith
<1>8. Attempts!Start(i)
  BY <1>1, <1>4, <1>6, <1>7 DEF Attempts!Start
<1> QED  BY <1>3, <1>8 DEF AttemptStep, Attempts!Next

LEMMA ClaimIsUnrequested ==
    ASSUME LifecycleInv, NEW w \in Workers, ClaimedNew(w)
    PROVE  AttemptStep
<1> DEFINE p == Package(w)
<1>1. /\ p \in Packages /\ scans \in ScanTable /\ "running" \in ScanStatus
      /\ scans' = CreateScanResult(scans, p, "running") /\ UNCHANGED scanned
      /\ ScansWith(scans, p, "queued") = {}
  BY DEF ClaimedNew, Claimed, LifecycleInv, BusyHasTask, TypeOK, At, Package, ScanTable,
         ScanStatus
<1> HIDE DEF p
<1>2. AttemptsSeen' = Append(AttemptsSeen, Attempts!Attempt(p, "running"))
  BY <1>1, AttemptAppended, AttemptsSeenIn DEF Attempts!Attempt
<1>3. Attempts!Queued(p) = {}
  BY <1>1, AttemptsSeenIn
<1>4. Attempts!StartUnrequested(p)
  BY <1>1, <1>2, <1>3 DEF Attempts!StartUnrequested
<1> QED  BY <1>1, <1>4 DEF AttemptStep, Attempts!Next

LEMMA CommitIsUnseen ==
    ASSUME LifecycleInv, RowsInv, NEW w \in Workers, CommitVersions(w)
    PROVE  AttemptStep
<1> DEFINE i == worker[w].scan
<1>1. Holding(w) /\ worker[w].version \in Versions /\ worker[w].sawRunning /\ UNCHANGED scanned
  BY DEF CommitVersions, At, Holding, Scanning, RowsInv, VersionHeld
<1>2. i \in DOMAIN scans
  BY <1>1, HeldRowFacts
<1>3. /\ RowMoved(scans, scans', i)
      /\ scans'[i].status = scans[i].status /\ scans'[i].findings = scans[i].findings
  BY <1>1, HeldRowFacts, RowVersioned DEF CommitVersions, VersionsWritten
<1> HIDE DEF i
<1>4. Seen(scans', i) = Seen(scans, i)
  BY <1>3 DEF Seen, RowMoved
<1>5. AttemptsSeen' = AttemptsSeen
  BY <1>2, <1>3, <1>4, SeenMoved, AttemptsSeenIn
<1> QED  BY <1>1, <1>5 DEF AttemptStep, Attempts!avars

LEMMA ResultIsCompletion ==
    ASSUME LifecycleInv, RowsInv, NEW w \in Workers, SaveResult(w)
    PROVE  AttemptStep
<1> DEFINE i == worker[w].scan
           v == worker[w].version
<1>1. Holding(w)
  BY DEF SaveResult, At, Holding, Scanning
<1>2. i \in DOMAIN scans /\ scans[i].status = "running" /\ scans[i].pkg = Package(w)
  BY <1>1, HeldRowFacts
<1>3. /\ RowMoved(scans, scans', i) /\ v \in Versions
      /\ scans'[i].status = "completed" /\ scans'[i].findings = v
      /\ scanned' = [scanned EXCEPT ![Package(w)] = v]
  BY ResultRow
<1> HIDE DEF i, v
<1>4. AttemptsSeen[i] = Seen(scans, i) /\ i \in DOMAIN AttemptsSeen
  BY <1>2, AttemptsSeenIn
<1>5. Seen(scans', i) = [Seen(scans, i) EXCEPT !.status = "completed", !.result = v]
  <2>1. Seen(scans', i) = [pkg |-> scans[i].pkg, status |-> "completed", result |-> v]
    BY <1>3 DEF Seen, RowMoved
  <2>2. [Seen(scans, i) EXCEPT !.status = "completed", !.result = v]
        = [pkg |-> scans[i].pkg, status |-> "completed", result |-> v]
    BY AttemptEnds
  <2> QED  BY <2>1, <2>2
<1>6. AttemptsSeen' = [AttemptsSeen EXCEPT
                          ![i] = [@ EXCEPT !.status = "completed", !.result = v]]
  <2>1. AttemptsSeen' = [AttemptsSeen EXCEPT ![i] = Seen(scans', i)]
    BY <1>2, <1>3, SeenMoved
  <2> QED  BY <1>4, <1>5, <2>1
<1>7. AttemptsSeen[i].status = "running" /\ AttemptsSeen[i].pkg = Package(w)
  BY <1>2, <1>4 DEF Seen
<1>8. Attempts!Complete(i, v)
  BY <1>3, <1>6, <1>7 DEF Attempts!Complete
<1> QED  BY <1>3, <1>4, <1>8 DEF AttemptStep, Attempts!Next

LEMMA FailureIsFailure ==
    ASSUME LifecycleInv, RowsInv, NEW w \in Workers, FailScan(w)
    PROVE  AttemptStep
<1> DEFINE i == worker[w].scan
<1>1. Holding(w) /\ UNCHANGED scanned
  BY DEF FailScan, At, Holding
<1>2. i \in DOMAIN scans /\ scans[i].status = "running"
  BY <1>1, HeldRowFacts
<1>3. /\ RowMoved(scans, scans', i)
      /\ scans'[i].status = "failed" /\ scans'[i].findings = scans[i].findings
  BY <1>1, HeldRowFacts, RowFailed DEF FailScan
<1> HIDE DEF i
<1>4. AttemptsSeen[i] = Seen(scans, i) /\ i \in DOMAIN AttemptsSeen
  BY <1>2, AttemptsSeenIn
<1>5. AttemptsSeen' = [AttemptsSeen EXCEPT ![i].status = "failed"]
  <2>1. Seen(scans', i) = [Seen(scans, i) EXCEPT !.status = "failed"]
    BY <1>3 DEF Seen, RowMoved
  <2> QED  BY <1>2, <1>3, <1>4, <2>1, SeenMoved
<1>6. AttemptsSeen[i].status = "running"
  BY <1>2, <1>4 DEF Seen
<1>7. Attempts!Fail(i)
  BY <1>1, <1>5, <1>6 DEF Attempts!Fail
<1> QED  BY <1>4, <1>7 DEF AttemptStep, Attempts!Next

LEMMA StepIsAttempt ==
    ASSUME NoReportedErrors, LifecycleInv, RowsInv, [Next]_vars
    PROVE  AttemptStep
<1>1. TypeOK /\ NoFailedPublish
  BY DEF LifecycleInv, RowsInv
<1>2. CASE LocalStep
  BY <1>1, <1>2, LocalStepTakesNothing, SameTables
<1>3. ASSUME NEW w \in Workers, FetchMetadata(w)
      PROVE  AttemptStep
  BY <1>3, SameTables DEF FetchMetadata, tables
<1>4. ASSUME NEW w \in Workers, RowStep(w)
      PROVE  AttemptStep
  BY <1>3, <1>4, ClaimIsStart, ClaimIsUnrequested, CommitIsUnseen, ResultIsCompletion,
     FailureIsFailure DEF RowStep
<1> QED  BY <1>1, <1>2, <1>4, StepKinds, RequestIsRequest

LEMMA StartIsEmpty == Init => Attempts!Init
  BY EmptySeq DEF Init, Attempts!Init, AttemptsSeen

(* Every step of enqueuers, broker and workers is, to a reader of the      *)
(* tables, a step of ScanAttempts or none: retries, duplicate deliveries,  *)
(* stolen rows and dying processes do not show.                            *)
THEOREM LifecycleRefines ==
    ASSUME NoReportedErrors
    PROVE  Spec => ImplementsScanAttempts
<1>1. LifecycleInv /\ RowsInv /\ [Next]_vars => [Attempts!Next]_(Attempts!avars)
  BY StepIsAttempt DEF AttemptStep
<1> QED
  BY <1>1, StartIsEmpty, RowsInvariant, PTL
  DEF Spec, ImplementsScanAttempts, Attempts!Spec
=============================================================================
