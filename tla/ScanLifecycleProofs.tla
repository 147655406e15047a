------------------------ MODULE ScanLifecycleProofs ------------------------
(***************************************************************************)
(* The scan lifecycle keeps its types, no two deliveries scan into one     *)
(* row, and a completed attempt is final: for any number of packages,      *)
(* tasks, workers, retries and faults of every kind.                       *)
(***************************************************************************)
EXTENDS ScanProperties, ScanStoreTheorems

USE LifecycleAssumption, MaxVersionAssumption

LEMMA IdleIsWorkerState == Idle \in WorkerState
  BY DEF Idle, WorkerState, WorkerPc, VersionOrNone

(* A step that only moves a worker's pc keeps it a worker state.           *)
LEMMA GotoType ==
    ASSUME NEW w \in Workers, NEW pc \in WorkerPc, TypeOK, Goto(w, pc)
    PROVE  worker' \in [Workers -> WorkerState]
  <1>1. worker \in [Workers -> WorkerState]
    BY DEF TypeOK
  <1>2. [worker[w] EXCEPT !.pc = pc] \in WorkerState
    BY <1>1 DEF WorkerState
  <1> QED
    BY <1>1, <1>2 DEF Goto

LEMMA LeaveType ==
    ASSUME NEW w \in Workers, NEW pc \in WorkerPc, NEW i \in Nat, NEW b \in BOOLEAN,
           TypeOK, Leave(w, pc, i, b)
    PROVE  worker' \in [Workers -> WorkerState]
  <1> DEFINE r == [worker[w] EXCEPT !.pc = pc, !.scan = i, !.willRetry = b,
                                    !.version = NoVersion, !.sawRunning = FALSE]
  <1>1. worker \in [Workers -> WorkerState]
    BY DEF TypeOK
  <1>2. r \in WorkerState
    BY <1>1 DEF WorkerState, VersionOrNone
  <1>3. worker' = [worker EXCEPT ![w] = r]
    BY DEF Leave
  <1> QED
    BY <1>1, <1>2, <1>3

LEMMA PutType ==
    ASSUME NEW m, TypeOK, Put(m)
    PROVE  ready' \in [Message -> Nat]
  <1>1. ready \in [Message -> Nat]
    BY DEF TypeOK
  <1>2. CASE m \in Message
    BY <1>1, <1>2 DEF Put
  <1>3. CASE m \notin Message
    <2>1. ready' = [x \in Message |-> ready[x]]
      BY <1>1, <1>3 DEF Put
    <2> QED
      BY <1>1, <2>1
  <1> QED
    BY <1>2, <1>3

LEMMA JobsType ==
    ASSUME NEW J \in [Tasks -> QueueJobStatus], NEW t
    PROVE  /\ CreateQueueJob(J, t) \in [Tasks -> QueueJobStatus]
           /\ MarkQueueJobRunning(J, t) \in [Tasks -> QueueJobStatus]
           /\ MarkQueueJobCompleted(J, t) \in [Tasks -> QueueJobStatus]
           /\ MarkQueueJobFailed(J, t) \in [Tasks -> QueueJobStatus]
  BY DEF CreateQueueJob, MarkQueueJobRunning, MarkQueueJobCompleted,
         MarkQueueJobFailed, MoveQueueJob, QueueJobStatus

LEMMA FaultType ==
    ASSUME NEW kind, TypeOK, Fault(kind)
    PROVE  faultsLeft' \in Nat
  BY DEF TypeOK, Fault

LEMMA EnqueuerGotoType ==
    ASSUME NEW t \in Tasks, NEW pc \in EnqueuerPc, TypeOK, EnqueuerGoto(t, pc)
    PROVE  enqueuer' \in [Tasks -> [pc : EnqueuerPc, scan : Nat]]
  BY DEF TypeOK, EnqueuerGoto

-----------------------------------------------------------------------------
(* Types.  One step per action; what an action leaves alone keeps its type *)
(* by UNCHANGED.                                                           *)

LEMMA TypeInit == Init => TypeOK
  BY IdleIsWorkerState, EmptySeq
     DEF Init, TypeOK, QueueJobStatus, VersionOrNone, EnqueuerPc

LEMMA EnqueuerType ==
    ASSUME LifecycleInv, NEW t \in Tasks, EnqueuerStep(t) \/ EnqueuerFault(t)
    PROVE  TypeOK'
  <1> USE DEF LifecycleInv
  <1> PackageOf[t] \in Packages
    OBVIOUS
  <1>1. CASE RecordRequest(t)
    <2>1. scans' \in Seq(ScanRow) /\ Len(scans') \in Nat
      <3>1. RowAdded(scans, scans', "queued")
        BY <1>1, ScanCreated DEF RecordRequest, TypeOK, ScanTable, ScanStatus
      <3> QED
        BY <3>1 DEF RowAdded, ScanTable
    <2>2. jobs' \in [Tasks -> QueueJobStatus]
      BY <1>1, JobsType DEF RecordRequest, TypeOK
    <2>3. enqueuer' \in [Tasks -> [pc : EnqueuerPc, scan : Nat]]
      BY <1>1, <2>1 DEF RecordRequest, TypeOK, EnqueuerPc
    <2> QED
      BY <1>1, <2>1, <2>2, <2>3 DEF RecordRequest, TypeOK
  <1>2. CASE Publish(t)
    BY <1>2, PutType, EnqueuerGotoType DEF Publish, TypeOK, EnqueuerPc, tables
  <1>3. CASE RecordPublishFailure(t)
    <2>1. scans' \in Seq(ScanRow)
      BY <1>3, ScanFailed
         DEF RecordPublishFailure, HeldScansExist, TypeOK, ScanTable, OnlyRow
    <2>2. jobs' \in [Tasks -> QueueJobStatus]
      BY <1>3, JobsType DEF RecordPublishFailure, TypeOK
    <2> QED
      BY <1>3, <2>1, <2>2, EnqueuerGotoType
         DEF RecordPublishFailure, TypeOK, EnqueuerPc
  <1>4. CASE PublishFails(t)
    BY <1>4, PutType, FaultType, EnqueuerGotoType
       DEF PublishFails, TypeOK, EnqueuerPc, tables
  <1>5. CASE EnqueuerDies(t)
    BY <1>5, FaultType, EnqueuerGotoType DEF EnqueuerDies, TypeOK, EnqueuerPc, tables
  <1>6. CASE SendDirect(t)
    BY <1>6, PutType, FaultType, EnqueuerGotoType
       DEF SendDirect, TypeOK, EnqueuerPc, tables
  <1> QED
    BY <1>1, <1>2, <1>3, <1>4, <1>5, <1>6 DEF EnqueuerStep, EnqueuerFault

LEMMA DeliverType ==
    ASSUME LifecycleInv, NEW w \in Workers, NEW m \in Message, Deliver(w, m)
    PROVE  TypeOK'
  <1> DEFINE r == [Idle EXCEPT !.pc = "mark_running", !.task = m.task,
                               !.retries = m.retries, !.held = TRUE]
  <1>1. r \in WorkerState
    BY IdleIsWorkerState DEF WorkerState, WorkerPc, Message
  <1>2. worker' \in [Workers -> WorkerState]
    BY <1>1 DEF Deliver, LifecycleInv, TypeOK
  <1>3. ready' \in [Message -> Nat]
    BY DEF Deliver, LifecycleInv, TypeOK
  <1> QED
    BY <1>2, <1>3 DEF Deliver, LifecycleInv, TypeOK, tables

(* What the transactions of a worker that holds a row leave.               *)
LEMMA HeldRowType ==
    ASSUME LifecycleInv, NEW w \in Workers,
           Scanning(w) \/ worker[w].pc = "fail_scan"
    PROVE  /\ Package(w) \in Packages
           /\ worker[w].scan \in DOMAIN scans /\ worker[w].scan \in Nat
           /\ worker[w].version \in VersionOrNone
           /\ scans \in ScanTable
           /\ worker[w] \in WorkerState
  <1>1. worker[w] \in WorkerState
    BY DEF LifecycleInv, TypeOK
  <1>2. worker[w].task \in Tasks
    BY DEF LifecycleInv, BusyHasTask, Scanning
  <1> QED
    BY <1>1, <1>2
       DEF LifecycleInv, TypeOK, HeldScansExist, WorkerState, Package, ScanTable

LEMMA VersionsWrittenType ==
    ASSUME LifecycleInv, NEW w \in Workers, Scanning(w), VersionsWritten(w)
    PROVE  /\ scans' \in Seq(ScanRow)
           /\ known' \in [Packages -> SUBSET Versions]
  <1>1. scans' \in Seq(ScanRow)
    BY HeldRowType, VersionsSet DEF VersionsWritten, OnlyRow, ScanTable
  <1>2. known' \in [Packages -> SUBSET Versions]
    <2> DEFINE new == {worker[w].version, worker[w].version - 1} \cap Versions
    <2>1. new \in SUBSET Versions
      OBVIOUS
    <2>2. known' = [known EXCEPT ![Package(w)] = @ \cup new]
      BY DEF VersionsWritten
    <2> HIDE DEF new
    <2> QED
      BY <2>1, <2>2 DEF LifecycleInv, TypeOK
  <1> QED
    BY <1>1, <1>2

LEMMA ResultSavedType ==
    ASSUME LifecycleInv, NEW w \in Workers, Scanning(w), ResultSaved(w)
    PROVE  /\ scans' \in Seq(ScanRow)
           /\ scanned' \in [Packages -> VersionOrNone]
  <1>1. scans' \in Seq(ScanRow)
    BY HeldRowType, ScanSaved DEF ResultSaved, OnlyRow, ScanTable
  <1>2. scanned' \in [Packages -> VersionOrNone]
    BY HeldRowType DEF ResultSaved, LifecycleInv, TypeOK
  <1> QED
    BY <1>1, <1>2

LEMMA TaskType ==
    ASSUME LifecycleInv, NEW w \in Workers, TaskStep(w)
    PROVE  TypeOK'
  <1>0. TypeOK /\ worker[w] \in WorkerState
    BY DEF LifecycleInv, TypeOK
  <1> USE <1>0
  <1>1. CASE MarkJobRunning(w)
    BY <1>1, JobsType, GotoType DEF MarkJobRunning, JobMarkedRunning, TypeOK, WorkerPc
  <1>2. CASE ClaimScan(w)
    <2>1. Package(w) \in Packages
      BY <1>2 DEF LifecycleInv, BusyHasTask, ClaimScan, At, Package
    <2>2. ASSUME NEW i \in DOMAIN scans,
                 scans' = ClaimQueuedScan(scans, i),
                 worker' = [worker EXCEPT ![w] = [@ EXCEPT !.pc = "fetch", !.scan = i]]
          PROVE  scans' \in Seq(ScanRow) /\ worker' \in [Workers -> WorkerState]
      <3>1. i \in Nat
        BY LenProperties DEF TypeOK
      <3>2. [worker[w] EXCEPT !.pc = "fetch", !.scan = i] \in WorkerState
        BY <3>1 DEF WorkerState, WorkerPc
      <3> QED
        BY <2>2, <3>2, ScanClaimed DEF TypeOK, OnlyRow, ScanTable
    <2>3. ASSUME scans' = CreateScanResult(scans, Package(w), "running"),
                 worker' = [worker EXCEPT ![w] = [@ EXCEPT !.pc = "fetch", !.scan = Len(scans')]]
          PROVE  scans' \in Seq(ScanRow) /\ worker' \in [Workers -> WorkerState]
      <3>1. scans' \in Seq(ScanRow) /\ Len(scans') \in Nat
        <4>1. RowAdded(scans, scans', "running")
          BY <2>1, <2>3, ScanCreated DEF TypeOK, ScanTable, ScanStatus
        <4> QED
          BY <4>1 DEF RowAdded, ScanTable
      <3>2. [worker[w] EXCEPT !.pc = "fetch", !.scan = Len(scans')] \in WorkerState
        BY <3>1 DEF WorkerState, WorkerPc
      <3> QED
        BY <2>3, <3>1, <3>2 DEF TypeOK
    <2> QED
      BY <1>2, <2>2, <2>3 DEF ClaimScan, TypeOK
  <1>3. CASE FetchMetadata(w)
    <2>1. PICK v \in Versions :
            worker' = [worker EXCEPT ![w] =
                         [@ EXCEPT !.pc = "commit_versions",
                                   !.version = v,
                                   !.sawRunning = (scans[worker[w].scan].status = "running")]]
      BY <1>3 DEF FetchMetadata
    <2>2. [worker[w] EXCEPT !.pc = "commit_versions", !.version = v,
             !.sawRunning = (scans[worker[w].scan].status = "running")] \in WorkerState
      BY DEF WorkerState, WorkerPc, VersionOrNone
    <2>3. worker' \in [Workers -> WorkerState]
      BY <2>1, <2>2 DEF TypeOK
    <2> QED
      BY <1>3, <2>3 DEF FetchMetadata, TypeOK, tables
  <1>4. CASE CommitVersions(w)
    BY <1>4, VersionsWrittenType, GotoType
       DEF CommitVersions, At, Scanning, TypeOK, WorkerPc
  <1>5. CASE ScanStepFails(w)
    <2>1. worker[w].scan \in Nat
      BY DEF WorkerState
    <2>2. PICK b \in BOOLEAN : Leave(w, "fail_scan", worker[w].scan, b)
      BY <1>5 DEF ScanStepFails
    <2>3. "fail_scan" \in WorkerPc
      BY DEF WorkerPc
    <2>4. worker' \in [Workers -> WorkerState]
      BY <2>1, <2>2, <2>3, LeaveType
    <2> QED
      BY <1>5, <2>4 DEF ScanStepFails, TypeOK, tables
  <1>6. CASE SaveResult(w)
    BY <1>6, ResultSavedType, LeaveType
       DEF SaveResult, At, Scanning, TypeOK, WorkerPc
  <1>7. CASE FailScan(w)
    <2>1. scans' \in Seq(ScanRow)
      BY <1>7, HeldRowType, ScanFailed DEF FailScan, At, OnlyRow, ScanTable
    <2>2. worker[w].willRetry \in BOOLEAN /\ "fail_job" \in WorkerPc
      BY DEF WorkerState, WorkerPc
    <2>3. worker' \in [Workers -> WorkerState]
      BY <1>7, <2>2, LeaveType DEF FailScan
    <2> QED
      BY <1>7, <2>1, <2>3 DEF FailScan, TypeOK
  <1>8. CASE FailJob(w)
    <2>1. jobs' \in [Tasks -> QueueJobStatus]
      BY <1>8, JobsType DEF FailJob, TypeOK
    <2>2. worker' \in [Workers -> WorkerState]
      BY <1>8, LeaveType DEF FailJob, WorkerPc
    <2> QED
      BY <1>8, <2>1, <2>2 DEF FailJob, TypeOK
  <1>9. CASE CompleteJob(w)
    BY <1>9, JobsType, GotoType DEF CompleteJob, TypeOK, WorkerPc
  <1>10. CASE Retry(w)
    BY <1>10, PutType, GotoType DEF Retry, TypeOK, tables, WorkerPc
  <1>11. CASE Ack(w)
    BY <1>11, IdleIsWorkerState DEF Ack, TypeOK, tables
  <1> QED
    BY <1>1, <1>2, <1>3, <1>4, <1>5, <1>6, <1>7, <1>8, <1>9, <1>10, <1>11
       DEF TaskStep

LEMMA FaultStepType ==
    ASSUME LifecycleInv, NEW w \in Workers, WorkerFault(w)
    PROVE  TypeOK'
  <1>0. TypeOK /\ worker[w] \in WorkerState
    BY DEF LifecycleInv, TypeOK
  <1> USE <1>0
  <1>1. CASE Redeliver(w)
    <2>1. [worker[w] EXCEPT !.held = FALSE] \in WorkerState
      BY DEF WorkerState
    <2> QED
      BY <1>1, <2>1, PutType, FaultType DEF Redeliver, TypeOK, tables
  <1>2. CASE WorkerDies(w)
    <2>1. ready' \in [Message -> Nat]
      BY <1>2, PutType DEF WorkerDies, TypeOK
    <2> QED
      BY <1>2, <2>1, FaultType, IdleIsWorkerState DEF WorkerDies, TypeOK, tables
  <1>3. CASE RetryLost(w)
    BY <1>3, FaultType, GotoType DEF RetryLost, TypeOK, tables, WorkerPc
  <1>4. CASE MarkJobRunningError(w)
    <2>1. jobs' \in [Tasks -> QueueJobStatus]
      <3>1. jobs \in [Tasks -> QueueJobStatus]
        BY DEF TypeOK
      <3>2. JobMarkedRunning(w) \in [Tasks -> QueueJobStatus]
        BY <3>1, JobsType DEF JobMarkedRunning
      <3> QED
        BY <1>4, <3>1, <3>2 DEF MarkJobRunningError
    <2>2. worker' \in [Workers -> WorkerState]
      BY <1>4, LeaveType DEF MarkJobRunningError, WorkerPc
    <2> QED
      BY <1>4, <2>1, <2>2, FaultType DEF MarkJobRunningError, TypeOK
  <1>5. CASE ClaimScanError(w)
    <2>1. Package(w) \in Packages
      BY <1>5 DEF LifecycleInv, BusyHasTask, ClaimScanError, At, Package
    <2>2. CASE UNCHANGED scans /\ Leave(w, "fail_job", 0, FALSE)
      BY <1>5, <2>2, FaultType, LeaveType DEF ClaimScanError, TypeOK, WorkerPc
    <2>3. ASSUME NEW i \in DOMAIN scans,
                 UNCHANGED scans \/ scans' = ClaimQueuedScan(scans, i),
                 Leave(w, "fail_scan", i, FALSE)
          PROVE  TypeOK'
      <3>1. i \in Nat
        BY LenProperties DEF TypeOK
      <3>2. scans' \in Seq(ScanRow)
        BY <2>3, ScanClaimed DEF TypeOK, OnlyRow, ScanTable
      <3>3. worker' \in [Workers -> WorkerState]
        BY <2>3, <3>1, LeaveType DEF WorkerPc
      <3> QED
        BY <1>5, <3>2, <3>3, FaultType DEF ClaimScanError, TypeOK
    <2>4. ASSUME scans' = CreateScanResult(scans, Package(w), "running"),
                 Leave(w, "fail_scan", Len(scans'), FALSE)
          PROVE  TypeOK'
      <3>1. scans' \in Seq(ScanRow) /\ Len(scans') \in Nat
        <4>1. RowAdded(scans, scans', "running")
          BY <2>1, <2>4, ScanCreated DEF TypeOK, ScanTable, ScanStatus
        <4> QED
          BY <4>1 DEF RowAdded, ScanTable
      <3>2. worker' \in [Workers -> WorkerState]
        BY <2>4, <3>1, LeaveType DEF WorkerPc
      <3> QED
        BY <1>5, <3>1, <3>2, FaultType DEF ClaimScanError, TypeOK
    <2> QED
      BY <1>5, <2>2, <2>3, <2>4 DEF ClaimScanError
  <1>6. CASE CommitVersionsError(w)
    <2>1. Scanning(w)
      BY <1>6 DEF CommitVersionsError, At, Scanning
    <2>2. scans' \in Seq(ScanRow) /\ known' \in [Packages -> SUBSET Versions]
      BY <1>6, <2>1, VersionsWrittenType DEF CommitVersionsError, TypeOK
    <2>3. worker' \in [Workers -> WorkerState]
      BY <1>6, <2>1, HeldRowType, LeaveType DEF CommitVersionsError, WorkerPc
    <2> QED
      BY <1>6, <2>2, <2>3, FaultType DEF CommitVersionsError, TypeOK
  <1>7. CASE SaveResultError(w)
    <2>1. Scanning(w)
      BY <1>7 DEF SaveResultError, At, Scanning
    <2>2. scans' \in Seq(ScanRow) /\ scanned' \in [Packages -> VersionOrNone]
      BY <1>7, <2>1, ResultSavedType DEF SaveResultError, TypeOK
    <2>3. worker' \in [Workers -> WorkerState]
      BY <1>7, <2>1, HeldRowType, LeaveType DEF SaveResultError, WorkerPc
    <2> QED
      BY <1>7, <2>2, <2>3, FaultType DEF SaveResultError, TypeOK
  <1>8. CASE FailScanError(w)
    <2>1. worker[w].willRetry \in BOOLEAN /\ "fail_job" \in WorkerPc
      BY DEF WorkerState, WorkerPc
    <2>2. worker' \in [Workers -> WorkerState]
      BY <1>8, <2>1, LeaveType DEF FailScanError
    <2> QED
      BY <1>8, <2>2, FaultType DEF FailScanError, TypeOK, tables
  <1>9. CASE FailJobError(w)
    <2>1. jobs' \in [Tasks -> QueueJobStatus]
      <3>1. jobs \in [Tasks -> QueueJobStatus]
        BY DEF TypeOK
      <3>2. MarkQueueJobFailed(jobs, worker[w].task) \in [Tasks -> QueueJobStatus]
        BY <3>1, JobsType
      <3> QED
        BY <1>9, <3>1, <3>2 DEF FailJobError
    <2>2. worker' \in [Workers -> WorkerState]
      BY <1>9, LeaveType DEF FailJobError, WorkerPc
    <2> QED
      BY <1>9, <2>1, <2>2, FaultType DEF FailJobError, TypeOK
  <1>10. CASE CompleteJobError(w)
    <2>1. worker' \in [Workers -> WorkerState]
      BY <1>10, LeaveType DEF CompleteJobError, WorkerPc
    <2> QED
      BY <1>10, <2>1, FaultType DEF CompleteJobError, TypeOK, tables
  <1>11. CASE WorkspaceError(w)
    <2>1. worker' \in [Workers -> WorkerState]
      BY <1>11, LeaveType DEF WorkspaceError, WorkerPc
    <2> QED
      BY <1>11, <2>1, FaultType DEF WorkspaceError, TypeOK, tables
  <1> QED
    BY <1>1, <1>2, <1>3, <1>4, <1>5, <1>6, <1>7, <1>8, <1>9, <1>10, <1>11 DEF WorkerFault

LEMMA TypePreserved == LifecycleInv /\ [Next]_vars => TypeOK'
  <1> SUFFICES ASSUME LifecycleInv, [Next]_vars PROVE TypeOK'
    OBVIOUS
  <1>1. CASE UNCHANGED vars
    BY <1>1 DEF vars, LifecycleInv, TypeOK
  <1>2. CASE Next
    BY <1>1, <1>2, EnqueuerType, DeliverType, TaskType, FaultStepType
       DEF Next, AtRest
  <1> QED
    BY <1>1, <1>2

-----------------------------------------------------------------------------
(* A step of a worker's task leaves the other workers alone; the worker    *)
(* either is idle afterwards or goes on with the same task.                *)
OnlyMoves(w) ==
    /\ worker[w].pc # "idle"
    /\ \A v \in Workers : v # w => worker'[v] = worker[v]
    /\ \/ worker'[w] = Idle
       \/ worker'[w].task = worker[w].task /\ worker'[w].pc # "idle"

LEMMA WorkerMoves ==
    ASSUME LifecycleInv, NEW w \in Workers, TaskStep(w) \/ WorkerFault(w)
    PROVE  OnlyMoves(w)
  <1> worker \in [Workers -> WorkerState] /\ BusyHasTask
    BY DEF LifecycleInv, TypeOK
  <1>a. worker[w] \in WorkerState
    OBVIOUS
  <1>1. ASSUME NEW pc \in WorkerPc \ {"idle"}, Goto(w, pc), worker[w].pc # "idle"
        PROVE  OnlyMoves(w)
    BY <1>1, <1>a DEF Goto, WorkerState, OnlyMoves
  <1>2. ASSUME NEW pc \in WorkerPc \ {"idle"}, NEW i, NEW b, Leave(w, pc, i, b),
               worker[w].pc # "idle"
        PROVE  OnlyMoves(w)
    BY <1>2, <1>a DEF Leave, WorkerState, OnlyMoves
  <1>3. CASE MarkJobRunning(w)
    BY <1>1, <1>3 DEF MarkJobRunning, At, WorkerPc
  <1>4. CASE ClaimScan(w)
    <2>1. worker[w].pc # "idle"
      BY <1>4 DEF ClaimScan, At
    <2>2. PICK i : worker' = [worker EXCEPT ![w] = [@ EXCEPT !.pc = "fetch", !.scan = i]]
      BY <1>4 DEF ClaimScan
    <2> QED
      BY <2>1, <2>2, <1>a DEF OnlyMoves, WorkerState
  <1>5. CASE FetchMetadata(w)
    BY <1>5, <1>a DEF FetchMetadata, At, OnlyMoves, WorkerState
  <1>6. CASE CommitVersions(w)
    BY <1>1, <1>6 DEF CommitVersions, At, WorkerPc
  <1>7. CASE ScanStepFails(w)
    BY <1>2, <1>7 DEF ScanStepFails, WorkerPc
  <1>8. CASE SaveResult(w)
    BY <1>2, <1>8 DEF SaveResult, At, WorkerPc
  <1>9. CASE FailScan(w)
    BY <1>2, <1>9 DEF FailScan, At, WorkerPc
  <1>10. CASE FailJob(w)
    BY <1>2, <1>10 DEF FailJob, At, WorkerPc
  <1>11. CASE CompleteJob(w)
    BY <1>1, <1>11 DEF CompleteJob, At, WorkerPc
  <1>12. CASE Retry(w)
    BY <1>1, <1>12 DEF Retry, At, WorkerPc
  <1>13. CASE Ack(w) \/ WorkerDies(w)
    BY <1>13 DEF Ack, WorkerDies, At, OnlyMoves
  <1>14. CASE Redeliver(w)
    BY <1>14, <1>a DEF Redeliver, BusyHasTask, OnlyMoves, WorkerState
  <1>15. CASE RetryLost(w)
    BY <1>1, <1>15 DEF RetryLost, At, WorkerPc
  <1>16. CASE MarkJobRunningError(w)
    BY <1>2, <1>16 DEF MarkJobRunningError, At, WorkerPc
  <1>17. CASE ClaimScanError(w)
    BY <1>2, <1>17 DEF ClaimScanError, At, WorkerPc
  <1>18. CASE CommitVersionsError(w)
    BY <1>2, <1>18 DEF CommitVersionsError, At, WorkerPc
  <1>19. CASE SaveResultError(w)
    BY <1>2, <1>19 DEF SaveResultError, At, WorkerPc
  <1>20. CASE FailScanError(w)
    BY <1>2, <1>20 DEF FailScanError, At, WorkerPc
  <1>21. CASE FailJobError(w)
    BY <1>2, <1>21 DEF FailJobError, At, WorkerPc
  <1>22. CASE CompleteJobError(w)
    BY <1>2, <1>22 DEF CompleteJobError, At, WorkerPc
  <1>23. CASE WorkspaceError(w)
    BY <1>2, <1>23 DEF WorkspaceError, At, WorkerPc
  <1> QED
    BY <1>3, <1>4, <1>5, <1>6, <1>7, <1>8, <1>9, <1>10, <1>11, <1>12, <1>13, <1>14,
       <1>15, <1>16, <1>17, <1>18, <1>19, <1>20, <1>21, <1>22, <1>23 DEF TaskStep, WorkerFault

LEMMA BusyPreserved == LifecycleInv /\ [Next]_vars => BusyHasTask'
  <1> SUFFICES ASSUME LifecycleInv, [Next]_vars PROVE BusyHasTask'
    OBVIOUS
  <1> worker \in [Workers -> WorkerState] /\ BusyHasTask
    BY DEF LifecycleInv, TypeOK
  <1>1. CASE UNCHANGED worker
    BY <1>1 DEF BusyHasTask
  <1>2. ASSUME NEW w \in Workers, NEW m \in Message, Deliver(w, m)
        PROVE  BusyHasTask'
    BY <1>2 DEF Deliver, BusyHasTask, Message
  <1>3. ASSUME NEW w \in Workers, TaskStep(w) \/ WorkerFault(w)
        PROVE  BusyHasTask'
    BY <1>3, WorkerMoves DEF BusyHasTask, Idle, OnlyMoves
  <1> QED
    BY <1>1, <1>2, <1>3 DEF Next, vars, AtRest, EnqueuerStep, EnqueuerFault,
       RecordRequest, Publish, RecordPublishFailure, PublishFails, EnqueuerDies, SendDirect

-----------------------------------------------------------------------------
(* Ownership of rows.  RowHeld says that worker w may write row i as its   *)
(* own scan; HeldScansExist, ScannedRowIsOpen and ScanOwnedOnce are kept   *)
(* together, because a claim gives out only rows no scanning worker holds. *)
Ownership == HeldScansExist /\ ScannedRowIsOpen /\ ScanOwnedOnce

(* No row is given out, and rows that are scanned into stay open.          *)
NothingClaimed ==
    /\ DOMAIN scans \subseteq DOMAIN scans'
    /\ \A w \in Workers :
          /\ Scanning(w)' => /\ Scanning(w)
                             /\ worker'[w].scan = worker[w].scan
                             /\ scans'[worker[w].scan].status \in {"running", "failed"}
          /\ worker'[w].pc = "fail_scan" =>
                /\ Scanning(w) \/ worker[w].pc = "fail_scan"
                /\ worker'[w].scan = worker[w].scan
    /\ \A t \in Tasks :
          enqueuer'[t].pc \in {"publish", "record_failure"} =>
             /\ enqueuer[t].pc \in {"publish", "record_failure"}
             /\ enqueuer'[t].scan = enqueuer[t].scan

LEMMA OwnershipKept == LifecycleInv /\ NothingClaimed => Ownership'
  BY DEF LifecycleInv, NothingClaimed, Ownership, HeldScansExist, ScannedRowIsOpen,
         ScanOwnedOnce, Scanning

LEMMA EnqueuerOwnership ==
    ASSUME LifecycleInv, NEW t \in Tasks, EnqueuerStep(t) \/ EnqueuerFault(t)
    PROVE  Ownership'
  <1> enqueuer \in [Tasks -> [pc : EnqueuerPc, scan : Nat]] /\ scans \in ScanTable
    BY DEF LifecycleInv, TypeOK, ScanTable
  <1> PackageOf[t] \in Packages
    OBVIOUS
  <1> HeldScansExist /\ ScannedRowIsOpen /\ ScanOwnedOnce
    BY DEF LifecycleInv
  <1>1. CASE RecordRequest(t)
    <2>1. /\ Len(scans') \in Nat
          /\ Len(scans') \in DOMAIN scans'
          /\ DOMAIN scans \subseteq DOMAIN scans'
          /\ \A j \in DOMAIN scans : scans'[j] = scans[j]
      <3>1. RowAdded(scans, scans', "queued")
        BY <1>1, ScanCreated DEF RecordRequest, ScanStatus
      <3> QED
        BY <3>1 DEF RowAdded
    <2>2. /\ UNCHANGED worker
          /\ enqueuer' = [enqueuer EXCEPT ![t] = [pc |-> "publish", scan |-> Len(scans')]]
      BY <1>1 DEF RecordRequest
    <2> QED
      BY <2>1, <2>2
         DEF Ownership, HeldScansExist, ScannedRowIsOpen, ScanOwnedOnce, Scanning
  <1>2. CASE RecordPublishFailure(t)
    <2>1. enqueuer[t].scan \in DOMAIN scans
      BY <1>2 DEF RecordPublishFailure, HeldScansExist
    <2>2. OnlyRow(scans, scans', enqueuer[t].scan)
          /\ scans'[enqueuer[t].scan].status \in {scans[enqueuer[t].scan].status, "failed"}
      BY <1>2, <2>1, ScanFailed DEF RecordPublishFailure
    <2>3. \A w \in Workers :
             Scanning(w) => scans'[worker[w].scan].status \in {"running", "failed"}
      BY <2>2 DEF OnlyRow, HeldScansExist, ScannedRowIsOpen
    <2>4. UNCHANGED worker
          /\ \A u \in Tasks :
                enqueuer'[u].pc \in {"publish", "record_failure"} =>
                   /\ enqueuer[u].pc \in {"publish", "record_failure"}
                   /\ enqueuer'[u].scan = enqueuer[u].scan
      BY <1>2 DEF RecordPublishFailure, EnqueuerGoto
    <2>5. NothingClaimed
      BY <2>2, <2>3, <2>4 DEF NothingClaimed, OnlyRow, Scanning
    <2> QED
      BY <2>5, OwnershipKept
  <1>3. CASE Publish(t) \/ PublishFails(t) \/ EnqueuerDies(t) \/ SendDirect(t)
    <2>1. UNCHANGED <<scans, worker>>
      BY <1>3 DEF Publish, PublishFails, EnqueuerDies, SendDirect, tables
    <2>2. \A u \in Tasks :
             enqueuer'[u].pc \in {"publish", "record_failure"} =>
                /\ enqueuer[u].pc \in {"publish", "record_failure"}
                /\ enqueuer'[u].scan = enqueuer[u].scan
      BY <1>3 DEF Publish, PublishFails, EnqueuerDies, SendDirect, EnqueuerGoto
    <2>3. NothingClaimed
      BY <2>1, <2>2 DEF NothingClaimed, ScannedRowIsOpen, Scanning
    <2> QED
      BY <2>3, OwnershipKept
  <1> QED
    BY <1>1, <1>2, <1>3 DEF EnqueuerStep, EnqueuerFault

(* A worker's step keeps ownership when its own part of NothingClaimed     *)
(* holds and the rows other workers scan into stay open.                   *)
LEMMA WorkerOwnership ==
    ASSUME LifecycleInv, NEW w \in Workers, OnlyMoves(w), UNCHANGED enqueuer,
           DOMAIN scans \subseteq DOMAIN scans',
           \A v \in Workers :
              v # w /\ Scanning(v) =>
                 scans'[worker[v].scan].status \in {"running", "failed"},
           Scanning(w)' => /\ Scanning(w)
                           /\ worker'[w].scan = worker[w].scan
                           /\ scans'[worker[w].scan].status \in {"running", "failed"},
           worker'[w].pc = "fail_scan" =>
              /\ Scanning(w) \/ worker[w].pc = "fail_scan"
              /\ worker'[w].scan = worker[w].scan
    PROVE  Ownership'
  <1>1. NothingClaimed
    BY DEF NothingClaimed, OnlyMoves, Scanning
  <1> QED
    BY <1>1, OwnershipKept

(* The special case of a step that leaves the table alone.                 *)
LEMMA LocalOwnership ==
    ASSUME LifecycleInv, NEW w \in Workers, OnlyMoves(w), UNCHANGED <<enqueuer, scans>>,
           Scanning(w)' => Scanning(w) /\ worker'[w].scan = worker[w].scan,
           worker'[w].pc = "fail_scan" =>
              /\ Scanning(w) \/ worker[w].pc = "fail_scan"
              /\ worker'[w].scan = worker[w].scan
    PROVE  Ownership'
  <1>1. ScannedRowIsOpen
    BY DEF LifecycleInv
  <1> QED
    BY <1>1, WorkerOwnership DEF ScannedRowIsOpen

(* The special case of a step that changes only the row its worker holds,  *)
(* and either fails that row or ends or continues its own scan of it.      *)
LEMMA HeldRowOwnership ==
    ASSUME LifecycleInv, NEW w \in Workers, OnlyMoves(w), UNCHANGED enqueuer,
           Scanning(w) \/ worker[w].pc = "fail_scan",
           OnlyRow(scans, scans', worker[w].scan),
           \/ Scanning(w)
           \/ scans'[worker[w].scan].status \in {scans[worker[w].scan].status, "failed"},
           Scanning(w)' => /\ Scanning(w)
                           /\ worker'[w].scan = worker[w].scan
                           /\ scans'[worker[w].scan].status = scans[worker[w].scan].status,
           worker'[w].pc = "fail_scan" => worker'[w].scan = worker[w].scan
    PROVE  Ownership'
  <1> HeldScansExist /\ ScannedRowIsOpen /\ ScanOwnedOnce
    BY DEF LifecycleInv
  <1>1. ASSUME NEW v \in Workers, v # w, Scanning(v)
        PROVE  scans'[worker[v].scan].status \in {"running", "failed"}
    <2>1. /\ worker[v].scan \in DOMAIN scans
          /\ scans[worker[v].scan].status \in {"running", "failed"}
      BY <1>1 DEF HeldScansExist, ScannedRowIsOpen
    <2>2. CASE worker[v].scan = worker[w].scan
      BY <1>1, <2>1, <2>2 DEF ScanOwnedOnce
    <2>3. CASE worker[v].scan # worker[w].scan
      BY <2>1, <2>3 DEF OnlyRow
    <2> QED
      BY <2>2, <2>3
  <1>2. Scanning(w) => scans[worker[w].scan].status \in {"running", "failed"}
    BY DEF ScannedRowIsOpen
  <1>3. DOMAIN scans \subseteq DOMAIN scans'
    BY DEF OnlyRow
  <1> QED
    BY <1>1, <1>2, <1>3, WorkerOwnership

(* Taking row i: it was not there, or queued, so no worker scans into it.  *)
LEMMA ClaimOwnership ==
    ASSUME LifecycleInv, NEW w \in Workers, OnlyMoves(w), UNCHANGED enqueuer,
           NEW i \in DOMAIN scans',
           DOMAIN scans \subseteq DOMAIN scans',
           \A j \in DOMAIN scans : j # i => scans'[j] = scans[j],
           i \in DOMAIN scans => scans[i].status = "queued",
           scans'[i].status = "running" \/ scans' = scans,
           worker'[w].scan = i,
           \/ worker'[w].pc = "fetch" /\ scans'[i].status = "running"
           \/ worker'[w].pc = "fail_scan"
    PROVE  Ownership'
  <1> HeldScansExist /\ ScannedRowIsOpen /\ ScanOwnedOnce
    BY DEF LifecycleInv
  <1>1. ASSUME NEW v \in Workers, v # w, Scanning(v)
        PROVE  /\ worker[v].scan \in DOMAIN scans
               /\ worker[v].scan # i
               /\ scans'[worker[v].scan].status \in {"running", "failed"}
    <2>1. /\ worker[v].scan \in DOMAIN scans
          /\ scans[worker[v].scan].status \in {"running", "failed"}
      BY <1>1 DEF HeldScansExist, ScannedRowIsOpen
    <2> QED
      BY <2>1
  <1>2. \A v \in Workers : v # w => worker'[v] = worker[v]
    BY DEF OnlyMoves
  <1>3. HeldScansExist'
    BY <1>2 DEF HeldScansExist, Scanning
  <1>4. ScannedRowIsOpen'
    BY <1>1, <1>2 DEF ScannedRowIsOpen, Scanning
  <1>5. ScanOwnedOnce'
    BY <1>1, <1>2 DEF ScanOwnedOnce, Scanning
  <1> QED
    BY <1>3, <1>4, <1>5 DEF Ownership

(* The two ways a claim finds its row.                                     *)
LEMMA QueuedRowClaimable ==
    ASSUME LifecycleInv, NEW p, NEW i, IsNextQueuedScan(scans, p, i)
    PROVE  /\ i \in DOMAIN scans
           /\ scans[i].status = "queued"
           /\ OnlyRow(scans, ClaimQueuedScan(scans, i), i)
           /\ ClaimQueuedScan(scans, i)[i].status = "running"
  <1>1. i \in DOMAIN scans /\ scans[i].status = "queued"
    BY DEF IsNextQueuedScan, ScansWith
  <1>2. scans \in ScanTable
    BY DEF LifecycleInv, TypeOK, ScanTable
  <1> QED
    BY <1>1, <1>2, ScanClaimed

LEMMA NewRowClaimable ==
    ASSUME LifecycleInv, NEW p \in Packages,
           scans' = CreateScanResult(scans, p, "running")
    PROVE  /\ Len(scans') \in DOMAIN scans'
           /\ Len(scans') \notin DOMAIN scans
           /\ DOMAIN scans \subseteq DOMAIN scans'
           /\ \A j \in DOMAIN scans : scans'[j] = scans[j]
           /\ scans'[Len(scans')].status = "running"
  <1>1. scans \in ScanTable /\ "running" \in ScanStatus
    BY DEF LifecycleInv, TypeOK, ScanTable, ScanStatus
  <1>2. RowAdded(scans, scans', "running")
    BY <1>1, ScanCreated
  <1> QED
    BY <1>2 DEF RowAdded

LEMMA TaskOwnership ==
    ASSUME LifecycleInv, NEW w \in Workers, TaskStep(w)
    PROVE  Ownership'
  <1> worker \in [Workers -> WorkerState] /\ OnlyMoves(w)
    BY WorkerMoves DEF LifecycleInv, TypeOK
  <1>a. worker[w] \in WorkerState
    OBVIOUS
  <1>1. CASE ClaimScan(w)
    <2>0. Package(w) \in Packages
      BY <1>1 DEF LifecycleInv, BusyHasTask, ClaimScan, At, Package
    <2>1. ASSUME NEW i \in DOMAIN scans,
                 IsNextQueuedScan(scans, Package(w), i),
                 scans' = ClaimQueuedScan(scans, i),
                 worker' = [worker EXCEPT ![w] = [@ EXCEPT !.pc = "fetch", !.scan = i]]
          PROVE  Ownership'
      <3>1. /\ i \in DOMAIN scans'
            /\ DOMAIN scans \subseteq DOMAIN scans'
            /\ \A j \in DOMAIN scans : j # i => scans'[j] = scans[j]
            /\ scans[i].status = "queued" /\ scans'[i].status = "running"
        BY <2>1, QueuedRowClaimable DEF OnlyRow
      <3>2. worker'[w].scan = i /\ worker'[w].pc = "fetch"
        BY <2>1, <1>a DEF WorkerState
      <3> QED
        BY <1>1, <3>1, <3>2, ClaimOwnership DEF ClaimScan
    <2>2. ASSUME scans' = CreateScanResult(scans, Package(w), "running"),
                 worker' = [worker EXCEPT ![w] = [@ EXCEPT !.pc = "fetch", !.scan = Len(scans')]]
          PROVE  Ownership'
      <3>1. worker'[w].scan = Len(scans') /\ worker'[w].pc = "fetch"
        BY <2>2, <1>a DEF WorkerState
      <3> QED
        BY <1>1, <2>0, <2>2, <3>1, NewRowClaimable, ClaimOwnership DEF ClaimScan
    <2> QED
      BY <1>1, <2>1, <2>2 DEF ClaimScan
  <1>2. CASE FetchMetadata(w)
    <2>1. worker'[w].scan = worker[w].scan /\ worker'[w].pc = "commit_versions"
      BY <1>2, <1>a DEF FetchMetadata, WorkerState
    <2> QED
      BY <1>2, <2>1, LocalOwnership DEF FetchMetadata, At, Scanning, tables
  <1>3. CASE CommitVersions(w)
    <2>1. Scanning(w)
      BY <1>3 DEF CommitVersions, At, Scanning
    <2>2. worker'[w].scan = worker[w].scan /\ worker'[w].pc = "analyse"
      BY <1>3, <1>a DEF CommitVersions, Goto, WorkerState
    <2>3. OnlyRow(scans, scans', worker[w].scan)
          /\ scans'[worker[w].scan].status = scans[worker[w].scan].status
      <3>1. OnlyRow(scans, scans, worker[w].scan)
        BY <2>1, HeldRowType DEF OnlyRow
      <3> QED
        BY <1>3, <2>1, <3>1, HeldRowType, VersionsSet DEF CommitVersions, VersionsWritten
    <2> QED
      BY <1>3, <2>1, <2>2, <2>3, HeldRowOwnership DEF CommitVersions
  <1>4. CASE ScanStepFails(w)
    <2>1. worker'[w].scan = worker[w].scan /\ worker'[w].pc = "fail_scan"
      BY <1>4, <1>a DEF ScanStepFails, Leave, WorkerState
    <2> QED
      BY <1>4, <2>1, LocalOwnership DEF ScanStepFails, Scanning, tables
  <1>5. CASE SaveResult(w)
    <2>1. Scanning(w)
      BY <1>5 DEF SaveResult, At, Scanning
    <2>2. worker'[w].pc = "complete_job"
      BY <1>5, <1>a DEF SaveResult, Leave, WorkerState
    <2>3. OnlyRow(scans, scans', worker[w].scan)
      BY <1>5, <2>1, HeldRowType, ScanSaved DEF SaveResult, ResultSaved
    <2> QED
      BY <1>5, <2>1, <2>2, <2>3, HeldRowOwnership DEF SaveResult, Scanning
  <1>6. CASE FailScan(w)
    <2>1. worker[w].pc = "fail_scan"
      BY <1>6 DEF FailScan, At
    <2>2. worker'[w].pc = "fail_job"
      BY <1>6, <1>a DEF FailScan, Leave, WorkerState
    <2>3. OnlyRow(scans, scans', worker[w].scan)
          /\ scans'[worker[w].scan].status \in {scans[worker[w].scan].status, "failed"}
      BY <1>6, <2>1, HeldRowType, ScanFailed DEF FailScan
    <2> QED
      BY <1>6, <2>1, <2>2, <2>3, HeldRowOwnership DEF FailScan, Scanning
  <1>7. CASE MarkJobRunning(w) \/ FailJob(w) \/ CompleteJob(w) \/ Retry(w) \/ Ack(w)
    <2>1. worker'[w].pc \in {"claim", "retry", "ack", "idle"}
      <3>1. CASE FailJob(w)
        BY <3>1, <1>a DEF FailJob, Leave, WorkerState
      <3>2. CASE Ack(w)
        BY <3>2 DEF Ack, Idle
      <3>3. CASE MarkJobRunning(w) \/ CompleteJob(w) \/ Retry(w)
        BY <3>3, <1>a DEF MarkJobRunning, CompleteJob, Retry, Goto, WorkerState
      <3> QED
        BY <1>7, <3>1, <3>2, <3>3
    <2>2. UNCHANGED <<enqueuer, scans>>
      BY <1>7 DEF MarkJobRunning, FailJob, CompleteJob, Retry, Ack, tables
    <2> QED
      BY <2>1, <2>2, LocalOwnership DEF Scanning
  <1> QED
    BY <1>1, <1>2, <1>3, <1>4, <1>5, <1>6, <1>7 DEF TaskStep

LEMMA FaultOwnership ==
    ASSUME LifecycleInv, NEW w \in Workers, WorkerFault(w)
    PROVE  Ownership'
  <1> worker \in [Workers -> WorkerState] /\ OnlyMoves(w)
    BY WorkerMoves DEF LifecycleInv, TypeOK
  <1>a. worker[w] \in WorkerState
    OBVIOUS
  <1>1. CASE ClaimScanError(w)
    <2>0. Package(w) \in Packages
      BY <1>1 DEF LifecycleInv, BusyHasTask, ClaimScanError, At, Package
    <2>1. CASE UNCHANGED scans /\ Leave(w, "fail_job", 0, FALSE)
      <3>1. worker'[w].pc = "fail_job"
        BY <2>1, <1>a DEF Leave, WorkerState
      <3> QED
        BY <1>1, <2>1, <3>1, LocalOwnership DEF ClaimScanError, Scanning
    <2>2. ASSUME NEW i \in DOMAIN scans,
                 IsNextQueuedScan(scans, Package(w), i),
                 UNCHANGED scans \/ scans' = ClaimQueuedScan(scans, i),
                 Leave(w, "fail_scan", i, FALSE)
          PROVE  Ownership'
      <3>1. scans[i].status = "queued"
        BY <2>2, QueuedRowClaimable
      <3>2. /\ i \in DOMAIN scans'
            /\ DOMAIN scans \subseteq DOMAIN scans'
            /\ \A j \in DOMAIN scans : j # i => scans'[j] = scans[j]
            /\ scans'[i].status = "running" \/ scans' = scans
        BY <2>2, QueuedRowClaimable DEF OnlyRow
      <3>3. worker'[w].scan = i /\ worker'[w].pc = "fail_scan"
        BY <2>2, <1>a DEF Leave, WorkerState
      <3> QED
        BY <1>1, <3>1, <3>2, <3>3, ClaimOwnership DEF ClaimScanError
    <2>3. ASSUME scans' = CreateScanResult(scans, Package(w), "running"),
                 Leave(w, "fail_scan", Len(scans'), FALSE)
          PROVE  Ownership'
      <3>1. worker'[w].scan = Len(scans') /\ worker'[w].pc = "fail_scan"
        BY <2>3, <1>a DEF Leave, WorkerState
      <3> QED
        BY <1>1, <2>0, <2>3, <3>1, NewRowClaimable, ClaimOwnership DEF ClaimScanError
    <2> QED
      BY <1>1, <2>1, <2>2, <2>3 DEF ClaimScanError
  <1>2. CASE CommitVersionsError(w)
    <2>1. Scanning(w)
      BY <1>2 DEF CommitVersionsError, At, Scanning
    <2>2. worker'[w].scan = worker[w].scan /\ worker'[w].pc = "fail_scan"
      BY <1>2, <1>a DEF CommitVersionsError, Leave, WorkerState
    <2>3. OnlyRow(scans, scans', worker[w].scan)
      <3>1. OnlyRow(scans, scans, worker[w].scan)
        BY <2>1, HeldRowType DEF OnlyRow
      <3> QED
        BY <1>2, <2>1, <3>1, HeldRowType, VersionsSet
           DEF CommitVersionsError, VersionsWritten
    <2> QED
      BY <1>2, <2>1, <2>2, <2>3, HeldRowOwnership DEF CommitVersionsError, Scanning
  <1>3. CASE SaveResultError(w)
    <2>1. Scanning(w)
      BY <1>3 DEF SaveResultError, At, Scanning
    <2>2. worker'[w].scan = worker[w].scan /\ worker'[w].pc = "fail_scan"
      BY <1>3, <1>a DEF SaveResultError, Leave, WorkerState
    <2>3. OnlyRow(scans, scans', worker[w].scan)
      <3>1. OnlyRow(scans, scans, worker[w].scan)
        BY <2>1, HeldRowType DEF OnlyRow
      <3> QED
        BY <1>3, <2>1, <3>1, HeldRowType, ScanSaved DEF SaveResultError, ResultSaved
    <2> QED
      BY <1>3, <2>1, <2>2, <2>3, HeldRowOwnership DEF SaveResultError, Scanning
  <1>4. CASE Redeliver(w)
    <2>1. worker'[w].scan = worker[w].scan /\ worker'[w].pc = worker[w].pc
      BY <1>4, <1>a DEF Redeliver, WorkerState
    <2> QED
      BY <1>4, <2>1, LocalOwnership DEF Redeliver, Scanning, tables
  <1>5. CASE \/ WorkerDies(w) \/ RetryLost(w) \/ MarkJobRunningError(w)
             \/ FailScanError(w) \/ FailJobError(w) \/ CompleteJobError(w)
             \/ WorkspaceError(w)
    <2>1. worker'[w].pc \in {"ack", "idle", "fail_job"}
      <3>1. CASE WorkerDies(w)
        BY <3>1 DEF WorkerDies, Idle
      <3>2. CASE RetryLost(w)
        BY <3>2, <1>a DEF RetryLost, Goto, WorkerState
      <3>3. CASE MarkJobRunningError(w)
        BY <3>3, <1>a DEF MarkJobRunningError, Leave, WorkerState
      <3>4. CASE FailScanError(w)
        BY <3>4, <1>a DEF FailScanError, Leave, WorkerState
      <3>5. CASE FailJobError(w) \/ CompleteJobError(w)
        <4>1. Leave(w, "ack", 0, FALSE)
          BY <3>5 DEF FailJobError, CompleteJobError
        <4> QED
          BY <4>1, <1>a DEF Leave, WorkerState
      <3>6. CASE WorkspaceError(w)
        BY <3>6, <1>a DEF WorkspaceError, Leave, WorkerState
      <3> QED
        BY <1>5, <3>1, <3>2, <3>3, <3>4, <3>5, <3>6
    <2>2. UNCHANGED <<enqueuer, scans>>
      BY <1>5 DEF WorkerDies, RetryLost, MarkJobRunningError, FailScanError,
         FailJobError, CompleteJobError, WorkspaceError, tables
    <2> QED
      BY <2>1, <2>2, LocalOwnership DEF Scanning
  <1> QED
    BY <1>1, <1>2, <1>3, <1>4, <1>5 DEF WorkerFault

LEMMA DeliverOwnership ==
    ASSUME LifecycleInv, NEW w \in Workers, NEW m \in Message, Deliver(w, m)
    PROVE  Ownership'
  <1> worker \in [Workers -> WorkerState] /\ ScannedRowIsOpen
    BY DEF LifecycleInv, TypeOK
  <1>1. /\ UNCHANGED <<scans, enqueuer>>
        /\ worker'[w].pc = "mark_running"
        /\ \A v \in Workers : v # w => worker'[v] = worker[v]
    BY DEF Deliver, Idle, tables
  <1>2. NothingClaimed
    BY <1>1 DEF NothingClaimed, ScannedRowIsOpen, Scanning
  <1> QED
    BY <1>2, OwnershipKept

LEMMA OwnershipPreserved == LifecycleInv /\ [Next]_vars => Ownership'
  <1> SUFFICES ASSUME LifecycleInv, [Next]_vars PROVE Ownership'
    OBVIOUS
  <1>1. CASE UNCHANGED vars
    BY <1>1 DEF vars, LifecycleInv, Ownership, HeldScansExist, ScannedRowIsOpen,
       ScanOwnedOnce, Scanning
  <1> QED
    BY <1>1, EnqueuerOwnership, DeliverOwnership, TaskOwnership, FaultOwnership
       DEF Next, AtRest

-----------------------------------------------------------------------------
LEMMA InvInit == Init => LifecycleInv
  <1> SUFFICES ASSUME Init PROVE LifecycleInv
    OBVIOUS
  <1>1. TypeOK
    BY TypeInit
  <1>2. \A w \in Workers : worker[w] = Idle
    BY DEF Init
  <1>3. \A t \in Tasks : enqueuer[t].pc = "idle"
    BY DEF Init
  <1> QED
    BY <1>1, <1>2, <1>3 DEF LifecycleInv, BusyHasTask, HeldScansExist, ScannedRowIsOpen,
       ScanOwnedOnce, Scanning, Idle

(* LifecycleInv is inductive: everything ScanOwnedOnce and                 *)
(* CompletedScanIsFinal rest on holds in every reachable state, whatever   *)
(* faults happen.                                                          *)
THEOREM LifecycleInvariant == Spec => []LifecycleInv
  <1>1. LifecycleInv /\ [Next]_vars => LifecycleInv'
    BY TypePreserved, BusyPreserved, OwnershipPreserved DEF LifecycleInv, Ownership
  <1> QED
    BY <1>1, InvInit, PTL DEF Spec

(* Every variable keeps its type, in particular every row id that a        *)
(* process uses names a row and no table leaves its domain.                *)
THEOREM TypeCorrect == Spec => []TypeOK
  <1>1. LifecycleInv => TypeOK
    BY DEF LifecycleInv
  <1> QED
    BY <1>1, LifecycleInvariant, PTL

(* claim_next_queued_scan gives each scan_results row to one delivery      *)
(* only, for any number of workers, tasks, retries and faults.             *)
THEOREM ScanOwnership == Spec => []ScanOwnedOnce
  <1>1. LifecycleInv => ScanOwnedOnce
    BY DEF LifecycleInv
  <1> QED
    BY <1>1, LifecycleInvariant, PTL

-----------------------------------------------------------------------------
(* Completed rows.                                                         *)
(* A step that changes one row, one that is not completed, keeps them.     *)
LEMMA OpenRowChanged ==
    ASSUME NEW i, OnlyRow(scans, scans', i),
           scans[i].status # "completed" \/ scans'[i] = scans[i]
    PROVE  CompletedRowsKept
  BY DEF OnlyRow, CompletedRowsKept

(* mark_scan_failed has no effect on a completed row, and the versions and *)
(* the result are written only to the row the worker holds, which is open. *)
LEMMA FailureKeepsCompleted ==
    ASSUME LifecycleInv, NEW i \in DOMAIN scans, scans' = MarkScanFailed(scans, i)
    PROVE  CompletedRowsKept
  <1>1. scans \in ScanTable
    BY DEF LifecycleInv, TypeOK, ScanTable
  <1>2. /\ OnlyRow(scans, MarkScanFailed(scans, i), i)
        /\ scans[i].status = "completed" => MarkScanFailed(scans, i)[i] = scans[i]
    BY <1>1, ScanFailed
  <1> QED
    BY <1>2, OpenRowChanged

LEMMA NewRowKeepsCompleted ==
    ASSUME LifecycleInv, NEW p, NEW status, scans' = CreateScanResult(scans, p, status)
    PROVE  CompletedRowsKept
  <1>1. scans \in ScanTable
    BY DEF LifecycleInv, TypeOK, ScanTable
  <1>2. \A j \in DOMAIN scans : j \in DOMAIN scans' /\ scans'[j] = scans[j]
    BY <1>1, RowsKeptByCreate
  <1> QED
    BY <1>2 DEF CompletedRowsKept

LEMMA ClaimKeepsCompleted ==
    ASSUME LifecycleInv, NEW p, NEW i, IsNextQueuedScan(scans, p, i),
           scans' = ClaimQueuedScan(scans, i)
    PROVE  CompletedRowsKept
  BY QueuedRowClaimable, OpenRowChanged

LEMMA WritesKeepCompleted ==
    ASSUME LifecycleInv, NEW w \in Workers, Scanning(w),
           VersionsWritten(w) \/ ResultSaved(w)
    PROVE  CompletedRowsKept
  <1> scans[worker[w].scan].status # "completed"
    BY DEF LifecycleInv, ScannedRowIsOpen
  <1>1. OnlyRow(scans, scans', worker[w].scan)
    <2>1. OnlyRow(scans, scans, worker[w].scan)
      BY HeldRowType DEF OnlyRow
    <2>2. CASE VersionsWritten(w)
      BY <2>1, <2>2, HeldRowType, VersionsSet DEF VersionsWritten
    <2>3. CASE ResultSaved(w)
      BY <2>3, HeldRowType, ScanSaved DEF ResultSaved
    <2> QED
      BY <2>2, <2>3
  <1> QED
    BY <1>1, OpenRowChanged

LEMMA CompletedPreserved ==
    ASSUME LifecycleInv, [Next]_vars
    PROVE  CompletedRowsKept
  <1>1. CASE UNCHANGED scans
    BY <1>1 DEF CompletedRowsKept
  <1>2. ASSUME NEW t \in Tasks, EnqueuerStep(t) \/ EnqueuerFault(t)
        PROVE  CompletedRowsKept
    <2>1. CASE RecordRequest(t)
      BY <2>1, NewRowKeepsCompleted DEF RecordRequest, ScanStatus
    <2>2. CASE RecordPublishFailure(t)
      <3>1. enqueuer[t].scan \in DOMAIN scans
        BY <2>2 DEF RecordPublishFailure, LifecycleInv, HeldScansExist
      <3> QED
        BY <2>2, <3>1, FailureKeepsCompleted DEF RecordPublishFailure
    <2>3. CASE Publish(t) \/ PublishFails(t) \/ EnqueuerDies(t) \/ SendDirect(t)
      BY <1>1, <2>3 DEF Publish, PublishFails, EnqueuerDies, SendDirect, tables
    <2> QED
      BY <1>2, <2>1, <2>2, <2>3 DEF EnqueuerStep, EnqueuerFault
  <1>3. ASSUME NEW w \in Workers, TaskStep(w) \/ WorkerFault(w)
        PROVE  CompletedRowsKept
    <2>1. CASE ClaimScan(w) \/ ClaimScanError(w)
      <3>1. Package(w) \in Packages
        BY <2>1 DEF LifecycleInv, BusyHasTask, ClaimScan, ClaimScanError, At, Package
      <3> QED
        BY <1>1, <2>1, <3>1, ClaimKeepsCompleted, NewRowKeepsCompleted
           DEF ClaimScan, ClaimScanError, ScanStatus
    <2>2. CASE CommitVersions(w) \/ SaveResult(w)
      BY <2>2, WritesKeepCompleted DEF CommitVersions, SaveResult, At, Scanning
    <2>3. CASE CommitVersionsError(w) \/ SaveResultError(w)
      BY <1>1, <2>3, WritesKeepCompleted
         DEF CommitVersionsError, SaveResultError, At, Scanning
    <2>4. CASE FailScan(w)
      <3>1. worker[w].scan \in DOMAIN scans
        BY <2>4 DEF FailScan, At, LifecycleInv, HeldScansExist
      <3> QED
        BY <2>4, <3>1, FailureKeepsCompleted DEF FailScan
    <2>5. CASE \/ MarkJobRunning(w) \/ FetchMetadata(w) \/ ScanStepFails(w)
               \/ FailJob(w) \/ CompleteJob(w) \/ Retry(w) \/ Ack(w)
      BY <1>1, <2>5 DEF MarkJobRunning, FetchMetadata, ScanStepFails, FailJob,
         CompleteJob, Retry, Ack, tables
    <2>6. CASE \/ Redeliver(w) \/ WorkerDies(w) \/ RetryLost(w) \/ MarkJobRunningError(w)
               \/ FailScanError(w) \/ FailJobError(w) \/ CompleteJobError(w)
               \/ WorkspaceError(w)
      BY <1>1, <2>6 DEF Redeliver, WorkerDies, RetryLost, MarkJobRunningError,
         FailScanError, FailJobError, CompleteJobError, WorkspaceError, tables
    <2> QED
      BY <1>3, <2>1, <2>2, <2>3, <2>4, <2>5, <2>6 DEF TaskStep, WorkerFault
  <1>4. ASSUME NEW w \in Workers, NEW m \in Message, Deliver(w, m)
        PROVE  CompletedRowsKept
    BY <1>1, <1>4 DEF Deliver, tables
  <1> QED
    BY <1>1, <1>2, <1>3, <1>4 DEF Next, AtRest, vars

(* A completed attempt and its findings never change again: neither a late *)
(* failure, nor a duplicate delivery, nor an error reported by a commit    *)
(* that did happen, can touch them.                                        *)
THEOREM CompletedFinal == Spec => CompletedScanIsFinal
  <1>1. LifecycleInv /\ [Next]_vars => CompletedRowsKept
    BY CompletedPreserved
  <1> QED
    BY <1>1, LifecycleInvariant, PTL DEF Spec, CompletedScanIsFinal
=============================================================================
