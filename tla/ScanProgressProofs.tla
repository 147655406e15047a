------------------------- MODULE ScanProgressProofs -------------------------
(***************************************************************************)
(* Nothing that waits is forgotten: every running row has a worker that    *)
(* will end it, every live job a delivery that will settle it, and the     *)
(* queued rows of a package as many claims to come.  Each is claimed       *)
(* without the faults that break it; these are named by the theorems.      *)
(***************************************************************************)
EXTENDS ScanTablesProofs

USE LifecycleAssumption, MaxVersionAssumption

(* The steps there are when no transaction of a worker reports an error.   *)
LEMMA StepsWithoutErrors ==
    ASSUME "database" \notin Faults, [Next]_vars
    PROVE  \/ \E t \in Tasks : EnqueuerStep(t) \/ EnqueuerFault(t)
           \/ \E w \in Workers, m \in Message : Deliver(w, m)
           \/ \E w \in Workers :
                 \/ TaskStep(w) \/ Redeliver(w) \/ WorkerDies(w) \/ RetryLost(w)
                 \/ WorkspaceError(w)
           \/ UNCHANGED vars
<1>1. ASSUME NEW w \in Workers, WorkerFault(w)
      PROVE  Redeliver(w) \/ WorkerDies(w) \/ RetryLost(w) \/ WorkspaceError(w)
  <2>1. /\ ~MarkJobRunningError(w) /\ ~ClaimScanError(w)
        /\ ~CommitVersionsError(w) /\ ~SaveResultError(w) /\ ~FailScanError(w)
        /\ ~FailJobError(w) /\ ~CompleteJobError(w)
    BY DEF Fault, MarkJobRunningError, ClaimScanError, CommitVersionsError,
           SaveResultError, FailScanError, FailJobError, CompleteJobError
  <2> QED  BY <1>1, <2>1 DEF WorkerFault
<1>2. CASE Next
  BY <1>1, <1>2 DEF Next, AtRest
<1> QED  BY <1>2

LEMMA OthersOfTask ==
    ASSUME LifecycleInv, NEW w \in Workers, TaskStep(w) \/ WorkerFault(w)
    PROVE  OthersStay(w)
  BY WorkerMoves DEF OnlyMoves, OthersStay

-----------------------------------------------------------------------------
(* Running rows *)

(* A row stays held when only the worker that holds it can let it go, and  *)
(* what that worker lets go no longer runs.                                *)
LEMMA HoldersKept ==
    ASSUME RunningScanHasWorker, NEW w \in Workers, OthersStay(w),
           \A j \in DOMAIN scans' :
              scans'[j].status = "running" =>
                 \/ Holding(w)' /\ worker'[w].scan = j
                 \/ /\ j \in DOMAIN scans /\ scans[j].status = "running"
                    /\ ~(Holding(w) /\ worker[w].scan = j)
    PROVE  RunningScanHasWorker'
<1> SUFFICES ASSUME NEW j \in DOMAIN scans', scans'[j].status = "running"
             PROVE  \E v \in Workers : worker'[v].scan = j /\ Holding(v)'
  BY DEF RunningScanHasWorker, Holding, Scanning, At
<1>1. CASE /\ j \in DOMAIN scans /\ scans[j].status = "running"
           /\ ~(Holding(w) /\ worker[w].scan = j)
  <2>1. PICK v \in Workers : worker[v].scan = j /\ Holding(v)
    BY <1>1 DEF RunningScanHasWorker, Holding, At
  <2>2. v # w /\ worker'[v] = worker[v]
    BY <1>1, <2>1 DEF OthersStay
  <2> QED  BY <2>1, <2>2 DEF Holding, Scanning, At
<1> QED  BY <1>1

(* Rows that no step of an enqueuer makes running.                         *)
LEMMA EnqueuerRuns ==
    ASSUME LifecycleInv, RunningScanHasWorker, NEW t \in Tasks,
           EnqueuerStep(t) \/ EnqueuerFault(t)
    PROVE  RunningScanHasWorker'
<1>1. scans \in ScanTable /\ PackageOf[t] \in Packages
  BY DEF LifecycleInv, TypeOK, ScanTable
<1>2. UNCHANGED worker
  BY DEF EnqueuerStep, EnqueuerFault, RecordRequest, Publish, RecordPublishFailure,
         PublishFails, EnqueuerDies, SendDirect
<1>3. \A j \in DOMAIN scans' :
         scans'[j].status = "running" => j \in DOMAIN scans /\ scans[j].status = "running"
  <2>1. CASE RecordRequest(t)
    <3>1. RowAdded(scans, scans', "queued")
      BY <1>1, <2>1, ScanCreated DEF RecordRequest, ScanStatus
    <3> QED  BY <3>1 DEF RowAdded
  <2>2. CASE RecordPublishFailure(t)
    <3> DEFINE i == enqueuer[t].scan
    <3>1. i \in DOMAIN scans
      BY <2>2 DEF RecordPublishFailure, LifecycleInv, HeldScansExist
    <3>2. /\ OnlyRow(scans, scans', i)
          /\ scans[i].status = "running" => scans'[i].status = "failed"
          /\ scans[i].status # "running" => scans'[i] = scans[i]
      BY <1>1, <2>2, <3>1, ScanFailed DEF RecordPublishFailure
    <3> QED  BY <3>2 DEF OnlyRow
  <2>3. CASE UNCHANGED scans
    BY <2>3
  <2> QED
    BY <2>1, <2>2, <2>3
    DEF EnqueuerStep, EnqueuerFault, Publish, PublishFails, EnqueuerDies, SendDirect, tables
<1> QED
  BY <1>2, <1>3 DEF RunningScanHasWorker, Scanning

LEMMA TaskRuns ==
    ASSUME LifecycleInv, RunningScanHasWorker, NEW w \in Workers, TaskStep(w)
    PROVE  RunningScanHasWorker'
<1> DEFINE i == worker[w].scan
<1>1. /\ scans \in ScanTable /\ TypeOK /\ worker[w] \in WorkerState
      /\ worker \in [Workers -> WorkerState] /\ OthersStay(w)
  BY OthersOfTask DEF LifecycleInv, TypeOK, ScanTable
<1>2. Holding(w) => i \in DOMAIN scans
  BY DEF LifecycleInv, HeldScansExist, Holding, At
<1>3. CASE ClaimScan(w)
  <2>1. At(w, "claim") /\ ~Holding(w)
    BY <1>3 DEF ClaimScan, At, Holding, Scanning
  <2>2. ASSUME NEW k, Claimed(w, k)
        PROVE  Holding(w)' /\ worker'[w].scan = k
    BY <2>2 DEF Claimed, Holding, Scanning
  <2>3. ASSUME NEW k \in DOMAIN scans, ClaimedQueued(w, k)
        PROVE  RunningScanHasWorker'
    <3>1. OnlyRow(scans, scans', k) /\ Claimed(w, k)
      BY <2>3, QueuedRowClaimable DEF ClaimedQueued
    <3> QED  BY <1>1, <2>1, <2>2, <3>1, HoldersKept DEF OnlyRow
  <2>4. CASE ClaimedNew(w)
    <3>1. Package(w) \in Packages /\ "running" \in ScanStatus
      BY <2>1 DEF LifecycleInv, BusyHasTask, At, Package, ScanStatus
    <3>2. RowAdded(scans, scans', "running") /\ Claimed(w, Len(scans'))
      BY <1>1, <2>4, <3>1, ScanCreated DEF ClaimedNew
    <3> QED  BY <1>1, <2>1, <2>2, <3>2, HoldersKept DEF RowAdded
  <2> QED  BY <1>1, <1>3, <2>3, <2>4, ClaimMoves
<1>4. ASSUME Holding(w), OnlyRow(scans, scans', i),
             \/ Holding(w)' /\ worker'[w].scan = i
             \/ scans'[i].status # "running"
      PROVE  RunningScanHasWorker'
  <2>1. ASSUME NEW j \in DOMAIN scans', scans'[j].status = "running"
        PROVE  \/ Holding(w)' /\ worker'[w].scan = j
               \/ /\ j \in DOMAIN scans /\ scans[j].status = "running"
                  /\ ~(Holding(w) /\ worker[w].scan = j)
    <3>1. CASE j = i
      BY <1>4, <2>1, <3>1
    <3>2. CASE j # i
      BY <1>4, <2>1, <3>2 DEF OnlyRow
    <3> QED  BY <3>1, <3>2
  <2> QED  BY <1>1, <2>1, HoldersKept
<1>5. CASE FetchMetadata(w)
  <2>1. Holding(w) /\ OnlyRow(scans, scans', i)
    BY <1>1, <1>5 DEF FetchMetadata, At, Holding, Scanning, tables, OnlyRow
  <2>2. worker'[w].pc = "commit_versions" /\ worker'[w].scan = i
    BY <1>1, <1>5 DEF FetchMetadata, WorkerState
  <2> QED  BY <1>4, <2>1, <2>2 DEF Holding, Scanning
<1>6. CASE CommitVersions(w)
  <2>1. Holding(w) /\ Goto(w, "analyse")
    BY <1>6 DEF CommitVersions, At, Holding, Scanning
  <2>2. OnlyRow(scans, scans', i)
    BY <1>1, <1>2, <1>6, <2>1, VersionsSet
    DEF CommitVersions, VersionsWritten, WorkerState, OnlyRow
  <2>3. worker'[w].pc = "analyse" /\ worker'[w].scan = i
    BY <1>1, <2>1, GotoMoves
  <2> QED  BY <1>4, <2>1, <2>2, <2>3 DEF Holding, Scanning
<1>7. CASE ScanStepFails(w)
  <2>1. Holding(w) /\ OnlyRow(scans, scans', i)
    BY <1>1, <1>7 DEF ScanStepFails, Holding, Scanning, tables, OnlyRow
  <2>2. \E b : Leave(w, "fail_scan", i, b)
    BY <1>7 DEF ScanStepFails
  <2>3. worker'[w].pc = "fail_scan" /\ worker'[w].scan = i
    BY <1>1, <2>2, LeaveMoves
  <2> QED  BY <1>4, <2>1, <2>3 DEF Holding, At
<1>8. CASE SaveResult(w)
  <2>1. Holding(w)
    BY <1>8 DEF SaveResult, At, Holding, Scanning
  <2>2. OnlyRow(scans, scans', i) /\ scans'[i].status # "running"
    BY <1>1, <1>2, <1>8, <2>1, ScanSaved, SavedNotRunning
    DEF SaveResult, ResultSaved, WorkerState
  <2> QED  BY <1>4, <2>1, <2>2
<1>9. CASE FailScan(w)
  <2>1. Holding(w)
    BY <1>9 DEF FailScan, At, Holding
  <2>2. OnlyRow(scans, scans', i) /\ scans'[i].status # "running"
    BY <1>1, <1>2, <1>9, <2>1, ScanFailed DEF FailScan
  <2> QED  BY <1>4, <2>1, <2>2
<1>10. CASE MarkJobRunning(w) \/ FailJob(w) \/ CompleteJob(w) \/ Retry(w) \/ Ack(w)
  <2>1. ~Holding(w) /\ UNCHANGED scans
    BY <1>10 DEF MarkJobRunning, FailJob, CompleteJob, Retry, Ack, At, Holding, Scanning,
                 tables
  <2> QED  BY <1>1, <2>1, HoldersKept
<1> QED
  BY <1>3, <1>5, <1>6, <1>7, <1>8, <1>9, <1>10 DEF TaskStep

LEMMA RunningKept ==
    "worker" \notin Faults /\ "database" \notin Faults
    /\ LifecycleInv /\ RunningScanHasWorker /\ [Next]_vars => RunningScanHasWorker'
<1> SUFFICES ASSUME "worker" \notin Faults, "database" \notin Faults,
                    LifecycleInv, RunningScanHasWorker, [Next]_vars
             PROVE  RunningScanHasWorker'
  OBVIOUS
<1>1. ASSUME NEW w \in Workers, NEW m \in Message, Deliver(w, m)
      PROVE  RunningScanHasWorker'
  <2>1. ~Holding(w) /\ UNCHANGED scans /\ OthersStay(w)
    BY <1>1 DEF Deliver, At, Holding, Scanning, tables, OthersStay, LifecycleInv, TypeOK
  <2> QED  BY <2>1, HoldersKept
<1>2. ASSUME NEW w \in Workers, RetryLost(w)
      PROVE  RunningScanHasWorker'
  <2>1. ~Holding(w) /\ UNCHANGED scans /\ OthersStay(w)
    BY <1>2, OthersOfTask DEF RetryLost, WorkerFault, At, Holding, Scanning, tables
  <2> QED  BY <2>1, HoldersKept
<1>3. ASSUME NEW w \in Workers, Redeliver(w)
      PROVE  RunningScanHasWorker'
  <2>1. worker[w] \in WorkerState /\ worker \in [Workers -> WorkerState]
    BY DEF LifecycleInv, TypeOK
  <2>2. /\ worker'[w].pc = worker[w].pc /\ worker'[w].scan = worker[w].scan
        /\ UNCHANGED scans /\ OthersStay(w)
    BY <1>3, <2>1 DEF Redeliver, WorkerState, tables, OthersStay
  <2>3. (Holding(w)' <=> Holding(w)) /\ worker'[w].scan = worker[w].scan
    BY <2>2 DEF Holding, Scanning, At
  <2> QED  BY <2>2, <2>3, HoldersKept
<1>4. CASE UNCHANGED vars
  BY <1>4 DEF vars, RunningScanHasWorker, Scanning
<1>5. \A w \in Workers : ~WorkerDies(w)
  BY DEF WorkerDies, Fault
<1>6. ASSUME NEW w \in Workers, WorkspaceError(w)
      PROVE  RunningScanHasWorker'
  <2>1. ~Holding(w) /\ UNCHANGED scans /\ OthersStay(w)
    BY <1>6, OthersOfTask DEF WorkspaceError, WorkerFault, At, Holding, Scanning, tables
  <2> QED  BY <2>1, HoldersKept
<1> QED
  BY <1>1, <1>2, <1>3, <1>4, <1>5, <1>6, EnqueuerRuns, TaskRuns, StepsWithoutErrors

(* A running row is one that a worker will complete or fail, for as long   *)
(* as workers live and their transactions report no error: publish         *)
(* failures, redeliveries and dying enqueuers leave none behind.           *)
THEOREM RunningScansHaveWorkers ==
    ASSUME "worker" \notin Faults, "database" \notin Faults
    PROVE  Spec => []RunningScanHasWorker
<1>1. Init => RunningScanHasWorker
  BY DEF Init, RunningScanHasWorker
<1> QED  BY <1>1, RunningKept, LifecycleInvariant, PTL DEF Spec

-----------------------------------------------------------------------------
(* Messages *)

(* One more copy of a message is ready ...                                 *)
LEMMA PutAdds ==
    ASSUME TypeOK, NEW m, Put(m)
    PROVE  /\ \A k \in Message : k # m => ready'[k] = ready[k]
           /\ m \in Message => ready'[m] = ready[m] + 1
           /\ \A k \in Message : ready[k] > 0 => ready'[k] > 0
<1>1. ready \in [Message -> Nat]
  BY DEF TypeOK
<1> QED  BY <1>1 DEF Put

(* ... of these, which are messages.                                       *)
LEMMA MessagesPut ==
    ASSUME LifecycleInv
    PROVE  /\ \A t \in Tasks : FirstTry(t) \in Message
           /\ \A w \in Workers : ~At(w, "idle") => Delivery(w) \in Message
<1>1. ASSUME NEW w \in Workers, ~At(w, "idle")
      PROVE  Delivery(w) \in Message
  <2>1. worker[w].task \in Tasks /\ worker[w].retries \in 0 .. MaxRetries
    BY <1>1 DEF LifecycleInv, TypeOK, BusyHasTask, WorkerState, At
  <2> QED  BY <2>1 DEF Delivery, Message
<1> QED  BY <1>1 DEF FirstTry, Message

-----------------------------------------------------------------------------
(* Live jobs *)

Live(t) == jobs[t] \in {"queued", "running"}

(* An idle worker has forgotten its task, so it is no pending delivery.    *)
IdleForgets == \A w \in Workers : At(w, "idle") => worker[w].task = NoTask

LEMMA IdleForgetsKept == LifecycleInv /\ IdleForgets /\ [Next]_vars => IdleForgets'
<1> SUFFICES ASSUME LifecycleInv, IdleForgets, [Next]_vars
             PROVE  IdleForgets'
  OBVIOUS
<1>1. CASE UNCHANGED worker
  BY <1>1 DEF IdleForgets, At
<1>2. ASSUME NEW w \in Workers, NEW m \in Message, Deliver(w, m)
      PROVE  IdleForgets'
  <2>1. worker \in [Workers -> WorkerState]
    BY DEF LifecycleInv, TypeOK
  <2>2. worker'[w].pc = "mark_running" /\ OthersStay(w)
    BY <1>2, <2>1 DEF Deliver, Idle, OthersStay
  <2> QED  BY <2>2 DEF IdleForgets, At, OthersStay
<1>3. ASSUME NEW w \in Workers, TaskStep(w) \/ WorkerFault(w)
      PROVE  IdleForgets'
  BY <1>3, WorkerMoves DEF IdleForgets, OnlyMoves, Idle, At
<1> QED
  BY <1>1, <1>2, <1>3 DEF Next, vars, AtRest, EnqueuerStep, EnqueuerFault,
     RecordRequest, Publish, RecordPublishFailure, PublishFails, EnqueuerDies, SendDirect

(* A delivery of some other task, or of this one by another worker, stays  *)
(* pending when worker w moves and no message is taken.                    *)
LEMMA JobsAwaited ==
    ASSUME LiveJobIsPending, NEW w \in Workers, OthersStay(w), UNCHANGED enqueuer,
           \A m \in Message : ready[m] > 0 => ready'[m] > 0,
           \A t \in Tasks : t # worker[w].task => jobs'[t] = jobs[t],
           \A t \in Tasks : t = worker[w].task =>
              \/ ~Live(t)'
              \/ DeliveryPending(t)'
              \/ worker[w].pc \in {"retry", "ack"} /\ UNCHANGED jobs
    PROVE  LiveJobIsPending'
<1> SUFFICES ASSUME NEW t \in Tasks, Live(t)', ~DeliveryPending(t)'
             PROVE  enqueuer[t].pc \in {"publish", "record_failure"}
  BY DEF LiveJobIsPending, Live
<1>1. Live(t) /\ (t = worker[w].task => worker[w].pc \in {"retry", "ack"})
  BY DEF Live
<1>2. ~DeliveryPending(t)
  <2>1. \A m \in Message : m.task = t => ~(ready[m] > 0)
    BY DEF DeliveryPending
  <2>2. \A v \in Workers : worker[v].task = t => worker[v].pc \in {"retry", "ack"}
    BY <1>1 DEF DeliveryPending, OthersStay
  <2> QED  BY <2>1, <2>2 DEF DeliveryPending
<1> QED  BY <1>1, <1>2 DEF LiveJobIsPending, Live

LEMMA EnqueuerAwaited ==
    ASSUME "enqueuer" \notin Faults, LifecycleInv, LiveJobIsPending, NEW t \in Tasks,
           EnqueuerStep(t) \/ EnqueuerFault(t)
    PROVE  LiveJobIsPending'
<1>1. /\ TypeOK /\ enqueuer \in [Tasks -> [pc : EnqueuerPc, scan : Nat]]
      /\ jobs \in [Tasks -> QueueJobStatus]
  BY DEF LifecycleInv, TypeOK
<1>2. UNCHANGED worker
  BY DEF EnqueuerStep, EnqueuerFault, RecordRequest, Publish, RecordPublishFailure,
         PublishFails, EnqueuerDies, SendDirect
<1>3. ASSUME \A m \in Message : ready[m] > 0 => ready'[m] > 0,
             \A u \in Tasks : u # t => jobs'[u] = jobs[u] /\ enqueuer'[u] = enqueuer[u],
             \/ ~Live(t)'
             \/ enqueuer'[t].pc \in {"publish", "record_failure"}
             \/ DeliveryPending(t)'
      PROVE  LiveJobIsPending'
  <2>1. \A u \in Tasks : DeliveryPending(u) => DeliveryPending(u)'
    BY <1>2, <1>3 DEF DeliveryPending
  <2> QED  BY <1>3, <2>1 DEF LiveJobIsPending, Live
<1>4. ASSUME Put(FirstTry(t))
      PROVE  DeliveryPending(t)'
  <2>1. FirstTry(t) \in Message /\ FirstTry(t).task = t
    BY MessagesPut DEF FirstTry
  <2>2. ready'[FirstTry(t)] > 0
    BY <1>1, <1>4, <2>1, PutAdds DEF TypeOK
  <2> QED  BY <2>1, <2>2 DEF DeliveryPending
<1>5. CASE RecordRequest(t)
  <2>1. enqueuer'[t].pc = "publish" /\ UNCHANGED ready
    BY <1>1, <1>5 DEF RecordRequest
  <2>2. \A u \in Tasks : u # t => jobs'[u] = jobs[u] /\ enqueuer'[u] = enqueuer[u]
    BY <1>1, <1>5 DEF RecordRequest, CreateQueueJob
  <2> QED  BY <1>3, <2>1, <2>2
<1>6. ASSUME NEW pc, EnqueuerGoto(t, pc)
      PROVE  /\ pc = enqueuer'[t].pc
             /\ \A u \in Tasks : u # t => enqueuer'[u] = enqueuer[u]
  BY <1>1, <1>6 DEF EnqueuerGoto
<1>7. CASE Publish(t) \/ SendDirect(t)
  <2>1. Put(FirstTry(t)) /\ EnqueuerGoto(t, "done") /\ UNCHANGED jobs
    BY <1>7 DEF Publish, SendDirect, tables
  <2> QED  BY <1>1, <1>3, <1>4, <1>6, <2>1, PutAdds
<1>8. CASE PublishFails(t)
  <2>1. /\ Put(FirstTry(t)) \/ UNCHANGED ready
        /\ EnqueuerGoto(t, "record_failure") /\ UNCHANGED jobs
    BY <1>8 DEF PublishFails, tables
  <2> QED  BY <1>1, <1>3, <1>6, <2>1, PutAdds
<1>9. CASE RecordPublishFailure(t)
  <2>1. UNCHANGED ready /\ EnqueuerGoto(t, "failed") /\ jobs' = MarkQueueJobFailed(jobs, t)
    BY <1>9 DEF RecordPublishFailure
  <2>2. ~Live(t)' /\ \A u \in Tasks : u # t => jobs'[u] = jobs[u]
    BY <1>1, <2>1 DEF MarkQueueJobFailed, MoveQueueJob, Live
  <2> QED  BY <1>3, <1>6, <2>1, <2>2
<1>10. ~EnqueuerDies(t)
  BY DEF EnqueuerDies, Fault
<1> QED
  BY <1>5, <1>7, <1>8, <1>9, <1>10 DEF EnqueuerStep, EnqueuerFault

LEMMA DeliveryAwaited ==
    ASSUME LifecycleInv, IdleForgets, LiveJobIsPending,
           NEW w \in Workers, NEW m \in Message, Deliver(w, m)
    PROVE  LiveJobIsPending'
<1>1. ready \in [Message -> Nat] /\ worker \in [Workers -> WorkerState] /\ m.task \in Tasks
  BY DEF LifecycleInv, TypeOK, Message
<1>2. /\ worker'[w].pc = "mark_running" /\ worker'[w].task = m.task /\ OthersStay(w)
      /\ worker[w].task = NoTask
      /\ \A k \in Message : k # m => ready'[k] = ready[k]
      /\ UNCHANGED <<jobs, enqueuer>>
  BY <1>1 DEF Deliver, Idle, OthersStay, IdleForgets, tables
<1>3. ASSUME NEW t \in Tasks, DeliveryPending(t)
      PROVE  DeliveryPending(t)'
  <2>1. CASE t = m.task
    BY <1>2, <2>1 DEF DeliveryPending
  <2>2. CASE t # m.task
    <3>1. CASE \E k \in Message : k.task = t /\ ready[k] > 0
      BY <1>2, <2>2, <3>1 DEF DeliveryPending
    <3>2. CASE \E v \in Workers : worker[v].task = t /\ worker[v].pc \notin {"retry", "ack"}
      <4>1. PICK v \in Workers : worker[v].task = t /\ worker[v].pc \notin {"retry", "ack"}
        BY <3>2
      <4>2. v # w
        BY <1>2, <4>1
      <4> QED  BY <1>2, <4>1, <4>2 DEF DeliveryPending, OthersStay
    <3> QED  BY <1>3, <3>1, <3>2 DEF DeliveryPending
  <2> QED  BY <2>1, <2>2
<1> QED  BY <1>2, <1>3 DEF LiveJobIsPending

LEMMA TaskAwaited ==
    ASSUME LifecycleInv, LiveJobIsPending, NEW w \in Workers, TaskStep(w)
    PROVE  LiveJobIsPending'
<1> DEFINE u == worker[w].task
<1>1. /\ TypeOK /\ OthersStay(w) /\ jobs \in [Tasks -> QueueJobStatus]
      /\ worker[w] \in WorkerState /\ worker \in [Workers -> WorkerState]
  BY OthersOfTask DEF LifecycleInv, TypeOK
<1>2. UNCHANGED enqueuer
  BY DEF TaskStep, MarkJobRunning, ClaimScan, FetchMetadata, CommitVersions, ScanStepFails,
         SaveResult, FailScan, FailJob, CompleteJob, Retry, Ack
<1>3. ASSUME worker'[w].task = u, worker'[w].pc \notin {"retry", "ack"}
      PROVE  \A t \in Tasks : t = u => DeliveryPending(t)'
  BY <1>3 DEF DeliveryPending
<1>4. CASE MarkJobRunning(w)
  <2>1. Goto(w, "claim") /\ UNCHANGED ready /\ jobs' = JobMarkedRunning(w)
    BY <1>4 DEF MarkJobRunning
  <2>2. \A t \in Tasks : t = u => DeliveryPending(t)'
    BY <1>1, <1>3, <2>1, GotoMoves
  <2>3. \A t \in Tasks : t # u => jobs'[t] = jobs[t]
    BY <1>1, <2>1 DEF JobMarkedRunning, MarkQueueJobRunning, MoveQueueJob, CreateQueueJob
  <2> QED  BY <1>1, <1>2, <2>1, <2>2, <2>3, JobsAwaited
<1>5. CASE ClaimScan(w)
  <2>1. UNCHANGED <<ready, jobs>>
    BY <1>5 DEF ClaimScan
  <2>2. worker'[w].task = u /\ worker'[w].pc = "fetch"
    BY <1>1, <1>5, ClaimMoves DEF ClaimedQueued, ClaimedNew, Claimed
  <2> QED  BY <1>1, <1>2, <1>3, <2>1, <2>2, JobsAwaited
<1>6. CASE FetchMetadata(w)
  <2>1. UNCHANGED <<ready, jobs>>
    BY <1>6 DEF FetchMetadata, tables
  <2>2. worker'[w].task = u /\ worker'[w].pc = "commit_versions"
    BY <1>1, <1>6 DEF FetchMetadata, WorkerState
  <2> QED  BY <1>1, <1>2, <1>3, <2>1, <2>2, JobsAwaited
<1>7. CASE CommitVersions(w)
  <2>1. Goto(w, "analyse") /\ UNCHANGED <<ready, jobs>>
    BY <1>7 DEF CommitVersions
  <2>2. worker'[w].task = u /\ worker'[w].pc = "analyse"
    BY <1>1, <2>1, GotoMoves
  <2> QED  BY <1>1, <1>2, <1>3, <2>1, <2>2, JobsAwaited
<1>8. CASE ScanStepFails(w) \/ SaveResult(w) \/ FailScan(w)
  <2>1. UNCHANGED <<ready, jobs>>
    BY <1>8 DEF ScanStepFails, SaveResult, FailScan, tables
  <2>2. \E i, b : \/ Leave(w, "fail_scan", i, b) \/ Leave(w, "complete_job", i, b)
                  \/ Leave(w, "fail_job", i, b)
    BY <1>8 DEF ScanStepFails, SaveResult, FailScan
  <2>3. worker'[w].task = u /\ worker'[w].pc \in {"fail_scan", "complete_job", "fail_job"}
    BY <1>1, <2>2, LeaveMoves
  <2> QED  BY <1>1, <1>2, <1>3, <2>1, <2>3, JobsAwaited
<1>9. CASE FailJob(w) \/ CompleteJob(w)
  <2>1. /\ UNCHANGED ready
        /\ \/ jobs' = MarkQueueJobFailed(jobs, u)
           \/ jobs' = MarkQueueJobCompleted(jobs, u)
    BY <1>9 DEF FailJob, CompleteJob
  <2>2. /\ \A t \in Tasks : t # u => jobs'[t] = jobs[t]
        /\ \A t \in Tasks : t = u => ~Live(t)'
    BY <1>1, <2>1 DEF MarkQueueJobFailed, MarkQueueJobCompleted, MoveQueueJob, Live
  <2> QED  BY <1>1, <1>2, <2>1, <2>2, JobsAwaited
<1>10. CASE Retry(w)
  <2>1. At(w, "retry") /\ UNCHANGED jobs /\ Put(NextTry(w))
    BY <1>10 DEF Retry, tables
  <2>2. \A m \in Message : ready[m] > 0 => ready'[m] > 0
    BY <1>1, <2>1, PutAdds
  <2> QED  BY <1>1, <1>2, <2>1, <2>2, JobsAwaited DEF At
<1>11. CASE Ack(w)
  <2>1. At(w, "ack") /\ UNCHANGED <<jobs, ready>>
    BY <1>11 DEF Ack, tables
  <2> QED  BY <1>1, <1>2, <2>1, JobsAwaited DEF At
<1> QED
  BY <1>4, <1>5, <1>6, <1>7, <1>8, <1>9, <1>10, <1>11 DEF TaskStep

(* Without lost connections the broker holds the message of every busy     *)
(* worker, so that it comes back when the worker dies.                     *)
BusyHeld == "redeliver" \in Faults \/ \A w \in Workers : ~At(w, "idle") => worker[w].held

LEMMA BusyHeldKept == LifecycleInv /\ BusyHeld /\ [Next]_vars => BusyHeld'
<1> SUFFICES ASSUME LifecycleInv, BusyHeld, [Next]_vars, "redeliver" \notin Faults
             PROVE  \A w \in Workers : ~At(w, "idle")' => worker'[w].held
  BY DEF BusyHeld
<1>1. /\ TypeOK /\ worker \in [Workers -> WorkerState]
      /\ \A w \in Workers : worker[w] \in WorkerState /\ (~At(w, "idle") => worker[w].held)
  BY DEF LifecycleInv, TypeOK, BusyHeld
<1>2. CASE UNCHANGED worker
  BY <1>1, <1>2 DEF At
<1>3. ASSUME NEW w \in Workers, OthersStay(w), At(w, "idle")' \/ worker'[w].held
      PROVE  \A v \in Workers : ~At(v, "idle")' => worker'[v].held
  BY <1>1, <1>3 DEF OthersStay, At
<1>4. ASSUME NEW w \in Workers, NEW m \in Message, Deliver(w, m)
      PROVE  OthersStay(w) /\ worker'[w].held
  BY <1>1, <1>4 DEF Deliver, Idle, OthersStay
<1>5. ASSUME NEW w \in Workers, TaskStep(w) \/ WorkerFault(w)
      PROVE  At(w, "idle")' \/ worker'[w].held
  <2>a. worker[w] \in WorkerState /\ (~At(w, "idle") => worker[w].held)
    BY <1>1
  <2>b. ASSUME NEW pc, ~At(w, "idle"), Goto(w, pc)
        PROVE  worker'[w].held
    BY <1>1, <2>a, <2>b, GotoMoves
  <2>c. ASSUME NEW pc, NEW i, NEW b, ~At(w, "idle"), Leave(w, pc, i, b)
        PROVE  worker'[w].held
    BY <1>1, <2>a, <2>c, LeaveMoves
  <2>3. CASE Ack(w) \/ WorkerDies(w)
    <3>1. worker'[w] = Idle
      BY <1>1, <2>3 DEF Ack, WorkerDies
    <3> QED  BY <3>1 DEF Idle, At
  <2>4. CASE ClaimScan(w) \/ FetchMetadata(w)
    <3>1. worker[w].held
      BY <2>a, <2>4 DEF ClaimScan, FetchMetadata, At
    <3>2. CASE ClaimScan(w)
      <4>1. PICK i : worker' = [worker EXCEPT ![w] = [@ EXCEPT !.pc = "fetch", !.scan = i]]
        BY <3>2 DEF ClaimScan
      <4> QED  BY <1>1, <2>a, <3>1, <4>1 DEF WorkerState
    <3>3. CASE FetchMetadata(w)
      <4>1. PICK v \in Versions :
               worker' = [worker EXCEPT ![w] =
                            [@ EXCEPT !.pc = "commit_versions", !.version = v,
                                      !.sawRunning = (scans[worker[w].scan].status = "running")]]
        BY <3>3 DEF FetchMetadata
      <4> QED  BY <1>1, <2>a, <3>1, <4>1 DEF WorkerState
    <3> QED  BY <2>4, <3>2, <3>3
  <2>5. CASE \/ MarkJobRunning(w) \/ CommitVersions(w) \/ CompleteJob(w) \/ Retry(w)
             \/ RetryLost(w)
    BY <2>b, <2>5 DEF MarkJobRunning, CommitVersions, CompleteJob, Retry, RetryLost, At
  <2>6. CASE \/ ScanStepFails(w) \/ SaveResult(w) \/ FailScan(w) \/ FailJob(w)
             \/ MarkJobRunningError(w) \/ ClaimScanError(w)
             \/ CommitVersionsError(w) \/ SaveResultError(w) \/ FailScanError(w)
             \/ FailJobError(w) \/ CompleteJobError(w) \/ WorkspaceError(w)
    BY <2>c, <2>6
    DEF ScanStepFails, SaveResult, FailScan, FailJob, MarkJobRunningError, ClaimScanError,
        CommitVersionsError, SaveResultError, FailScanError, FailJobError,
        CompleteJobError, WorkspaceError, At
  <2>7. ~Redeliver(w)
    BY DEF Redeliver, Fault
  <2> QED  BY <1>5, <2>3, <2>4, <2>5, <2>6, <2>7 DEF TaskStep, WorkerFault
<1>6. ASSUME NEW t \in Tasks, EnqueuerStep(t) \/ EnqueuerFault(t)
      PROVE  UNCHANGED worker
  BY <1>6 DEF EnqueuerStep, EnqueuerFault, RecordRequest, Publish, RecordPublishFailure,
     PublishFails, EnqueuerDies, SendDirect
<1> QED
  BY <1>2, <1>3, <1>4, <1>5, <1>6, OthersOfTask DEF Next, vars, AtRest

NoLostTasks ==
    /\ "enqueuer" \notin Faults /\ "database" \notin Faults
    /\ "worker" \notin Faults \/ "redeliver" \notin Faults

LEMMA LiveKept ==
    NoLostTasks /\ LifecycleInv /\ IdleForgets /\ BusyHeld /\ LiveJobIsPending /\ [Next]_vars
    => LiveJobIsPending'
<1> SUFFICES ASSUME NoLostTasks, LifecycleInv, IdleForgets, BusyHeld, LiveJobIsPending,
                    [Next]_vars
             PROVE  LiveJobIsPending'
  OBVIOUS
<1>1. TypeOK /\ "enqueuer" \notin Faults /\ "database" \notin Faults
  BY DEF LifecycleInv, NoLostTasks
<1>2. ASSUME NEW w \in Workers, RetryLost(w)
      PROVE  LiveJobIsPending'
  <2>1. At(w, "retry") /\ UNCHANGED <<jobs, ready, enqueuer>> /\ OthersStay(w)
    BY <1>2, OthersOfTask DEF RetryLost, WorkerFault, tables
  <2> QED  BY <2>1, JobsAwaited DEF At
<1>3. ASSUME NEW w \in Workers, Redeliver(w)
      PROVE  LiveJobIsPending'
  <2>1. worker[w] \in WorkerState /\ worker \in [Workers -> WorkerState]
    BY <1>1 DEF TypeOK
  <2>2. /\ worker'[w].pc = worker[w].pc /\ worker'[w].task = worker[w].task
        /\ UNCHANGED <<jobs, enqueuer>> /\ OthersStay(w) /\ Put(Delivery(w))
    BY <1>3, <2>1 DEF Redeliver, WorkerState, tables, OthersStay
  <2>3. \A m \in Message : ready[m] > 0 => ready'[m] > 0
    BY <1>1, <2>2, PutAdds
  <2>4. \A t \in Tasks : DeliveryPending(t) => DeliveryPending(t)'
    BY <2>2, <2>3 DEF DeliveryPending, OthersStay
  <2> QED  BY <2>2, <2>4 DEF LiveJobIsPending
<1>4. CASE UNCHANGED vars
  BY <1>4 DEF vars, LiveJobIsPending, DeliveryPending
<1>5. ASSUME NEW w \in Workers, WorkerDies(w)
      PROVE  LiveJobIsPending'
  <2> DEFINE m == Delivery(w)
  <2>1. OthersStay(w) /\ UNCHANGED <<jobs, enqueuer>> /\ ~At(w, "idle")
    BY <1>5, OthersOfTask DEF WorkerDies, WorkerFault, tables
  <2>2. "redeliver" \notin Faults /\ worker[w].held
    BY <1>5, <2>1 DEF NoLostTasks, BusyHeld, WorkerDies, Fault
  <2>3. Put(m) /\ m \in Message /\ m.task = worker[w].task
    BY <1>5, <2>1, <2>2, MessagesPut DEF WorkerDies, Delivery
  <2>4. /\ \A k \in Message : ready[k] > 0 => ready'[k] > 0
        /\ ready'[m] > 0
    <3> HIDE DEF m
    <3>1. ready[m] \in Nat /\ ready'[m] = ready[m] + 1
      BY <1>1, <2>3, PutAdds DEF TypeOK
    <3> QED  BY <1>1, <2>3, <3>1, PutAdds
  <2>5. \A t \in Tasks : t = worker[w].task => DeliveryPending(t)'
    BY <2>3, <2>4 DEF DeliveryPending
  <2> QED  BY <2>1, <2>4, <2>5, JobsAwaited
<1>6. ASSUME NEW w \in Workers, WorkspaceError(w)
      PROVE  LiveJobIsPending'
  <2>1. /\ OthersStay(w) /\ UNCHANGED <<jobs, ready, enqueuer>>
        /\ Leave(w, "fail_job", 0, FALSE)
    BY <1>6, OthersOfTask DEF WorkspaceError, WorkerFault, tables
  <2>2. worker'[w].pc = "fail_job" /\ worker'[w].task = worker[w].task
    BY <1>1, <2>1, LeaveMoves
  <2>3. \A t \in Tasks : t = worker[w].task => DeliveryPending(t)'
    BY <2>2 DEF DeliveryPending
  <2> QED  BY <2>1, <2>3, JobsAwaited
<1> QED
  BY <1>1, <1>2, <1>3, <1>4, <1>5, <1>6, EnqueuerAwaited, DeliveryAwaited, TaskAwaited,
     StepsWithoutErrors

(* A queue_jobs row is queued or running only while its request is being   *)
(* published or a delivery of its task is under way, however many          *)
(* deliveries, retries and publish failures there are, and although        *)
(* connections are lost or workers die, if not both.                       *)
THEOREM LiveJobsArePending ==
    ASSUME NoLostTasks
    PROVE  Spec => []LiveJobIsPending
<1>1. Init => LiveJobIsPending /\ IdleForgets /\ BusyHeld
  BY DEF Init, Idle, LiveJobIsPending, IdleForgets, BusyHeld, At
<1> QED
  BY <1>1, LiveKept, IdleForgetsKept, BusyHeldKept, LifecycleInvariant, PTL DEF Spec

-----------------------------------------------------------------------------
(* Queued rows and claims to come.  Each is a finite set, and a step adds  *)
(* an element to one of them or moves one from one to another.             *)

QueuedFor(p) == ScansWith(scans, p, "queued")

(* B is A with one element more.                                           *)
Adds(A, B) == \E x : x \notin A /\ B = A \cup {x}

LEMMA OneMore ==
    ASSUME NEW A, NEW B, Adds(A, B), IsFiniteSet(A) \/ IsFiniteSet(B)
    PROVE  /\ IsFiniteSet(A) /\ IsFiniteSet(B)
           /\ Cardinality(A) \in Nat /\ Cardinality(B) = Cardinality(A) + 1
<1>1. PICK x : x \notin A /\ B = A \cup {x}
  BY DEF Adds
<1>2. IsFiniteSet(A)
  BY <1>1, FS_Subset
<1> QED  BY <1>1, <1>2, FS_AddElement, FS_CardinalityType

SameOrMore(A, B) == B = A \/ Adds(A, B)

ClaimsMove(p) ==
    \/ /\ QueuedFor(p)' \subseteq QueuedFor(p)
       /\ SameOrMore(WaitingFor(p), WaitingFor(p)')
       /\ ClaimersFor(p)' = ClaimersFor(p) /\ PublishersFor(p)' = PublishersFor(p)
    \/ /\ QueuedFor(p)' = QueuedFor(p) /\ ClaimersFor(p)' = ClaimersFor(p)
       /\ Adds(WaitingFor(p), WaitingFor(p)') /\ Adds(PublishersFor(p)', PublishersFor(p))
    \/ /\ QueuedFor(p)' = QueuedFor(p) /\ PublishersFor(p)' = PublishersFor(p)
       /\ \/ Adds(WaitingFor(p)', WaitingFor(p)) /\ Adds(ClaimersFor(p), ClaimersFor(p)')
          \/ Adds(WaitingFor(p), WaitingFor(p)') /\ Adds(ClaimersFor(p)', ClaimersFor(p))
    \/ /\ Adds(QueuedFor(p), QueuedFor(p)') /\ Adds(PublishersFor(p), PublishersFor(p)')
       /\ WaitingFor(p)' = WaitingFor(p) /\ ClaimersFor(p)' = ClaimersFor(p)
    \/ /\ Adds(QueuedFor(p)', QueuedFor(p)) \/ QueuedFor(p)' = {}
       /\ SameOrMore(ClaimersFor(p)', ClaimersFor(p))
       /\ WaitingFor(p)' = WaitingFor(p) /\ PublishersFor(p)' = PublishersFor(p)

ClaimsCounted ==
    \A p \in Packages :
        /\ IsFiniteSet(WaitingFor(p)) /\ IsFiniteSet(ClaimersFor(p))
        /\ IsFiniteSet(PublishersFor(p))
        /\ Cardinality(QueuedFor(p)) <= AwaitedClaims(p)

LEMMA ClaimsBalanced ==
    ASSUME NEW Q, NEW Q1, NEW W, NEW W1, NEW C, NEW C1, NEW P, NEW P1,
           IsFiniteSet(Q), IsFiniteSet(W), IsFiniteSet(C), IsFiniteSet(P),
           Cardinality(Q) <= Cardinality(W) + Cardinality(C) + Cardinality(P),
           \/ /\ Q1 \subseteq Q /\ SameOrMore(W, W1) /\ C1 = C /\ P1 = P
           \/ /\ Q1 = Q /\ C1 = C /\ Adds(W, W1) /\ Adds(P1, P)
           \/ /\ Q1 = Q /\ P1 = P
              /\ \/ Adds(W1, W) /\ Adds(C, C1)
                 \/ Adds(W, W1) /\ Adds(C1, C)
           \/ /\ Adds(Q, Q1) /\ Adds(P, P1) /\ W1 = W /\ C1 = C
           \/ /\ Adds(Q1, Q) \/ Q1 = {}
              /\ SameOrMore(C1, C) /\ W1 = W /\ P1 = P
    PROVE  /\ IsFiniteSet(W1) /\ IsFiniteSet(C1) /\ IsFiniteSet(P1)
           /\ Cardinality(Q1) <= Cardinality(W1) + Cardinality(C1) + Cardinality(P1)
<1>1. /\ Cardinality(Q) \in Nat /\ Cardinality(W) \in Nat /\ Cardinality(C) \in Nat
      /\ Cardinality(P) \in Nat
  BY FS_CardinalityType
<1>2. ASSUME NEW A, NEW B, Adds(A, B), IsFiniteSet(A) \/ IsFiniteSet(B)
      PROVE  /\ IsFiniteSet(A) /\ IsFiniteSet(B)
             /\ Cardinality(A) \in Nat /\ Cardinality(B) = Cardinality(A) + 1
  BY <1>2, OneMore
<1>3. CASE Q1 \subseteq Q /\ SameOrMore(W, W1) /\ C1 = C /\ P1 = P
  <2>1. Cardinality(Q1) \in Nat /\ Cardinality(Q1) <= Cardinality(Q)
    BY <1>3, FS_Subset, FS_CardinalityType
  <2>2. IsFiniteSet(W1) /\ Cardinality(W1) \in Nat /\ Cardinality(W) <= Cardinality(W1)
    BY <1>1, <1>2, <1>3 DEF SameOrMore
  <2> QED  BY <1>1, <1>3, <2>1, <2>2
<1>4. CASE Q1 = Q /\ C1 = C /\ Adds(W, W1) /\ Adds(P1, P)
  <2>1. /\ IsFiniteSet(W1) /\ Cardinality(W1) = Cardinality(W) + 1
        /\ IsFiniteSet(P1) /\ Cardinality(P1) \in Nat /\ Cardinality(P) = Cardinality(P1) + 1
    BY <1>2, <1>4
  <2> QED  BY <1>1, <1>4, <2>1
<1>5. CASE Q1 = Q /\ P1 = P /\ Adds(W1, W) /\ Adds(C, C1)
  <2>1. /\ IsFiniteSet(C1) /\ Cardinality(C1) = Cardinality(C) + 1
        /\ IsFiniteSet(W1) /\ Cardinality(W1) \in Nat /\ Cardinality(W) = Cardinality(W1) + 1
    BY <1>2, <1>5
  <2> QED  BY <1>1, <1>5, <2>1
<1>6. CASE Q1 = Q /\ P1 = P /\ Adds(W, W1) /\ Adds(C1, C)
  <2>1. /\ IsFiniteSet(W1) /\ Cardinality(W1) = Cardinality(W) + 1
        /\ IsFiniteSet(C1) /\ Cardinality(C1) \in Nat /\ Cardinality(C) = Cardinality(C1) + 1
    BY <1>2, <1>6
  <2> QED  BY <1>1, <1>6, <2>1
<1>7. CASE Adds(Q, Q1) /\ Adds(P, P1) /\ W1 = W /\ C1 = C
  <2>1. /\ Cardinality(Q1) = Cardinality(Q) + 1
        /\ IsFiniteSet(P1) /\ Cardinality(P1) = Cardinality(P) + 1
    BY <1>2, <1>7
  <2> QED  BY <1>1, <1>7, <2>1
<1>8. CASE (Adds(Q1, Q) \/ Q1 = {}) /\ SameOrMore(C1, C) /\ W1 = W /\ P1 = P
  <2>1. /\ IsFiniteSet(C1) /\ Cardinality(C1) \in Nat
        /\ Cardinality(C) <= Cardinality(C1) + 1
    BY <1>1, <1>2, <1>8 DEF SameOrMore
  <2>2. \/ Cardinality(Q1) \in Nat /\ Cardinality(Q) = Cardinality(Q1) + 1
        \/ Cardinality(Q1) = 0
    BY <1>2, <1>8, FS_EmptySet
  <2> QED  BY <1>1, <1>8, <2>1, <2>2
<1> QED  BY <1>3, <1>4, <1>5, <1>6, <1>7, <1>8

(* What the steps do to the waiting messages ...                           *)
LEMMA MessageAdded ==
    ASSUME TypeOK, NEW m \in Message, Put(m), NEW p
    PROVE  IF PackageOf[m.task] = p
           THEN Adds(WaitingFor(p), WaitingFor(p)')
           ELSE WaitingFor(p)' = WaitingFor(p)
<1>1. /\ \A k \in Message : ready[k] \in Nat
      /\ \A k \in Message : k # m => ready'[k] = ready[k]
      /\ ready'[m] = ready[m] + 1
  BY PutAdds DEF TypeOK
<1>2. 1 .. ready[m] + 1 = (1 .. ready[m]) \cup {ready[m] + 1} /\ ready[m] + 1 \notin 1 .. ready[m]
  BY <1>1
<1>3. CASE PackageOf[m.task] = p
  <2> DEFINE x == <<m, ready[m] + 1>>
  <2>1. x \notin WaitingFor(p)
    BY <1>2 DEF WaitingFor
  <2>2. WaitingFor(p)' = WaitingFor(p) \cup {x}
    BY <1>1, <1>2, <1>3 DEF WaitingFor
  <2> QED  BY <1>3, <2>1, <2>2 DEF Adds
<1>4. CASE PackageOf[m.task] # p
  BY <1>1, <1>4 DEF WaitingFor
<1> QED  BY <1>3, <1>4

LEMMA MessageTaken ==
    ASSUME TypeOK, NEW w \in Workers, NEW m \in Message, Deliver(w, m), NEW p
    PROVE  IF PackageOf[m.task] = p
           THEN Adds(WaitingFor(p)', WaitingFor(p))
           ELSE WaitingFor(p)' = WaitingFor(p)
<1>1. /\ \A k \in Message : ready[k] \in Nat
      /\ \A k \in Message : k # m => ready'[k] = ready[k]
      /\ ready'[m] = ready[m] - 1 /\ ready[m] > 0
  BY DEF TypeOK, Deliver
<1>2. 1 .. ready[m] = (1 .. ready'[m]) \cup {ready[m]} /\ ready[m] \notin 1 .. ready'[m]
  BY <1>1
<1>3. CASE PackageOf[m.task] = p
  <2> DEFINE x == <<m, ready[m]>>
  <2>1. x \notin WaitingFor(p)'
    BY <1>2 DEF WaitingFor
  <2>2. WaitingFor(p) = WaitingFor(p)' \cup {x}
    BY <1>1, <1>2, <1>3 DEF WaitingFor
  <2> QED  BY <1>3, <2>1, <2>2 DEF Adds
<1>4. CASE PackageOf[m.task] # p
  BY <1>1, <1>4 DEF WaitingFor
<1> QED  BY <1>3, <1>4

(* ... and, by moving worker w, to the claims under way.                   *)
Claiming(w) == worker[w].pc \in {"mark_running", "claim"} /\ worker[w].held

LEMMA ClaimersSame ==
    ASSUME NEW w \in Workers, OthersStay(w), NEW p,
           Claiming(w)' <=> Claiming(w),
           Claiming(w) => worker'[w].task = worker[w].task
    PROVE  ClaimersFor(p)' = ClaimersFor(p)
  BY DEF ClaimersFor, Claiming, OthersStay, Package

LEMMA ClaimerGone ==
    ASSUME NEW w \in Workers, OthersStay(w), ~Claiming(w)', NEW p
    PROVE  IF Claiming(w) /\ Package(w) = p
           THEN Adds(ClaimersFor(p)', ClaimersFor(p))
           ELSE ClaimersFor(p)' = ClaimersFor(p)
<1>1. w \notin ClaimersFor(p)'
  BY DEF ClaimersFor, Claiming
<1>2. \A v \in Workers : v # w => (v \in ClaimersFor(p)' <=> v \in ClaimersFor(p))
  BY DEF ClaimersFor, OthersStay, Package
<1>3. w \in ClaimersFor(p) <=> Claiming(w) /\ Package(w) = p
  BY DEF ClaimersFor, Claiming
<1>4. ClaimersFor(p) \subseteq Workers /\ ClaimersFor(p)' \subseteq Workers
  BY DEF ClaimersFor
<1>5. CASE Claiming(w) /\ Package(w) = p
  <2>1. ClaimersFor(p) = ClaimersFor(p)' \cup {w}
    BY <1>1, <1>2, <1>3, <1>4, <1>5
  <2> QED  BY <1>1, <1>5, <2>1 DEF Adds
<1>6. CASE ~(Claiming(w) /\ Package(w) = p)
  BY <1>1, <1>2, <1>3, <1>4, <1>6
<1> QED  BY <1>5, <1>6

LEMMA ClaimerCame ==
    ASSUME NEW w \in Workers, OthersStay(w), ~Claiming(w), Claiming(w)', NEW p
    PROVE  IF Package(w)' = p
           THEN Adds(ClaimersFor(p), ClaimersFor(p)')
           ELSE ClaimersFor(p)' = ClaimersFor(p)
<1>1. w \notin ClaimersFor(p)
  BY DEF ClaimersFor, Claiming
<1>2. \A v \in Workers : v # w => (v \in ClaimersFor(p)' <=> v \in ClaimersFor(p))
  BY DEF ClaimersFor, OthersStay, Package
<1>3. w \in ClaimersFor(p)' <=> Package(w)' = p
  BY DEF ClaimersFor, Claiming
<1>4. ClaimersFor(p) \subseteq Workers /\ ClaimersFor(p)' \subseteq Workers
  BY DEF ClaimersFor
<1>5. CASE Package(w)' = p
  <2>1. ClaimersFor(p)' = ClaimersFor(p) \cup {w}
    BY <1>1, <1>2, <1>3, <1>4, <1>5
  <2> QED  BY <1>1, <1>5, <2>1 DEF Adds
<1>6. CASE Package(w)' # p
  BY <1>1, <1>2, <1>3, <1>4, <1>6
<1> QED  BY <1>5, <1>6

(* A task step that neither claims nor publishes does not move the claims  *)
(* to come.                                                                *)
LEMMA TaskKeepsClaims ==
    ASSUME TypeOK, NEW w \in Workers, NEW p,
           \/ MarkJobRunning(w) \/ FetchMetadata(w) \/ CommitVersions(w) \/ ScanStepFails(w)
           \/ SaveResult(w) \/ FailScan(w) \/ FailJob(w) \/ CompleteJob(w) \/ Retry(w) \/ Ack(w)
    PROVE  ClaimersFor(p)' = ClaimersFor(p) /\ PublishersFor(p)' = PublishersFor(p)
<1>1. worker[w] \in WorkerState /\ worker \in [Workers -> WorkerState]
  BY DEF TypeOK
<1>2. UNCHANGED enqueuer
  BY DEF MarkJobRunning, FetchMetadata, CommitVersions, ScanStepFails, SaveResult, FailScan,
         FailJob, CompleteJob, Retry, Ack
<1>3. PublishersFor(p)' = PublishersFor(p)
  BY <1>2 DEF PublishersFor
<1>4. CASE MarkJobRunning(w)
  <2>1. Goto(w, "claim") /\ At(w, "mark_running")
    BY <1>4 DEF MarkJobRunning
  <2>2. OthersStay(w) /\ (Claiming(w)' <=> Claiming(w)) /\ worker'[w].task = worker[w].task
    BY <1>1, <2>1, GotoMoves DEF Claiming, At
  <2> QED  BY <1>3, <2>2, ClaimersSame
<1>5. ASSUME OthersStay(w), ~Claiming(w), worker'[w].pc \notin {"mark_running", "claim"}
      PROVE  ClaimersFor(p)' = ClaimersFor(p)
  BY <1>5, ClaimersSame DEF Claiming
<1>6. CASE FetchMetadata(w)
  <2>1. OthersStay(w) /\ worker'[w].pc = "commit_versions" /\ ~Claiming(w)
    <3>1. At(w, "fetch") /\ ~Claiming(w)
      BY <1>6 DEF FetchMetadata, At, Claiming
    <3>2. OthersStay(w) /\ worker'[w].pc = "commit_versions"
      BY <1>1, <1>6 DEF FetchMetadata, OthersStay, WorkerState
    <3> QED  BY <3>1, <3>2
  <2> QED  BY <1>3, <1>5, <2>1
<1>7. CASE CommitVersions(w) \/ CompleteJob(w) \/ Retry(w)
  <2>1. (\E pc \in {"analyse", "ack"} : Goto(w, pc)) /\ ~Claiming(w)
    BY <1>7 DEF CommitVersions, CompleteJob, Retry, At, Claiming
  <2> QED  BY <1>3, <1>5, <2>1, GotoMoves
<1>8. CASE ScanStepFails(w) \/ SaveResult(w) \/ FailScan(w) \/ FailJob(w)
  <2>1. /\ \E pc \in {"fail_scan", "complete_job", "fail_job", "retry", "ack"} :
              \E i, b : Leave(w, pc, i, b)
        /\ ~Claiming(w)
    <3>1. ~Claiming(w)
      BY <1>8 DEF ScanStepFails, SaveResult, FailScan, FailJob, At, Claiming
    <3>2. ScanStepFails(w) => \E i, b : Leave(w, "fail_scan", i, b)
      BY DEF ScanStepFails
    <3> QED  BY <1>8, <3>1, <3>2 DEF SaveResult, FailScan, FailJob
  <2> QED  BY <1>3, <1>5, <2>1, LeaveMoves
<1>9. CASE Ack(w)
  <2>1. OthersStay(w) /\ worker'[w].pc = "idle" /\ ~Claiming(w)
    BY <1>1, <1>9 DEF Ack, Idle, OthersStay, At, Claiming
  <2> QED  BY <1>3, <1>5, <2>1
<1> QED  BY <1>4, <1>6, <1>7, <1>8, <1>9

NoLostRequests ==
    NoReportedErrors /\ "enqueuer" \notin Faults /\ "workspace" \notin Faults

(* The steps that leave the rows alone.                                    *)
LEMMA LocalClaims ==
    ASSUME NoLostRequests, LifecycleInv, LocalStep, NEW p \in Packages
    PROVE  ClaimsMove(p)
<1>1. /\ TypeOK /\ worker \in [Workers -> WorkerState]
      /\ enqueuer \in [Tasks -> [pc : EnqueuerPc, scan : Nat]]
  BY DEF LifecycleInv, TypeOK
<1>2. QueuedFor(p)' = QueuedFor(p)
  BY <1>1, LocalStepTakesNothing DEF QueuedFor
<1>3. ASSUME NEW t \in Tasks, Publish(t) \/ SendDirect(t)
      PROVE  ClaimsMove(p)
  <2>1. /\ Put(FirstTry(t)) /\ FirstTry(t) \in Message /\ FirstTry(t).task = t
        /\ EnqueuerGoto(t, "done") /\ UNCHANGED worker
    BY <1>3, MessagesPut DEF Publish, SendDirect, FirstTry
  <2>2. ClaimersFor(p)' = ClaimersFor(p)
    BY <2>1 DEF ClaimersFor, Package
  <2>3. IF PackageOf[t] = p
        THEN Adds(WaitingFor(p), WaitingFor(p)')
        ELSE WaitingFor(p)' = WaitingFor(p)
    BY <1>1, <2>1, MessageAdded
  <2>4. PublishersFor(p)' = PublishersFor(p) \ {t}
    BY <1>1, <2>1 DEF PublishersFor, EnqueuerGoto
  <2>5. CASE t \in PublishersFor(p)
    <3>1. PackageOf[t] = p
      BY <2>5 DEF PublishersFor
    <3>2. Adds(PublishersFor(p)', PublishersFor(p))
      BY <2>4, <2>5 DEF Adds
    <3> QED  BY <1>2, <2>2, <2>3, <3>1, <3>2 DEF ClaimsMove
  <2>6. CASE t \notin PublishersFor(p)
    BY <1>2, <2>2, <2>3, <2>4, <2>6 DEF ClaimsMove, SameOrMore
  <2> QED  BY <2>5, <2>6
<1>4. ASSUME NEW w \in Workers, NEW m \in Message, Deliver(w, m)
      PROVE  ClaimsMove(p)
  <2>1. /\ OthersStay(w) /\ worker'[w].pc = "mark_running" /\ worker'[w].task = m.task
        /\ worker'[w].held /\ ~Claiming(w) /\ UNCHANGED enqueuer
    BY <1>1, <1>4 DEF Deliver, Idle, OthersStay, At, Claiming
  <2>2. Claiming(w)' /\ Package(w)' = PackageOf[m.task]
    BY <2>1 DEF Claiming, Package
  <2>3. IF PackageOf[m.task] = p
        THEN Adds(ClaimersFor(p), ClaimersFor(p)')
        ELSE ClaimersFor(p)' = ClaimersFor(p)
    BY <2>1, <2>2, ClaimerCame
  <2>4. IF PackageOf[m.task] = p
        THEN Adds(WaitingFor(p)', WaitingFor(p))
        ELSE WaitingFor(p)' = WaitingFor(p)
    BY <1>1, <1>4, MessageTaken
  <2>5. PublishersFor(p)' = PublishersFor(p)
    BY <2>1 DEF PublishersFor
  <2> QED  BY <1>2, <2>3, <2>4, <2>5 DEF ClaimsMove, SameOrMore
<1>5. ASSUME NEW w \in Workers, Redeliver(w) \/ WorkerDies(w)
      PROVE  ClaimsMove(p)
  <2>1. worker[w] \in WorkerState /\ ~At(w, "idle")
    BY <1>1, <1>5 DEF Redeliver, WorkerDies, LifecycleInv, BusyHasTask, At
  <2>2. OthersStay(w) /\ ~Claiming(w)' /\ UNCHANGED enqueuer
    BY <1>1, <1>5, <2>1 DEF Redeliver, WorkerDies, Idle, OthersStay, Claiming, WorkerState
  <2>3. /\ IF Claiming(w) /\ Package(w) = p
           THEN Adds(ClaimersFor(p)', ClaimersFor(p))
           ELSE ClaimersFor(p)' = ClaimersFor(p)
        /\ PublishersFor(p)' = PublishersFor(p)
    BY <2>2, ClaimerGone DEF PublishersFor
  <2>4. CASE worker[w].held
    <3>1. /\ Put(Delivery(w)) /\ Delivery(w) \in Message
          /\ PackageOf[Delivery(w).task] = Package(w)
      BY <1>5, <2>1, <2>4, MessagesPut DEF Redeliver, WorkerDies, Delivery, Package
    <3>2. IF Package(w) = p
          THEN Adds(WaitingFor(p), WaitingFor(p)')
          ELSE WaitingFor(p)' = WaitingFor(p)
      BY <1>1, <3>1, MessageAdded
    <3> QED  BY <1>2, <2>3, <3>2 DEF ClaimsMove, SameOrMore
  <2>5. CASE ~worker[w].held
    <3>1. ~Claiming(w) /\ UNCHANGED ready
      BY <1>5, <2>5 DEF Claiming, Redeliver, WorkerDies
    <3>2. WaitingFor(p)' = WaitingFor(p)
      BY <3>1 DEF WaitingFor
    <3> QED  BY <1>2, <2>3, <3>1, <3>2 DEF ClaimsMove, SameOrMore
  <2> QED  BY <2>4, <2>5
<1>6. ASSUME NEW w \in Workers,
             \/ MarkJobRunning(w) \/ ScanStepFails(w) \/ FailJob(w) \/ CompleteJob(w)
             \/ Retry(w) \/ Ack(w)
      PROVE  ClaimsMove(p)
  <2>1. ClaimersFor(p)' = ClaimersFor(p) /\ PublishersFor(p)' = PublishersFor(p)
    BY <1>1, <1>6, TaskKeepsClaims
  <2>2. SameOrMore(WaitingFor(p), WaitingFor(p)')
    <3>1. CASE UNCHANGED ready
      BY <3>1 DEF SameOrMore, WaitingFor
    <3>2. CASE Retry(w)
      <4>1. Put(NextTry(w))
        BY <3>2 DEF Retry
      <4>2. CASE NextTry(w) \in Message
        BY <1>1, <4>1, <4>2, MessageAdded DEF SameOrMore
      <4>3. CASE NextTry(w) \notin Message
        <5>1. \A m \in Message : ready'[m] = ready[m]
          BY <1>1, <4>1, <4>3, PutAdds
        <5> QED  BY <5>1 DEF SameOrMore, WaitingFor
      <4> QED  BY <4>2, <4>3
    <3> QED
      BY <1>6, <3>1, <3>2 DEF MarkJobRunning, ScanStepFails, FailJob, CompleteJob, Ack
  <2> QED  BY <1>2, <2>1, <2>2 DEF ClaimsMove
<1>7. CASE UNCHANGED vars
  <2>1. /\ WaitingFor(p)' = WaitingFor(p) /\ ClaimersFor(p)' = ClaimersFor(p)
        /\ PublishersFor(p)' = PublishersFor(p)
    BY <1>7 DEF vars, WaitingFor, ClaimersFor, PublishersFor, Package
  <2> QED  BY <1>2, <2>1 DEF ClaimsMove, SameOrMore
<1>8. \A t \in Tasks : ~EnqueuerDies(t)
  BY DEF NoLostRequests, EnqueuerDies, Fault
<1>9. \A w \in Workers : ~WorkspaceError(w)
  BY DEF NoLostRequests, WorkspaceError, Fault
<1> QED
  BY <1>3, <1>4, <1>5, <1>6, <1>7, <1>8, <1>9 DEF LocalStep

LEMMA RequestClaims ==
    ASSUME LifecycleInv, NEW t \in Tasks, RecordRequest(t), NEW p \in Packages
    PROVE  ClaimsMove(p)
<1>1. /\ scans \in ScanTable /\ PackageOf[t] \in Packages /\ "queued" \in ScanStatus
      /\ enqueuer \in [Tasks -> [pc : EnqueuerPc, scan : Nat]]
      /\ scans' = CreateScanResult(scans, PackageOf[t], "queued")
      /\ UNCHANGED <<ready, worker>>
  BY DEF LifecycleInv, TypeOK, ScanTable, ScanStatus, RecordRequest
<1>2. WaitingFor(p)' = WaitingFor(p) /\ ClaimersFor(p)' = ClaimersFor(p)
  BY <1>1 DEF WaitingFor, ClaimersFor, Package
<1>3. RowAdded(scans, scans', "queued") /\ scans'[Len(scans')].pkg = PackageOf[t]
  BY <1>1, NewRowFields
<1>4. enqueuer[t].pc = "idle" /\ enqueuer'[t].pc = "publish"
      /\ \A u \in Tasks : u # t => enqueuer'[u] = enqueuer[u]
  BY <1>1 DEF RecordRequest
<1>5. CASE PackageOf[t] = p
  <2>1. Adds(QueuedFor(p), QueuedFor(p)')
    <3>1. /\ Len(scans') \notin QueuedFor(p)
          /\ QueuedFor(p)' = QueuedFor(p) \cup {Len(scans')}
      BY <1>3, <1>5 DEF QueuedFor, ScansWith, RowAdded
    <3> QED  BY <3>1 DEF Adds
  <2>2. Adds(PublishersFor(p), PublishersFor(p)')
    <3>1. t \notin PublishersFor(p) /\ PublishersFor(p)' = PublishersFor(p) \cup {t}
      BY <1>4, <1>5 DEF PublishersFor
    <3> QED  BY <3>1 DEF Adds
  <2> QED  BY <1>2, <2>1, <2>2 DEF ClaimsMove
<1>6. CASE PackageOf[t] # p
  <2>1. QueuedFor(p)' = QueuedFor(p)
    BY <1>3, <1>6 DEF QueuedFor, ScansWith, RowAdded
  <2>2. PublishersFor(p)' = PublishersFor(p)
    BY <1>4, <1>6 DEF PublishersFor
  <2> QED  BY <1>2, <2>1, <2>2 DEF ClaimsMove, SameOrMore
<1> QED  BY <1>5, <1>6

LEMMA RowClaims ==
    ASSUME LifecycleInv, RowsInv, NEW w \in Workers, RowStep(w), NEW p \in Packages
    PROVE  ClaimsMove(p)
<1>1. TypeOK /\ scans \in ScanTable
  BY DEF LifecycleInv, TypeOK, ScanTable
<1>2. UNCHANGED <<ready, enqueuer>>
  BY DEF RowStep, ClaimedQueued, ClaimedNew, Claimed, FetchMetadata, CommitVersions,
         SaveResult, FailScan
<1>3. WaitingFor(p)' = WaitingFor(p) /\ PublishersFor(p)' = PublishersFor(p)
  BY <1>2 DEF WaitingFor, PublishersFor
<1>4. ASSUME NEW i, Claimed(w, i)
      PROVE  IF Claiming(w) /\ Package(w) = p
             THEN Adds(ClaimersFor(p)', ClaimersFor(p))
             ELSE ClaimersFor(p)' = ClaimersFor(p)
  <2>1. OthersStay(w) /\ ~Claiming(w)'
    BY <1>4 DEF Claimed, Claiming
  <2> QED  BY <2>1, ClaimerGone
<1>5. ASSUME NEW i \in DOMAIN scans, ClaimedQueued(w, i)
      PROVE  ClaimsMove(p)
  <2>1. /\ scans[i].status = "queued" /\ scans[i].pkg = Package(w)
        /\ Claimed(w, i)
    BY <1>5 DEF ClaimedQueued, IsNextQueuedScan, ScansWith
  <2>2. RowMoved(scans, scans', i) /\ scans'[i].status = "running"
    BY <1>1, <1>5, RowClaimed DEF ClaimedQueued
  <2>3. CASE Package(w) = p
    <3>1. i \notin QueuedFor(p)' /\ QueuedFor(p) = QueuedFor(p)' \cup {i}
      BY <2>1, <2>2, <2>3 DEF QueuedFor, ScansWith, RowMoved, OnlyRow
    <3>2. Adds(QueuedFor(p)', QueuedFor(p))
      BY <3>1 DEF Adds
    <3> QED  BY <1>3, <1>4, <2>1, <3>2 DEF ClaimsMove, SameOrMore
  <2>4. CASE Package(w) # p
    <3>1. QueuedFor(p)' = QueuedFor(p)
      BY <2>1, <2>2, <2>4 DEF QueuedFor, ScansWith, RowMoved, OnlyRow
    <3> QED  BY <1>3, <1>4, <2>1, <2>4, <3>1 DEF ClaimsMove, SameOrMore
  <2> QED  BY <2>3, <2>4
<1>6. CASE ClaimedNew(w)
  <2>1. Package(w) \in Packages /\ "running" \in ScanStatus /\ Claimed(w, Len(scans'))
    BY <1>6 DEF ClaimedNew, Claimed, LifecycleInv, BusyHasTask, At, Package, ScanStatus
  <2>2. RowAdded(scans, scans', "running")
    BY <1>1, <1>6, <2>1, ScanCreated DEF ClaimedNew
  <2>3. QueuedFor(p)' = QueuedFor(p)
    BY <2>2 DEF QueuedFor, ScansWith, RowAdded
  <2>4. CASE Package(w) = p
    <3>1. QueuedFor(p) = {}
      BY <1>6, <2>4 DEF ClaimedNew, QueuedFor
    <3> QED  BY <1>3, <1>4, <2>1, <2>3, <3>1 DEF ClaimsMove, SameOrMore
  <2>5. CASE Package(w) # p
    BY <1>3, <1>4, <2>1, <2>3, <2>5 DEF ClaimsMove, SameOrMore
  <2> QED  BY <2>4, <2>5
<1>7. CASE FetchMetadata(w) \/ CommitVersions(w) \/ SaveResult(w) \/ FailScan(w)
  <2> DEFINE i == worker[w].scan
  <2>1. ClaimersFor(p)' = ClaimersFor(p)
    BY <1>1, <1>7, TaskKeepsClaims
  <2>2. Holding(w)
    BY <1>7 DEF FetchMetadata, CommitVersions, SaveResult, FailScan, At, Holding, Scanning
  <2>3. RowMoved(scans, scans', i) /\ scans'[i].status # "queued"
    <3>1. i \in DOMAIN scans /\ scans[i].status = "running"
      BY <2>2, HeldRowFacts
    <3>2. CASE FetchMetadata(w)
      BY <1>1, <3>1, <3>2 DEF FetchMetadata, tables, RowMoved, OnlyRow
    <3>3. CASE CommitVersions(w)
      <4>1. worker[w].version \in Versions /\ worker[w].sawRunning
        BY <3>3 DEF CommitVersions, At, RowsInv, VersionHeld
      <4> QED  BY <1>1, <3>1, <3>3, <4>1, RowVersioned DEF CommitVersions, VersionsWritten
    <3>4. CASE SaveResult(w)
      BY <3>4, ResultRow
    <3>5. CASE FailScan(w)
      BY <1>1, <3>1, <3>5, RowFailed DEF FailScan
    <3> QED  BY <1>7, <3>2, <3>3, <3>4, <3>5
  <2> HIDE DEF i
  <2>4. QueuedFor(p)' \subseteq QueuedFor(p)
    BY <2>3 DEF QueuedFor, ScansWith, RowMoved, OnlyRow
  <2> QED  BY <1>3, <2>1, <2>4 DEF ClaimsMove, SameOrMore
<1> QED  BY <1>5, <1>6, <1>7 DEF RowStep

LEMMA ClaimsKept ==
    NoLostRequests /\ LifecycleInv /\ RowsInv /\ ClaimsCounted /\ [Next]_vars => ClaimsCounted'
<1> SUFFICES ASSUME NoLostRequests, LifecycleInv, RowsInv, ClaimsCounted, [Next]_vars,
                    NEW p \in Packages
             PROVE  /\ IsFiniteSet(WaitingFor(p)') /\ IsFiniteSet(ClaimersFor(p)')
                    /\ IsFiniteSet(PublishersFor(p)')
                    /\ Cardinality(QueuedFor(p)') <=
                          Cardinality(WaitingFor(p)') + Cardinality(ClaimersFor(p)')
                          + Cardinality(PublishersFor(p)')
  BY DEF ClaimsCounted, AwaitedClaims
<1>1. NoReportedErrors /\ TypeOK /\ NoFailedPublish
  BY DEF NoLostRequests, LifecycleInv, RowsInv
<1>2. ClaimsMove(p)
  BY <1>1, StepKinds, LocalClaims, RequestClaims, RowClaims
<1>3. /\ IsFiniteSet(WaitingFor(p)) /\ IsFiniteSet(ClaimersFor(p))
      /\ IsFiniteSet(PublishersFor(p))
      /\ Cardinality(QueuedFor(p)) <=
            Cardinality(WaitingFor(p)) + Cardinality(ClaimersFor(p))
            + Cardinality(PublishersFor(p))
  BY DEF ClaimsCounted, AwaitedClaims
<1>4. IsFiniteSet(QueuedFor(p))
  BY TableRowsFinite DEF QueuedFor, LifecycleInv, TypeOK, ScanTable
<1> QED  BY <1>2, <1>3, <1>4, ClaimsBalanced DEF ClaimsMove

LEMMA ClaimsStart == Init => ClaimsCounted
<1> SUFFICES ASSUME Init, NEW p \in Packages
             PROVE  /\ IsFiniteSet(WaitingFor(p)) /\ IsFiniteSet(ClaimersFor(p))
                    /\ IsFiniteSet(PublishersFor(p))
                    /\ Cardinality(QueuedFor(p)) <= AwaitedClaims(p)
  BY DEF ClaimsCounted
<1>1. /\ QueuedFor(p) = {} /\ WaitingFor(p) = {} /\ ClaimersFor(p) = {}
      /\ PublishersFor(p) = {}
  BY DEF Init, Idle, QueuedFor, ScansWith, WaitingFor, ClaimersFor, PublishersFor
<1> QED  BY <1>1, FS_EmptySet DEF AwaitedClaims

(* No queued row is orphaned: for each package there are as many claims to *)
(* come as rows queued, whichever delivery takes whichever row, and        *)
(* although workers die and connections are lost.                          *)
THEOREM QueuedScansAreAwaited ==
    ASSUME NoLostRequests
    PROVE  Spec => []QueuedScansAwaited
<1>1. NoReportedErrors
  BY DEF NoLostRequests
<1>2. ClaimsCounted => QueuedScansAwaited
  BY DEF ClaimsCounted, QueuedScansAwaited, QueuedFor
<1> QED  BY <1>1, <1>2, ClaimsStart, ClaimsKept, RowsInvariant, PTL DEF Spec
=============================================================================
