------------------------------- MODULE Batch -------------------------------
(***************************************************************************)
(* One batch of scan requests: the most used packages are loaded from a    *)
(* list and requested one after the other.  It runs in the API process     *)
(* (POST /scan-batches) or as the Celery task enqueue_top_packages, which  *)
(* has a queue_jobs row of its own and is delivered again when its worker  *)
(* dies.  The rows go to the tables of Catalogue.                          *)
(***************************************************************************)
EXTENDS Catalogue, Functions

CONSTANTS Contents,       \* what the list may say: sequences of entries
          InvalidNames,   \* names the npm pattern does not match
          Blank,          \* an entry that is empty once decoded
          Limits,         \* the limits a batch may be given
          MaxDeliveries   \* bound: deliveries of the batch task

Entries == Packages \cup InvalidNames \cup {Blank}

ASSUME BatchAssumption ==
    /\ Contents \subseteq Seq(Entries)
    /\ Limits \subseteq Nat
    /\ MaxDeliveries \in Nat \ {0}
    /\ Packages \cap InvalidNames = {}
    /\ Blank \notin Packages \cup InvalidNames

VARIABLES batch,      \* where the batch is
          origin,     \* "route" or "task"
          ownId,      \* was the task sent with a task_id argument?
          deliveries, \* of the task so far
          batchJobs,  \* queue_jobs rows of the batch, by id
          names,      \* package_names
          position,   \* of the next name
          enqueued, skipped,
          sentNow,    \* messages published by this execution
          recorded,   \* ids of the scan_results rows it has recorded
          sent        \* messages published by all executions, in order

job       == <<origin, ownId, deliveries, batchJobs>>
loop      == <<names, position, enqueued, skipped, sentNow>>
batchVars == <<batch, job, loop, recorded, sent>>

Ended == {"completed", "failed", "unsettled", "lost"}

BatchTypeOK ==
    /\ batch \in {"asked", "loading", "loop", "publish", "record_failure",
                  "completing", "failing"} \cup Ended
    /\ origin \in {"route", "task"} /\ ownId \in BOOLEAN
    /\ deliveries \in 0 .. MaxDeliveries
    /\ batchJobs \in [1 .. MaxDeliveries -> QueueJobStatus]
    /\ names \in Seq(Packages \cup InvalidNames)
    /\ position \in Nat /\ enqueued \in Nat /\ skipped \in Nat
    /\ sentNow \in Seq(Packages)
    /\ recorded \subseteq DOMAIN scans
    /\ sent \in Seq(Packages)

NotLooping ==
    names = <<>> /\ position = 1 /\ enqueued = 0 /\ skipped = 0 /\ sentNow = <<>>

BatchInit ==
    /\ batch = "asked"
    /\ origin \in {"route", "task"} /\ ownId \in BOOLEAN
    /\ deliveries = 0
    /\ batchJobs = [t \in 1 .. MaxDeliveries |-> "none"]
    /\ NotLooping
    /\ recorded = {}
    /\ sent = <<>>

-----------------------------------------------------------------------------
(* The package list *)

(* Mutant: names are kept as often as they are listed.                     *)
ListedAgain(content) == SelectSeq(content, LAMBDA e : e # Blank)

(* The names listed after each entry, each where it comes first.           *)
ListedAfter(content) ==
    LET listed[n \in 0 .. Len(content)] ==
            IF n = 0 THEN <<>>
            ELSE IF content[n] = Blank \/ content[n] \in Range(listed[n - 1])
                 THEN listed[n - 1]
                 ELSE Append(listed[n - 1], content[n])
    IN  listed

Listed(content) == ListedAfter(content)[Len(content)]

Cut(s, limit) == SubSeq(s, 1, IF limit < Len(s) THEN limit ELSE Len(s))

-----------------------------------------------------------------------------
(* Mutant: the task_id argument is not used.                               *)
JobIdOfDelivery(delivery) == delivery

(* The queue_jobs row of the task.  A task sent without a task_id argument *)
(* makes up an id in every delivery; the producer sets the id of the       *)
(* message only, which this task does not look at.                         *)
JobId(delivery) == IF ownId THEN 1 ELSE delivery

JobMarkedRunning(jobs, t) == MarkQueueJobRunning(CreateQueueJob(jobs, t), t)

StartRoute ==
    /\ origin = "route" /\ batch = "asked"
    /\ batch' = "loading"
    /\ UNCHANGED <<job, loop, recorded, sent, tables>>

StartTask ==
    /\ origin = "task" /\ batch = "asked"
    /\ deliveries < MaxDeliveries
    /\ deliveries' = deliveries + 1
    /\ \/ /\ batch' = "loading"
          /\ batchJobs' = JobMarkedRunning(batchJobs, JobId(deliveries'))
       \/ batch' = "unsettled" /\ UNCHANGED batchJobs   \* a database error
    /\ UNCHANGED <<origin, ownId, loop, recorded, sent, tables>>

(* A timeout, an error status, or a text without a name.                   *)
LoadFails ==
    /\ batch = "loading"
    /\ batch' = "failing"
    /\ UNCHANGED <<job, loop, recorded, sent, tables>>

LoadNames ==
    /\ batch = "loading"
    /\ \E content \in Contents, limit \in Limits :
          IF Listed(content) = <<>>
          THEN batch' = "failing" /\ UNCHANGED names
          ELSE batch' = "loop" /\ names' = Cut(Listed(content), limit)
    /\ UNCHANGED <<job, position, enqueued, skipped, sentNow, recorded, sent,
                   tables>>

-----------------------------------------------------------------------------
(* The loop *)

AtName(N) == batch = "loop" /\ position <= Len(names) /\ names[position] \in N

(* The ValueError of an invalid name is the one exception the loop takes.  *)
SkipName ==
    /\ AtName(InvalidNames)
    /\ skipped' = skipped + 1
    /\ position' = position + 1
    /\ UNCHANGED <<batch, job, names, enqueued, sentNow, recorded, sent, tables>>

RecordName ==
    /\ AtName(Packages)
    /\ RecordRequest(names[position])
    /\ recorded' = recorded \cup {Len(scans')}
    /\ batch' = "publish"
    /\ UNCHANGED <<job, loop, sent>>

(* A database error; nothing is recorded.                                  *)
RecordFails ==
    /\ AtName(Packages)
    /\ batch' = "failing"
    /\ UNCHANGED <<job, loop, recorded, sent, tables>>

PublishName ==
    /\ batch = "publish"
    /\ batch' = "loop"
    /\ enqueued' = enqueued + 1
    /\ position' = position + 1
    /\ sentNow' = Append(sentNow, names[position])
    /\ sent' = Append(sent, names[position])
    /\ UNCHANGED <<job, names, skipped, recorded, tables>>

(* Mutant: the loop goes on with the next name.                            *)
PublishFailsAndContinues ==
    /\ batch = "publish"
    /\ batch' = "loop"
    /\ position' = position + 1
    /\ UNCHANGED <<job, names, enqueued, skipped, sentNow, recorded, sent,
                   tables>>

PublishFails ==
    /\ batch = "publish"
    /\ batch' = "record_failure"
    /\ UNCHANGED <<job, loop, recorded, sent, tables>>

(* mark_scan_failed leaves the queued row as it is, see ScanLifecycle;     *)
(* with or without a database error, the exception goes up.                *)
RecordPublishFailure ==
    /\ batch = "record_failure"
    /\ batch' = "failing"
    /\ UNCHANGED <<job, loop, recorded, sent, tables>>

EndLoop ==
    /\ batch = "loop" /\ position > Len(names)
    /\ batch' = "completing"
    /\ UNCHANGED <<job, loop, recorded, sent, tables>>

-----------------------------------------------------------------------------
(* The answer of the route, or the end of the task, which writes its row   *)
(* first; a database error there leaves the row as it was.                 *)
Settle(ok) ==
    /\ batch = IF ok THEN "completing" ELSE "failing"
    /\ \/ /\ batch' = IF ok THEN "completed" ELSE "failed"
          /\ batchJobs' = CASE origin = "route" -> batchJobs
                            [] ok -> MarkQueueJobCompleted(batchJobs, JobId(deliveries))
                            [] OTHER -> MarkQueueJobFailed(batchJobs, JobId(deliveries))
       \/ origin = "task" /\ batch' = "unsettled" /\ UNCHANGED batchJobs
    /\ UNCHANGED <<origin, ownId, deliveries, loop, recorded, sent, tables>>

(* The process dies.  The message of a task is acknowledged after its end, *)
(* and is delivered again; a request is gone.                              *)
ProcessDies ==
    /\ batch # "asked" /\ (origin = "route" => batch \notin Ended)
    /\ deliveries < MaxDeliveries
    /\ batch' = IF origin = "task" THEN "asked" ELSE "lost"
    /\ names' = <<>> /\ position' = 1
    /\ enqueued' = 0 /\ skipped' = 0 /\ sentNow' = <<>>
    /\ UNCHANGED <<job, recorded, sent, tables>>

BatchStep ==
    \/ StartRoute \/ StartTask \/ LoadNames \/ LoadFails
    \/ SkipName \/ RecordName \/ RecordFails
    \/ PublishName \/ PublishFails \/ RecordPublishFailure
    \/ EndLoop \/ Settle(TRUE) \/ Settle(FALSE) \/ ProcessDies
-----------------------------------------------------------------------------
(* What a batch has requested at any point of an execution is what comes   *)
(* first on its list, in that order, each name once, without the invalid   *)
(* ones; one that completes has gone through all of them, and its numbers  *)
(* say so.                                                                 *)
BatchWhole ==
    /\ IsInjective(sentNow)
    /\ Range(sentNow) = {names[i] : i \in 1 .. position - 1} \cap Packages
    /\ \A i, j \in 1 .. position - 1 : \A k, l \in DOMAIN sentNow :
          sentNow[k] = names[i] /\ sentNow[l] = names[j] /\ i < j => k < l
    /\ batch = "completed" => /\ position = Len(names) + 1
                              /\ enqueued = Len(sentNow)
                              /\ enqueued + skipped = Len(names)

MessagesFor(p) == {k \in DOMAIN sent : sent[k] = p}
RowsFor(p)     == {i \in recorded : scans[i].pkg = p}
Executions     == IF origin = "route" THEN 1 ELSE deliveries

(* Every message published has a row of its own to claim; and whatever     *)
(* fails or dies, an execution leaves at most one row without its message. *)
MessagesMatchRows ==
    /\ \A p \in Packages : Cardinality(MessagesFor(p)) <= Cardinality(RowsFor(p))
    /\ Cardinality(recorded) <= Len(sent) + Executions

(* When a batch sent with an id of its own has settled, it has left no     *)
(* queue_jobs row open: a redelivery takes up the row of the first         *)
(* delivery.  Not claimed of an execution that a write of its own row      *)
(* ends, be it the one that marks it running, which is outside of the try  *)
(* (tasks.py:158), or the one that settles it.                             *)
BatchRowAwaited ==
    origin = "task" /\ ownId /\ batch \in {"completed", "failed"}
    => \A t \in DOMAIN batchJobs : batchJobs[t] \notin {"queued", "running"}
=============================================================================
