--------------------------- MODULE UpdateMonitor ---------------------------
(***************************************************************************)
(* The scheduler process: a loop of ticks, each of which checks every      *)
(* package of the list in a coroutine of its own and enqueues the packages *)
(* whose latest version has not been scanned.  A step of a coroutine is    *)
(* what it does between two awaits.                                        *)
(*                                                                         *)
(* The rest of the system is its environment: the registry, and the scan   *)
(* pipeline of ScanLifecycle reduced to what the monitor can see of it,    *)
(* the deliveries to come, the running rows and latest_scanned_version.    *)
(***************************************************************************)
EXTENDS Naturals, FiniteSetsExt

CONSTANTS Packages,     \* the names in the package list
          MaxVersion,   \* versions of a package are 1..MaxVersion
          Concurrency,  \* scheduler_metadata_concurrency
          SkipSettings, \* the values scheduler_skip_running_scans may have
          MaxOpen,      \* bound: a tick starts when fewer scans are open
          MaxFailures   \* bound: failures of every kind altogether

ASSUME MonitorAssumption ==
    /\ IsFiniteSet(Packages)
    /\ MaxVersion \in Nat \ {0}
    /\ Concurrency \in Nat \ {0}
    /\ SkipSettings \subseteq BOOLEAN
    /\ MaxOpen \in Nat
    /\ MaxFailures \in Nat

VARIABLES loop,        \* run_scheduler: "sleep", "tick" or "stopped"
          shutdown,    \* shutdown_requested
          skipRunning, \* the setting, fixed at the start
          permits,     \* the free slots of the semaphore
          check,       \* the coroutine of each package
          result,      \* MonitorUpdatesResult
          registry,    \* dist-tags.latest of each package
          scanned,     \* packages.latest_scanned_version
          requested,   \* deliveries to come for each package
          running,     \* scans under way, by the latest version as they started
          abandoned,   \* packages with a running row that no worker holds
          failuresLeft

monitor  == <<loop, shutdown, skipRunning, permits, check, result>>
pipeline == <<scanned, requested, running, abandoned>>
vars     == <<monitor, registry, pipeline, failuresLeft>>

Versions      == 1 .. MaxVersion
NoVersion     == 0
VersionOrNone == Versions \cup {NoVersion}

CheckPc == {"waiting", "fetching", "loading", "checking", "recording",
            "publishing", "done"}

Counters == {"checked", "new", "updated", "unchanged", "skipped", "failed"}
NoCounts == [c \in Counters |-> 0]

(* `version` is metadata.latest_version and `seen` latest_scanned_version  *)
(* as loaded.                                                              *)
CheckState == [pc : CheckPc, version : VersionOrNone, seen : VersionOrNone]
Waiting    == [pc |-> "waiting", version |-> NoVersion, seen |-> NoVersion]
Finished   == [Waiting EXCEPT !.pc = "done"]

LoopTypeOK ==
    /\ loop \in {"sleep", "tick", "stopped"}
    /\ shutdown \in BOOLEAN
    /\ skipRunning \in SkipSettings

TickTypeOK ==
    /\ permits \in 0 .. Concurrency
    /\ check \in [Packages -> CheckState]
    /\ result \in [Counters -> Nat]

PipelineTypeOK ==
    /\ registry \in [Packages -> Versions]
    /\ scanned \in [Packages -> VersionOrNone]
    /\ requested \in [Packages -> Nat]
    /\ running \in [Packages -> [Versions -> Nat]]
    /\ abandoned \in SUBSET Packages
    /\ failuresLeft \in 0 .. MaxFailures

TypeOK == LoopTypeOK /\ TickTypeOK /\ PipelineTypeOK

Init ==
    /\ loop = "sleep"
    /\ shutdown = FALSE
    /\ skipRunning \in SkipSettings
    /\ permits = Concurrency
    /\ check = [p \in Packages |-> Finished]
    /\ result = NoCounts
    /\ registry = [p \in Packages |-> 1]
    /\ scanned = [p \in Packages |-> NoVersion]
    /\ requested = [p \in Packages |-> 0]
    /\ running = [p \in Packages |-> [v \in Versions |-> 0]]
    /\ abandoned = {}
    /\ failuresLeft = MaxFailures

-----------------------------------------------------------------------------
(* Helpers *)

OpenScans(p)  == requested[p] + MapThenSumSet(LAMBDA v : running[p][v], Versions)
HasRunning(p) == p \in abandoned \/ \E v \in Versions : running[p][v] > 0

(* A package scanned before is never scanned again.                        *)
ClassifyScannedAsUnchanged(seen, version) ==
    IF seen = NoVersion THEN "new" ELSE "unchanged"

(* _classify_update *)
Classify(seen, version) ==
    CASE seen = NoVersion -> "new"
      [] seen \notin {NoVersion, version} -> "updated"
      [] OTHER -> "unchanged"

Failure == failuresLeft > 0 /\ failuresLeft' = failuresLeft - 1

At(p, pc)    == check[p].pc = pc
Goto(p, pc)  == check' = [check EXCEPT ![p].pc = pc]
Finish(p)    == check' = [check EXCEPT ![p] = Finished]
Count(c)     == result' = [result EXCEPT ![c] = @ + 1]
Deliveries(p, n) == requested' = [requested EXCEPT ![p] = @ + n]

-----------------------------------------------------------------------------
(* The loop of run_scheduler and execute_once *)

(* `while True`: the loop does not look at the shutdown request.           *)
StartTickAnyway ==
    /\ loop = "sleep"
    /\ \A p \in Packages : OpenScans(p) < MaxOpen
    /\ loop' = "tick"
    /\ check' = [p \in Packages |-> Waiting]
    /\ permits' = Concurrency
    /\ result' = NoCounts
    /\ UNCHANGED <<shutdown, skipRunning, registry, pipeline, failuresLeft>>

(* A tick begins: one coroutine per package of the list.                   *)
StartTick ==
    /\ loop = "sleep"
    /\ ~shutdown
    /\ \A p \in Packages : OpenScans(p) < MaxOpen
    /\ loop' = "tick"
    /\ check' = [p \in Packages |-> Waiting]
    /\ permits' = Concurrency
    /\ result' = NoCounts
    /\ UNCHANGED <<shutdown, skipRunning, registry, pipeline, failuresLeft>>

(* load_package_names raises: the tick is logged as failed.                *)
ListFails ==
    /\ loop = "sleep"
    /\ ~shutdown
    /\ Failure
    /\ UNCHANGED <<monitor, registry, pipeline>>

(* asyncio.gather returns when every coroutine has.                        *)
EndTick ==
    /\ loop = "tick"
    /\ \A p \in Packages : At(p, "done")
    /\ loop' = "sleep"
    /\ UNCHANGED <<shutdown, skipRunning, permits, check, result,
                   registry, pipeline, failuresLeft>>

(* SIGINT or SIGTERM; a tick under way is finished first.                  *)
RequestShutdown ==
    /\ loop # "stopped"
    /\ ~shutdown
    /\ shutdown' = TRUE
    /\ UNCHANGED <<loop, skipRunning, permits, check, result,
                   registry, pipeline, failuresLeft>>

Stop ==
    /\ loop = "sleep"
    /\ shutdown
    /\ loop' = "stopped"
    /\ UNCHANGED <<shutdown, skipRunning, permits, check, result,
                   registry, pipeline, failuresLeft>>

-----------------------------------------------------------------------------
(* The coroutine of one package: _process_package *)

LoopUnchanged == UNCHANGED <<loop, shutdown, skipRunning>>

(* The coroutine does not wait for a slot.                                 *)
AcquireUnchecked(p) ==
    /\ At(p, "waiting")
    /\ permits' = permits - 1
    /\ Goto(p, "fetching")
    /\ LoopUnchanged
    /\ UNCHANGED <<result, registry, pipeline, failuresLeft>>

(* async with semaphore *)
Acquire(p) ==
    /\ At(p, "waiting")
    /\ permits > 0
    /\ permits' = permits - 1
    /\ Goto(p, "fetching")
    /\ LoopUnchanged
    /\ UNCHANGED <<result, registry, pipeline, failuresLeft>>

(* The slot is not given back.                                             *)
FetchReturnsHolding(p) ==
    /\ At(p, "fetching")
    /\ check' = [check EXCEPT ![p] = [@ EXCEPT !.pc = "loading", !.version = registry[p]]]
    /\ Count("checked")
    /\ LoopUnchanged
    /\ UNCHANGED <<permits, registry, pipeline, failuresLeft>>

(* fetch_metadata returns, and the slot is released.                       *)
FetchReturns(p) ==
    /\ At(p, "fetching")
    /\ permits' = permits + 1
    /\ check' = [check EXCEPT ![p] = [@ EXCEPT !.pc = "loading", !.version = registry[p]]]
    /\ Count("checked")
    /\ LoopUnchanged
    /\ UNCHANGED <<registry, pipeline, failuresLeft>>

(* The slot is not given back on an error.                                 *)
FetchFailsHolding(p) ==
    /\ At(p, "fetching")
    /\ Failure
    /\ Finish(p)
    /\ Count("failed")
    /\ LoopUnchanged
    /\ UNCHANGED <<permits, registry, pipeline>>

(* fetch_metadata raises; `async with` releases the slot all the same.     *)
FetchFails(p) ==
    /\ At(p, "fetching")
    /\ Failure
    /\ permits' = permits + 1
    /\ Finish(p)
    /\ Count("failed")
    /\ LoopUnchanged
    /\ UNCHANGED <<registry, pipeline>>

(* load_package_scan_state returns.                                        *)
LoadState(p) ==
    /\ At(p, "loading")
    /\ IF Classify(scanned[p], check[p].version) = "unchanged"
       THEN /\ Count("unchanged")
            /\ Finish(p)
       ELSE /\ check' = [check EXCEPT ![p] =
                            [@ EXCEPT !.pc = IF skipRunning THEN "checking" ELSE "recording",
                                      !.seen = scanned[p]]]
            /\ UNCHANGED result
    /\ LoopUnchanged
    /\ UNCHANGED <<permits, registry, pipeline, failuresLeft>>

(* The package is counted as skipped and enqueued none the less.           *)
CheckRunningWithoutReturn(p) ==
    /\ At(p, "checking")
    /\ Goto(p, "recording")
    /\ IF HasRunning(p) THEN Count("skipped") ELSE UNCHANGED result
    /\ LoopUnchanged
    /\ UNCHANGED <<permits, registry, pipeline, failuresLeft>>

(* has_running_scan returns.                                               *)
CheckRunning(p) ==
    /\ At(p, "checking")
    /\ IF HasRunning(p)
       THEN /\ Count("skipped")
            /\ Finish(p)
       ELSE /\ Goto(p, "recording")
            /\ UNCHANGED result
    /\ LoopUnchanged
    /\ UNCHANGED <<permits, registry, pipeline, failuresLeft>>

(* The transaction of EnqueueScanUseCase.execute commits ...               *)
RecordRequest(p) ==
    /\ At(p, "recording")
    /\ Goto(p, "publishing")
    /\ LoopUnchanged
    /\ UNCHANGED <<permits, result, registry, pipeline, failuresLeft>>

(* ... and the message is published, with no await before the counting.    *)
Publish(p) ==
    /\ At(p, "publishing")
    /\ Deliveries(p, 1)
    /\ Count(Classify(check[p].seen, check[p].version))
    /\ Finish(p)
    /\ LoopUnchanged
    /\ UNCHANGED <<permits, registry, scanned, running, abandoned, failuresLeft>>

(* A query, the transaction or the publication raises.  A publication that *)
(* raised may have reached the broker.                                     *)
CheckFails(p) ==
    /\ check[p].pc \in {"loading", "checking", "recording", "publishing"}
    /\ Failure
    /\ \/ UNCHANGED requested
       \/ At(p, "publishing") /\ Deliveries(p, 1)
    /\ Count("failed")
    /\ Finish(p)
    /\ LoopUnchanged
    /\ UNCHANGED <<permits, registry, scanned, running, abandoned>>

-----------------------------------------------------------------------------
(* The environment *)

(* A new version becomes the latest.                                       *)
Release(p) ==
    /\ registry[p] < MaxVersion
    /\ registry' = [registry EXCEPT ![p] = @ + 1]
    /\ UNCHANGED <<monitor, pipeline, failuresLeft>>

(* ClaimScan of ScanLifecycle.                                             *)
StartScan(p) ==
    /\ requested[p] > 0
    /\ requested' = [requested EXCEPT ![p] = @ - 1]
    /\ running' = [running EXCEPT ![p][registry[p]] = @ + 1]
    /\ UNCHANGED <<monitor, registry, scanned, abandoned, failuresLeft>>

(* SaveResult of ScanLifecycle.  The scan fetched its metadata at some     *)
(* time since it started, and saw the version that was the latest then.    *)
CompleteScan(p, v) ==
    /\ running[p][v] > 0
    /\ running' = [running EXCEPT ![p][v] = @ - 1]
    /\ \E fetched \in v .. registry[p] : scanned' = [scanned EXCEPT ![p] = fetched]
    /\ UNCHANGED <<monitor, registry, requested, abandoned, failuresLeft>>

(* ScanStepFails and FailScan of ScanLifecycle, with or without a retry.   *)
FailScan(p, v) ==
    /\ running[p][v] > 0
    /\ Failure
    /\ running' = [running EXCEPT ![p][v] = @ - 1]
    /\ UNCHANGED requested \/ Deliveries(p, 1)
    /\ UNCHANGED <<monitor, registry, scanned, abandoned>>

(* WorkerDies of ScanLifecycle: the message goes back to the queue, the    *)
(* row stays running.                                                      *)
LoseScan(p, v) ==
    /\ running[p][v] > 0
    /\ Failure
    /\ running' = [running EXCEPT ![p][v] = @ - 1]
    /\ Deliveries(p, 1)
    /\ abandoned' = abandoned \cup {p}
    /\ UNCHANGED <<monitor, registry, scanned>>

-----------------------------------------------------------------------------
CheckStep(p) ==
    \/ Acquire(p) \/ FetchReturns(p) \/ LoadState(p) \/ CheckRunning(p)
    \/ RecordRequest(p) \/ Publish(p)

AtRest ==
    /\ loop = "stopped"
    /\ \A p \in Packages : OpenScans(p) = 0 /\ registry[p] = MaxVersion
    /\ UNCHANGED vars

Next ==
    \/ StartTick \/ ListFails \/ EndTick \/ RequestShutdown \/ Stop
    \/ \E p \in Packages :
          \/ CheckStep(p) \/ FetchFails(p) \/ CheckFails(p)
          \/ Release(p) \/ StartScan(p)
          \/ \E v \in Versions : CompleteScan(p, v) \/ FailScan(p, v) \/ LoseScan(p, v)
    \/ AtRest

Spec == Init /\ [][Next]_vars

(* The interval elapses, every await of a tick returns (each has a         *)
(* timeout), and the pipeline carries out what it has been asked.          *)
Fairness ==
    /\ WF_vars(StartTick) /\ WF_vars(EndTick) /\ WF_vars(Stop)
    /\ \A p \in Packages :
          /\ WF_vars(CheckStep(p))
          /\ WF_vars(StartScan(p))
          /\ \A v \in Versions : WF_vars(CompleteScan(p, v))

FairSpec == Spec /\ Fairness
-----------------------------------------------------------------------------
(* Every package of the list is counted exactly once as it finishes,       *)
(* whatever fails: "one package's failure" is one failed_count, and the    *)
(* checked ones are those whose metadata arrived.                          *)
Decided == result["new"] + result["updated"] + result["unchanged"] + result["skipped"]

CountersAddUp ==
    /\ loop = "tick" =>
          Decided + result["failed"] = Cardinality({p \in Packages : At(p, "done")})
    /\ result["checked"] >= Decided

(* Metadata is fetched for at most `Concurrency` packages at a time, and   *)
(* no slot is lost when a fetch raises: "Concurrency must be bounded with  *)
(* a semaphore" (PROJECT_PLAN.md:983).                                     *)
SlotsConserved ==
    permits + Cardinality({p \in Packages : At(p, "fetching")}) = Concurrency

(* A tick never hangs, and a shutdown request ends the scheduler.          *)
TickEnds      == loop = "tick" ~> loop = "sleep"
ShutdownStops == shutdown ~> loop = "stopped"

(* Once versions stop appearing, the monitor brings every package to its   *)
(* latest version, even though scans finish out of order and overwrite     *)
(* latest_scanned_version with an older one; and then it asks for no more  *)
(* scans ("Scheduler does not enqueue unchanged packages repeatedly",      *)
(* PROJECT_PLAN.md:994).  Not claimed for a package that the setting makes *)
(* it skip because of an abandoned running row.  The environment starts    *)
(* the scan of every request that was published, and ends it unless its    *)
(* worker is lost; a delivery that ends without a claim is not in it.      *)
EventuallyScanned ==
    <>[](\A p \in Packages :
            \/ shutdown
            \/ skipRunning /\ p \in abandoned
            \/ scanned[p] = registry[p] /\ OpenScans(p) = 0)

(* "Scheduler enqueues updated packages." (PROJECT_PLAN.md:993), without   *)
(* that exception.                                                         *)
UpdatesAreScanned ==
    <>[](\A p \in Packages : shutdown \/ scanned[p] = registry[p])
=============================================================================
