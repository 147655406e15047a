------------------------ MODULE UpdateMonitorProofs ------------------------
(***************************************************************************)
(* Types, slots and counters of UpdateMonitor, for any finite package      *)
(* list, any concurrency and any number of failures.                       *)
(***************************************************************************)
EXTENDS UpdateMonitor, FiniteSetTheorems, TLAPS

(* The coroutines of f that are at one of the places pcs.                  *)
Doing(f, pcs) == {p \in Packages : f[p].pc \in pcs}

(* The coroutines whose metadata has arrived and that are not decided.     *)
Checked == {"loading", "checking", "recording", "publishing"}

(* In g the coroutine of p is at c, and the others are where f has them.   *)
Moves(f, p, c, g) == g = [f EXCEPT ![p] = c]

(* Outside a tick no coroutine is left.                                    *)
IdleBetweenTicks == loop # "tick" => \A p \in Packages : At(p, "done")

SlotsAccounted   == permits + Cardinality(Doing(check, {"fetching"})) = Concurrency
DoneAccounted    == loop = "tick" =>
                       Decided + result["failed"] = Cardinality(Doing(check, {"done"}))
CheckedAccounted == result["checked"] >= Decided + Cardinality(Doing(check, Checked))

MonitorInv ==
    /\ TypeOK
    /\ IdleBetweenTicks
    /\ SlotsAccounted
    /\ DoneAccounted
    /\ CheckedAccounted

-----------------------------------------------------------------------------
(* Counting coroutines *)

LEMMA DoingFinite ==
    ASSUME NEW f, NEW pcs
    PROVE  /\ IsFiniteSet(Doing(f, pcs))
           /\ Cardinality(Doing(f, pcs)) \in Nat
  <1>1. Doing(f, pcs) \subseteq Packages
    BY DEF Doing
  <1> QED
    BY <1>1, FS_Subset, FS_CardinalityType, MonitorAssumption

(* A coroutine that moves leaves and enters the sets of its places only.   *)
LEMMA DoingMoves ==
    ASSUME NEW f \in [Packages -> CheckState], NEW p \in Packages,
           NEW c \in CheckState, NEW g, Moves(f, p, c, g), NEW pcs
    PROVE  /\ f[p].pc \notin pcs /\ c.pc \in pcs =>
                 Cardinality(Doing(g, pcs)) = Cardinality(Doing(f, pcs)) + 1
           /\ f[p].pc \in pcs /\ c.pc \notin pcs =>
                 Cardinality(Doing(g, pcs)) = Cardinality(Doing(f, pcs)) - 1
           /\ (f[p].pc \in pcs <=> c.pc \in pcs) =>
                 Cardinality(Doing(g, pcs)) = Cardinality(Doing(f, pcs))
  <1>1. IsFiniteSet(Doing(f, pcs))
    BY DoingFinite
  <1>2. ASSUME f[p].pc \notin pcs, c.pc \in pcs
        PROVE  Cardinality(Doing(g, pcs)) = Cardinality(Doing(f, pcs)) + 1
    <2>1. Doing(g, pcs) = Doing(f, pcs) \cup {p} /\ p \notin Doing(f, pcs)
      BY <1>2 DEF Doing, Moves
    <2> QED
      BY <1>1, <2>1, FS_AddElement
  <1>3. ASSUME f[p].pc \in pcs, c.pc \notin pcs
        PROVE  Cardinality(Doing(g, pcs)) = Cardinality(Doing(f, pcs)) - 1
    <2>1. Doing(g, pcs) = Doing(f, pcs) \ {p} /\ p \in Doing(f, pcs)
      BY <1>3 DEF Doing, Moves
    <2> QED
      BY <1>1, <2>1, FS_RemoveElement
  <1>4. ASSUME f[p].pc \in pcs <=> c.pc \in pcs
        PROVE  Doing(g, pcs) = Doing(f, pcs)
    BY <1>4 DEF Doing, Moves
  <1> QED
    BY <1>2, <1>3, <1>4

(* A table in which everyone is at one place.                              *)
LEMMA DoingUniform ==
    ASSUME NEW f, NEW pc, \A p \in Packages : f[p].pc = pc, NEW pcs, pc \notin pcs
    PROVE  Cardinality(Doing(f, pcs)) = 0
  <1>1. Doing(f, pcs) = {}
    BY DEF Doing
  <1> QED
    BY <1>1, FS_EmptySet

LEMMA ConstantNumbers ==
    /\ MaxVersion \in Nat \ {0}
    /\ Concurrency \in Nat \ {0}
    /\ MaxFailures \in Nat
  BY MonitorAssumption

(* While one coroutine fetches, a slot is in use.                          *)
LEMMA SlotsOfFetching ==
    ASSUME TickTypeOK, SlotsAccounted, NEW p \in Packages, At(p, "fetching")
    PROVE  permits + 1 \in 0 .. Concurrency
  <1> DEFINE n == Cardinality(Doing(check, {"fetching"}))
  <1>1. p \in Doing(check, {"fetching"})
    BY DEF At, Doing
  <1>2. IsFiniteSet(Doing(check, {"fetching"})) /\ n \in Nat
    BY DoingFinite
  <1>3. n # 0
    BY <1>1, <1>2, FS_EmptySet
  <1>4. permits + n = Concurrency /\ permits \in 0 .. Concurrency
    BY DEF TickTypeOK, SlotsAccounted
  <1> HIDE DEF n
  <1> QED
    BY <1>2, <1>3, <1>4, ConstantNumbers

-----------------------------------------------------------------------------
(* Types *)

LEMMA WaitingIsCheckState == Waiting \in CheckState /\ Finished \in CheckState
  BY DEF Waiting, Finished, CheckState, CheckPc, VersionOrNone

LEMMA InitTypeOK == Init => TypeOK
  <1> SUFFICES ASSUME Init PROVE TypeOK
    OBVIOUS
  <1>1. LoopTypeOK
    BY Zenon DEF Init, LoopTypeOK
  <1>2. TickTypeOK
    BY WaitingIsCheckState, ConstantNumbers DEF Init, NoCounts, TickTypeOK
  <1>3. PipelineTypeOK
    BY ConstantNumbers DEF Init, Versions, VersionOrNone, PipelineTypeOK
  <1> QED
    BY <1>1, <1>2, <1>3 DEF TypeOK

(* What a step of a coroutine may write keeps its type.                    *)
LEMMA FinishType ==
    ASSUME TickTypeOK, NEW p \in Packages, Finish(p)
    PROVE  check' \in [Packages -> CheckState]
  BY WaitingIsCheckState DEF TickTypeOK, Finish

LEMMA GotoType ==
    ASSUME TickTypeOK, NEW p \in Packages, NEW pc \in CheckPc, Goto(p, pc)
    PROVE  check' \in [Packages -> CheckState]
  BY DEF TickTypeOK, Goto, CheckState

LEMMA CountType ==
    ASSUME TickTypeOK, NEW c \in Counters, Count(c)
    PROVE  result' \in [Counters -> Nat]
  BY DEF TickTypeOK, Count

LEMMA DeliveriesType ==
    ASSUME PipelineTypeOK, NEW p \in Packages, NEW n \in Nat, Deliveries(p, n)
    PROVE  requested' \in [Packages -> Nat]
  BY DEF PipelineTypeOK, Deliveries

LEMMA ScanEndsType ==
    ASSUME PipelineTypeOK, NEW p \in Packages, NEW v \in Versions,
           running[p][v] > 0, running' = [running EXCEPT ![p][v] = @ - 1]
    PROVE  running' \in [Packages -> [Versions -> Nat]]
  <1>1. running[p][v] - 1 \in Nat
    BY DEF PipelineTypeOK
  <1> QED
    BY <1>1 DEF PipelineTypeOK

LEMMA FailureType ==
    ASSUME PipelineTypeOK, Failure
    PROVE  failuresLeft' \in 0 .. MaxFailures
  BY ConstantNumbers DEF PipelineTypeOK, Failure

LEMMA VersionTypes ==
    ASSUME PipelineTypeOK, NEW p \in Packages
    PROVE  registry[p] \in VersionOrNone /\ scanned[p] \in VersionOrNone
  BY DEF PipelineTypeOK, VersionOrNone

LEMMA ClassifyType ==
    ASSUME NEW seen, NEW version
    PROVE  Classify(seen, version) \in {"new", "updated", "unchanged"}
  BY DEF Classify

(* The loop's own state is not written by the coroutines nor by the        *)
(* environment.                                                            *)
LEMMA StepLoopTypeOK ==
    ASSUME LoopTypeOK, [Next]_vars
    PROVE  LoopTypeOK'
  <1>1. CASE UNCHANGED <<loop, shutdown, skipRunning>>
    BY <1>1 DEF LoopTypeOK
  <1>2. CASE StartTick \/ EndTick \/ RequestShutdown \/ Stop
    BY <1>2, Zenon DEF StartTick, EndTick, RequestShutdown, Stop, LoopTypeOK
  <1>3. CASE ListFails
    BY <1>1, <1>3 DEF ListFails, monitor
  <1>4. ASSUME NEW p \in Packages, CheckStep(p) \/ FetchFails(p) \/ CheckFails(p)
        PROVE  LoopTypeOK'
    BY <1>1, <1>4 DEF CheckStep, Acquire, FetchReturns, LoadState, CheckRunning,
       RecordRequest, Publish, FetchFails, CheckFails, LoopUnchanged
  <1>5. ASSUME NEW p \in Packages, Release(p) \/ StartScan(p)
        PROVE  LoopTypeOK'
    BY <1>1, <1>5 DEF Release, StartScan, monitor
  <1>6. ASSUME NEW p \in Packages, NEW v \in Versions,
               CompleteScan(p, v) \/ FailScan(p, v) \/ LoseScan(p, v)
        PROVE  LoopTypeOK'
    BY <1>1, <1>6 DEF CompleteScan, FailScan, LoseScan, monitor
  <1> QED
    BY <1>1, <1>2, <1>3, <1>4, <1>5, <1>6 DEF Next, AtRest, vars, monitor

LEMMA StepTickTypeOK ==
    ASSUME TickTypeOK, PipelineTypeOK, SlotsAccounted, [Next]_vars
    PROVE  TickTypeOK'
  <1>1. CASE UNCHANGED <<permits, check, result>>
    BY <1>1 DEF TickTypeOK
  <1>2. CASE StartTick
    BY <1>2, WaitingIsCheckState, ConstantNumbers DEF StartTick, NoCounts, TickTypeOK
  <1>3. CASE ListFails \/ EndTick \/ RequestShutdown \/ Stop
    BY <1>1, <1>3 DEF ListFails, EndTick, RequestShutdown, Stop, monitor
  <1>4. ASSUME NEW p \in Packages, CheckStep(p) \/ FetchFails(p) \/ CheckFails(p)
        PROVE  TickTypeOK'
    <2>1. CASE Acquire(p)
      <3>1. check' \in [Packages -> CheckState]
        BY <2>1, GotoType DEF Acquire, CheckPc
      <3>2. permits' \in 0 .. Concurrency
        BY <2>1, ConstantNumbers DEF Acquire, TickTypeOK
      <3> QED
        BY <2>1, <3>1, <3>2 DEF Acquire, TickTypeOK
    <2>2. CASE FetchReturns(p)
      <3>1. check' \in [Packages -> CheckState]
        BY <2>2, VersionTypes DEF FetchReturns, TickTypeOK, CheckState, CheckPc
      <3>2. result' \in [Counters -> Nat]
        BY <2>2, CountType DEF FetchReturns, Counters
      <3> QED
        BY <2>2, <3>1, <3>2, SlotsOfFetching DEF FetchReturns, TickTypeOK
    <2>3. CASE FetchFails(p)
      <3>1. result' \in [Counters -> Nat]
        BY <2>3, CountType DEF FetchFails, Counters
      <3> QED
        BY <2>3, <3>1, FinishType, SlotsOfFetching DEF FetchFails, TickTypeOK
    <2>4. CASE LoadState(p)
      <3>1. check' \in [Packages -> CheckState]
        <4>1. CASE Finish(p)
          BY <4>1, FinishType
        <4>2. CASE check' = [check EXCEPT ![p] =
                     [@ EXCEPT !.pc = IF skipRunning THEN "checking" ELSE "recording",
                               !.seen = scanned[p]]]
          BY <4>2, VersionTypes DEF TickTypeOK, CheckState, CheckPc
        <4> QED
          BY <2>4, <4>1, <4>2 DEF LoadState
      <3>2. result' \in [Counters -> Nat]
        BY <2>4, CountType DEF LoadState, TickTypeOK, Counters
      <3> QED
        BY <2>4, <3>1, <3>2 DEF LoadState, TickTypeOK
    <2>5. CASE CheckRunning(p)
      <3>1. check' \in [Packages -> CheckState]
        BY <2>5, FinishType, GotoType DEF CheckRunning, CheckPc
      <3>2. result' \in [Counters -> Nat]
        BY <2>5, CountType DEF CheckRunning, TickTypeOK, Counters
      <3> QED
        BY <2>5, <3>1, <3>2 DEF CheckRunning, TickTypeOK
    <2>6. CASE RecordRequest(p)
      <3>1. check' \in [Packages -> CheckState]
        BY <2>6, GotoType DEF RecordRequest, CheckPc
      <3> QED
        BY <2>6, <3>1 DEF RecordRequest, TickTypeOK
    <2>7. CASE Publish(p)
      <3>1. Classify(check[p].seen, check[p].version) \in Counters
        BY ClassifyType DEF Counters
      <3>2. result' \in [Counters -> Nat]
        BY <2>7, <3>1, CountType DEF Publish
      <3> QED
        BY <2>7, <3>2, FinishType DEF Publish, TickTypeOK
    <2>8. CASE CheckFails(p)
      <3>1. result' \in [Counters -> Nat]
        BY <2>8, CountType DEF CheckFails, Counters
      <3> QED
        BY <2>8, <3>1, FinishType DEF CheckFails, TickTypeOK
    <2> QED
      BY <1>4, <2>1, <2>2, <2>3, <2>4, <2>5, <2>6, <2>7, <2>8 DEF CheckStep
  <1>5. ASSUME NEW p \in Packages, Release(p) \/ StartScan(p)
        PROVE  TickTypeOK'
    BY <1>1, <1>5 DEF Release, StartScan, monitor
  <1>6. ASSUME NEW p \in Packages, NEW v \in Versions,
               CompleteScan(p, v) \/ FailScan(p, v) \/ LoseScan(p, v)
        PROVE  TickTypeOK'
    BY <1>1, <1>6 DEF CompleteScan, FailScan, LoseScan, monitor
  <1> QED
    BY <1>1, <1>2, <1>3, <1>4, <1>5, <1>6 DEF Next, AtRest, vars, monitor

LEMMA StepPipelineTypeOK ==
    ASSUME PipelineTypeOK, [Next]_vars
    PROVE  PipelineTypeOK'
  <1>1. CASE UNCHANGED <<registry, pipeline, failuresLeft>>
    BY <1>1 DEF PipelineTypeOK, pipeline
  <1>2. CASE StartTick \/ EndTick \/ RequestShutdown \/ Stop
    BY <1>1, <1>2 DEF StartTick, EndTick, RequestShutdown, Stop
  <1>3. CASE ListFails
    BY <1>3, FailureType DEF ListFails, PipelineTypeOK, pipeline
  <1>4. ASSUME NEW p \in Packages, CheckStep(p) \/ FetchFails(p) \/ CheckFails(p)
        PROVE  PipelineTypeOK'
    <2>1. CASE \/ Acquire(p) \/ FetchReturns(p) \/ LoadState(p) \/ CheckRunning(p)
               \/ RecordRequest(p)
      BY <1>1, <2>1 DEF Acquire, FetchReturns, LoadState, CheckRunning, RecordRequest
    <2>2. CASE Publish(p)
      BY <2>2, DeliveriesType DEF Publish, PipelineTypeOK
    <2>3. CASE FetchFails(p)
      BY <2>3, FailureType DEF FetchFails, PipelineTypeOK, pipeline
    <2>4. CASE CheckFails(p)
      <3>1. requested' \in [Packages -> Nat]
        BY <2>4, DeliveriesType DEF CheckFails, PipelineTypeOK
      <3> QED
        BY <2>4, <3>1, FailureType DEF CheckFails, PipelineTypeOK
    <2> QED
      BY <1>4, <2>1, <2>2, <2>3, <2>4 DEF CheckStep
  <1>5. ASSUME NEW p \in Packages, Release(p)
        PROVE  PipelineTypeOK'
    <2>1. registry[p] + 1 \in Versions
      BY <1>5, ConstantNumbers DEF Release, PipelineTypeOK, Versions
    <2>2. registry' \in [Packages -> Versions]
      BY <1>5, <2>1 DEF Release, PipelineTypeOK
    <2> QED
      BY <1>5, <2>2 DEF Release, PipelineTypeOK, pipeline
  <1>6. ASSUME NEW p \in Packages, StartScan(p)
        PROVE  PipelineTypeOK'
    <2>1. requested' \in [Packages -> Nat]
      BY <1>6 DEF StartScan, PipelineTypeOK
    <2>2. running' \in [Packages -> [Versions -> Nat]]
      BY <1>6 DEF StartScan, PipelineTypeOK
    <2> QED
      BY <1>6, <2>1, <2>2 DEF StartScan, PipelineTypeOK
  <1>7. ASSUME NEW p \in Packages, NEW v \in Versions,
               CompleteScan(p, v) \/ FailScan(p, v) \/ LoseScan(p, v)
        PROVE  PipelineTypeOK'
    <2>1. running' \in [Packages -> [Versions -> Nat]]
      BY <1>7, ScanEndsType DEF CompleteScan, FailScan, LoseScan
    <2>2. CASE CompleteScan(p, v)
      <3>1. PICK fetched \in v .. registry[p] : scanned' = [scanned EXCEPT ![p] = fetched]
        BY <2>2 DEF CompleteScan
      <3>2. fetched \in VersionOrNone
        BY ConstantNumbers DEF PipelineTypeOK, Versions, VersionOrNone
      <3> QED
        BY <2>1, <2>2, <3>1, <3>2 DEF CompleteScan, PipelineTypeOK
    <2>3. CASE FailScan(p, v)
      <3>1. requested' \in [Packages -> Nat]
        BY <2>3, DeliveriesType DEF FailScan, PipelineTypeOK
      <3> QED
        BY <2>1, <2>3, <3>1, FailureType DEF FailScan, PipelineTypeOK
    <2>4. CASE LoseScan(p, v)
      <3>1. abandoned' \in SUBSET Packages
        BY <2>4 DEF LoseScan, PipelineTypeOK
      <3> QED
        BY <2>1, <2>4, <3>1, DeliveriesType, FailureType DEF LoseScan, PipelineTypeOK
    <2> QED
      BY <1>7, <2>2, <2>3, <2>4
  <1> QED
    BY <1>1, <1>2, <1>3, <1>4, <1>5, <1>6, <1>7 DEF Next, AtRest, vars

-----------------------------------------------------------------------------
(* Slots and counters *)

Accounted == IdleBetweenTicks /\ SlotsAccounted /\ DoneAccounted /\ CheckedAccounted

LEMMA InitAccounted == Init => Accounted
  <1> SUFFICES ASSUME Init PROVE Accounted
    OBVIOUS
  <1>1. \A p \in Packages : check[p].pc = "done"
    BY DEF Init, Finished, Waiting
  <1>2. /\ Cardinality(Doing(check, {"fetching"})) = 0
        /\ Cardinality(Doing(check, Checked)) = 0
    BY <1>1, DoingUniform DEF Checked
  <1>3. IdleBetweenTicks
    BY <1>1 DEF IdleBetweenTicks, At
  <1>4. SlotsAccounted
    BY <1>2, ConstantNumbers DEF Init, SlotsAccounted
  <1>5. DoneAccounted
    BY DEF Init, DoneAccounted
  <1>6. CheckedAccounted
    BY <1>2 DEF Init, NoCounts, Counters, CheckedAccounted, Decided
  <1> QED
    BY <1>3, <1>4, <1>5, <1>6 DEF Accounted

(* A coroutine that is not done runs in a tick.                            *)
LEMMA BusyInTick ==
    ASSUME IdleBetweenTicks, NEW p \in Packages, check[p].pc # "done"
    PROVE  loop = "tick"
  BY DEF IdleBetweenTicks, At

(* The five counters of decided packages, as numbers.                      *)
LEMMA CounterTypes ==
    ASSUME TickTypeOK, NEW c \in Counters
    PROVE  result[c] \in Nat
  BY DEF TickTypeOK

(* Counting one outcome adds one to the decided or to the failed.          *)
LEMMA OutcomeCounted ==
    ASSUME TickTypeOK, NEW c \in Counters \ {"checked"}, Count(c)
    PROVE  /\ Decided + result["failed"] \in Nat
           /\ Decided \in Nat /\ result["checked"] \in Nat
           /\ Decided' + result'["failed"] = Decided + result["failed"] + 1
           /\ Decided' \in Nat /\ Decided' <= Decided + 1
           /\ c = "failed" => Decided' = Decided
           /\ result'["checked"] = result["checked"]
  <1>1. \A d \in Counters : result[d] \in Nat
    BY CounterTypes
  <1>2. \A d \in Counters : result'[d] = IF d = c THEN result[d] + 1 ELSE result[d]
    BY DEF Count, TickTypeOK
  <1> QED
    BY <1>1, <1>2 DEF Counters, Decided

(* A coroutine that is decided after its metadata has arrived.             *)
LEMMA DecidesAccounted ==
    ASSUME TickTypeOK, Accounted, NEW p \in Packages, check[p].pc \in Checked,
           NEW c \in Counters \ {"checked"}, Count(c), Finish(p),
           UNCHANGED <<loop, permits>>
    PROVE  Accounted'
  <1>1. /\ loop = "tick"
        /\ Finished \in CheckState /\ Finished.pc = "done"
        /\ check \in [Packages -> CheckState]
    BY BusyInTick, WaitingIsCheckState
       DEF Accounted, Checked, Finished, Waiting, TickTypeOK
  <1>2. /\ Cardinality(Doing(check', {"fetching"})) = Cardinality(Doing(check, {"fetching"}))
        /\ Cardinality(Doing(check', {"done"})) = Cardinality(Doing(check, {"done"})) + 1
        /\ Cardinality(Doing(check', Checked)) = Cardinality(Doing(check, Checked)) - 1
    <2>1. check[p].pc \notin {"fetching", "done"} /\ Finished.pc \notin Checked
      BY <1>1 DEF Checked
    <2>2. Moves(check, p, Finished, check')
      BY DEF Finish, Moves
    <2>3. Cardinality(Doing(check', {"fetching"})) = Cardinality(Doing(check, {"fetching"}))
      BY <1>1, <2>1, <2>2, DoingMoves
    <2>4. Cardinality(Doing(check', {"done"})) = Cardinality(Doing(check, {"done"})) + 1
      BY <1>1, <2>1, <2>2, DoingMoves
    <2>5. Cardinality(Doing(check', Checked)) = Cardinality(Doing(check, Checked)) - 1
      BY <1>1, <2>1, <2>2, DoingMoves
    <2> QED
      BY <2>3, <2>4, <2>5
  <1>3. /\ Decided \in Nat /\ Decided' \in Nat /\ Decided' <= Decided + 1
        /\ Decided' + result'["failed"] = Decided + result["failed"] + 1
        /\ result["checked"] \in Nat /\ result'["checked"] = result["checked"]
    BY OutcomeCounted
  <1>4. IdleBetweenTicks'
    BY <1>1 DEF IdleBetweenTicks
  <1>5. SlotsAccounted'
    BY <1>2 DEF Accounted, SlotsAccounted
  <1>6. DoneAccounted'
    BY <1>1, <1>2, <1>3 DEF Accounted, DoneAccounted
  <1>7. CheckedAccounted'
    <2>1. Cardinality(Doing(check, Checked)) \in Nat
      BY DoingFinite
    <2> QED
      BY <1>2, <1>3, <2>1 DEF Accounted, CheckedAccounted
  <1> QED
    BY <1>4, <1>5, <1>6, <1>7 DEF Accounted

(* A coroutine that goes on after its metadata has arrived.                *)
LEMMA ProceedsAccounted ==
    ASSUME TickTypeOK, Accounted, NEW p \in Packages, check[p].pc \in Checked,
           NEW c \in CheckState, c.pc \in Checked, Moves(check, p, c, check'),
           UNCHANGED <<loop, permits, result>>
    PROVE  Accounted'
  <1>1. /\ loop = "tick" /\ check \in [Packages -> CheckState]
        /\ check[p].pc \notin {"fetching", "done"} /\ c.pc \notin {"fetching", "done"}
    BY BusyInTick DEF Accounted, Checked, TickTypeOK
  <1>2. Cardinality(Doing(check', {"fetching"})) = Cardinality(Doing(check, {"fetching"}))
    BY <1>1, DoingMoves
  <1>3. Cardinality(Doing(check', {"done"})) = Cardinality(Doing(check, {"done"}))
    BY <1>1, DoingMoves
  <1>4. Cardinality(Doing(check', Checked)) = Cardinality(Doing(check, Checked))
    BY <1>1, DoingMoves
  <1> QED
    BY <1>1, <1>2, <1>3, <1>4
       DEF Accounted, IdleBetweenTicks, SlotsAccounted, DoneAccounted,
           CheckedAccounted, Decided

LEMMA AcquireAccounted ==
    ASSUME TickTypeOK, Accounted, NEW p \in Packages, Acquire(p)
    PROVE  Accounted'
  <1> DEFINE c == [check[p] EXCEPT !.pc = "fetching"]
             n == Cardinality(Doing(check, {"fetching"}))
  <1>1. /\ c \in CheckState /\ c.pc = "fetching"
        /\ check[p].pc = "waiting" /\ Moves(check, p, c, check')
        /\ check \in [Packages -> CheckState]
    BY DEF Acquire, At, Goto, TickTypeOK, CheckState, CheckPc, Moves
  <1>2. loop = "tick"
    BY <1>1, BusyInTick DEF Accounted
  <1>3. "waiting" \notin Checked /\ "fetching" \notin Checked
    BY DEF Checked
  <1> HIDE DEF c
  <1>4. Cardinality(Doing(check', {"fetching"})) = n + 1
    BY <1>1, DoingMoves
  <1>5. Cardinality(Doing(check', {"done"})) = Cardinality(Doing(check, {"done"}))
    BY <1>1, DoingMoves
  <1>6. Cardinality(Doing(check', Checked)) = Cardinality(Doing(check, Checked))
    BY <1>1, <1>3, DoingMoves
  <1>7. n \in Nat /\ permits \in Nat /\ permits' = permits - 1
    BY DoingFinite, ConstantNumbers DEF TickTypeOK, Acquire
  <1>8. loop' = loop /\ result' = result
    BY DEF Acquire, LoopUnchanged
  <1>9. SlotsAccounted'
    BY <1>4, <1>7, ConstantNumbers DEF Accounted, SlotsAccounted
  <1> QED
    BY <1>2, <1>5, <1>6, <1>8, <1>9
       DEF Accounted, IdleBetweenTicks, DoneAccounted, CheckedAccounted, Decided

LEMMA FetchReturnsAccounted ==
    ASSUME TickTypeOK, PipelineTypeOK, Accounted, NEW p \in Packages, FetchReturns(p)
    PROVE  Accounted'
  <1> DEFINE c == [check[p] EXCEPT !.pc = "loading", !.version = registry[p]]
             n == Cardinality(Doing(check, {"fetching"}))
             m == Cardinality(Doing(check, Checked))
  <1>1. /\ c \in CheckState /\ c.pc = "loading"
        /\ check[p].pc = "fetching" /\ Moves(check, p, c, check')
        /\ check \in [Packages -> CheckState]
    BY VersionTypes DEF FetchReturns, At, TickTypeOK, CheckState, CheckPc, Moves
  <1>2. loop = "tick"
    BY <1>1, BusyInTick DEF Accounted
  <1>3. "loading" \in Checked /\ "fetching" \notin Checked
    BY DEF Checked
  <1> HIDE DEF c
  <1>4. Cardinality(Doing(check', {"fetching"})) = n - 1
    BY <1>1, DoingMoves
  <1>5. Cardinality(Doing(check', {"done"})) = Cardinality(Doing(check, {"done"}))
    BY <1>1, DoingMoves
  <1>6. Cardinality(Doing(check', Checked)) = m + 1
    BY <1>1, <1>3, DoingMoves
  <1>7. n \in Nat /\ m \in Nat /\ permits \in Nat /\ permits' = permits + 1
    BY DoingFinite, ConstantNumbers DEF TickTypeOK, FetchReturns
  <1>8. /\ \A d \in Counters : result[d] \in Nat
        /\ \A d \in Counters :
              result'[d] = IF d = "checked" THEN result[d] + 1 ELSE result[d]
    BY CounterTypes DEF FetchReturns, Count, TickTypeOK, Counters
  <1>9. /\ Decided \in Nat /\ Decided' = Decided
        /\ result'["failed"] = result["failed"]
        /\ result["checked"] \in Nat /\ result'["checked"] = result["checked"] + 1
    BY <1>8 DEF Counters, Decided
  <1>10. loop' = loop
    BY DEF FetchReturns, LoopUnchanged
  <1>11. SlotsAccounted'
    BY <1>4, <1>7, ConstantNumbers DEF Accounted, SlotsAccounted
  <1>12. CheckedAccounted'
    BY <1>6, <1>7, <1>9 DEF Accounted, CheckedAccounted
  <1>13. DoneAccounted' /\ IdleBetweenTicks'
    BY <1>2, <1>5, <1>9, <1>10 DEF Accounted, DoneAccounted, IdleBetweenTicks
  <1> QED
    BY <1>11, <1>12, <1>13 DEF Accounted

LEMMA FetchFailsAccounted ==
    ASSUME TickTypeOK, Accounted, NEW p \in Packages, FetchFails(p)
    PROVE  Accounted'
  <1> DEFINE n == Cardinality(Doing(check, {"fetching"}))
  <1>1. /\ Finished \in CheckState /\ Finished.pc = "done"
        /\ check[p].pc = "fetching" /\ Moves(check, p, Finished, check')
        /\ check \in [Packages -> CheckState]
    BY WaitingIsCheckState
       DEF FetchFails, At, Finish, TickTypeOK, Moves, Finished, Waiting
  <1>2. loop = "tick"
    BY <1>1, BusyInTick DEF Accounted
  <1>3. "done" \notin Checked /\ "fetching" \notin Checked
    BY DEF Checked
  <1>4. Cardinality(Doing(check', {"fetching"})) = n - 1
    BY <1>1, DoingMoves
  <1>5. Cardinality(Doing(check', {"done"})) = Cardinality(Doing(check, {"done"})) + 1
    BY <1>1, DoingMoves
  <1>6. Cardinality(Doing(check', Checked)) = Cardinality(Doing(check, Checked))
    BY <1>1, <1>3, DoingMoves
  <1>7. n \in Nat /\ permits \in Nat /\ permits' = permits + 1
    BY DoingFinite, ConstantNumbers DEF TickTypeOK, FetchFails
  <1>8. /\ Decided' = Decided /\ result'["checked"] = result["checked"]
        /\ Decided' + result'["failed"] = Decided + result["failed"] + 1
    BY OutcomeCounted DEF FetchFails, Counters
  <1>9. loop' = loop
    BY DEF FetchFails, LoopUnchanged
  <1>10. SlotsAccounted'
    BY <1>4, <1>7, ConstantNumbers DEF Accounted, SlotsAccounted
  <1> QED
    BY <1>2, <1>5, <1>6, <1>8, <1>9, <1>10
       DEF Accounted, IdleBetweenTicks, DoneAccounted, CheckedAccounted

LEMMA StepAccounted ==
    ASSUME TickTypeOK, PipelineTypeOK, Accounted, [Next]_vars
    PROVE  Accounted'
  <1>1. CASE UNCHANGED <<loop, permits, check, result>>
    BY <1>1 DEF Accounted, IdleBetweenTicks, At, SlotsAccounted, DoneAccounted,
       CheckedAccounted, Decided
  <1>2. CASE StartTick
    <2>1. \A p \in Packages : check'[p].pc = "waiting"
      BY <1>2 DEF StartTick, Waiting
    <2>2. /\ Cardinality(Doing(check', {"fetching"})) = 0
          /\ Cardinality(Doing(check', {"done"})) = 0
          /\ Cardinality(Doing(check', Checked)) = 0
      BY <2>1, DoingUniform DEF Checked
    <2>3. /\ loop' = "tick" /\ permits' = Concurrency
          /\ \A c \in Counters : result'[c] = 0
      BY <1>2 DEF StartTick, NoCounts
    <2>4. Decided' = 0 /\ result'["failed"] = 0 /\ result'["checked"] = 0
      BY <2>3 DEF Decided, Counters
    <2> QED
      BY <2>2, <2>3, <2>4, ConstantNumbers
         DEF Accounted, IdleBetweenTicks, SlotsAccounted, DoneAccounted, CheckedAccounted
  <1>3. CASE EndTick
    BY <1>3 DEF EndTick, Accounted, IdleBetweenTicks, At, SlotsAccounted,
       DoneAccounted, CheckedAccounted, Decided
  <1>4. CASE Stop
    BY <1>4 DEF Stop, Accounted, IdleBetweenTicks, At, SlotsAccounted,
       DoneAccounted, CheckedAccounted, Decided
  <1>5. CASE ListFails \/ RequestShutdown
    BY <1>1, <1>5 DEF ListFails, RequestShutdown, monitor
  <1>6. ASSUME NEW p \in Packages, CheckStep(p) \/ FetchFails(p) \/ CheckFails(p)
        PROVE  Accounted'
    <2>1. CASE Acquire(p) \/ FetchReturns(p) \/ FetchFails(p)
      BY <2>1, AcquireAccounted, FetchReturnsAccounted, FetchFailsAccounted
    <2>2. CASE LoadState(p)
      <3> DEFINE c == [check[p] EXCEPT !.pc = IF skipRunning THEN "checking" ELSE "recording",
                                       !.seen = scanned[p]]
      <3>1. check[p].pc \in Checked /\ UNCHANGED <<loop, permits>>
        BY <2>2 DEF LoadState, At, Checked, LoopUnchanged
      <3>2. c \in CheckState /\ c.pc \in Checked
        BY VersionTypes DEF TickTypeOK, CheckState, CheckPc, Checked
      <3>3. CASE Classify(scanned[p], check[p].version) = "unchanged"
        BY <2>2, <3>1, <3>3, DecidesAccounted DEF LoadState, Counters
      <3>4. CASE Classify(scanned[p], check[p].version) # "unchanged"
        <4>1. Moves(check, p, c, check') /\ UNCHANGED result
          BY <2>2, <3>4 DEF LoadState, Moves
        <4> HIDE DEF c
        <4> QED
          BY <3>1, <3>2, <4>1, ProceedsAccounted
      <3> QED
        BY <3>3, <3>4
    <2>3. CASE CheckRunning(p)
      <3> DEFINE c == [check[p] EXCEPT !.pc = "recording"]
      <3>1. check[p].pc \in Checked /\ UNCHANGED <<loop, permits>>
        BY <2>3 DEF CheckRunning, At, Checked, LoopUnchanged
      <3>2. c \in CheckState /\ c.pc \in Checked
        BY DEF TickTypeOK, CheckState, CheckPc, Checked
      <3>3. CASE HasRunning(p)
        BY <2>3, <3>1, <3>3, DecidesAccounted DEF CheckRunning, Counters
      <3>4. CASE ~HasRunning(p)
        <4>1. Moves(check, p, c, check') /\ UNCHANGED result
          BY <2>3, <3>4 DEF CheckRunning, Goto, Moves
        <4> HIDE DEF c
        <4> QED
          BY <3>1, <3>2, <4>1, ProceedsAccounted
      <3> QED
        BY <3>3, <3>4
    <2>4. CASE RecordRequest(p)
      <3> DEFINE c == [check[p] EXCEPT !.pc = "publishing"]
      <3>1. check[p].pc \in Checked /\ UNCHANGED <<loop, permits, result>>
        BY <2>4 DEF RecordRequest, At, Checked, LoopUnchanged
      <3>2. c \in CheckState /\ c.pc \in Checked
        BY DEF TickTypeOK, CheckState, CheckPc, Checked
      <3>3. Moves(check, p, c, check')
        BY <2>4 DEF RecordRequest, Goto, Moves
      <3> HIDE DEF c
      <3> QED
        BY <3>1, <3>2, <3>3, ProceedsAccounted
    <2>5. CASE Publish(p)
      <3>1. check[p].pc \in Checked /\ UNCHANGED <<loop, permits>>
        BY <2>5 DEF Publish, At, Checked, LoopUnchanged
      <3>2. Classify(check[p].seen, check[p].version) \in Counters \ {"checked"}
        BY ClassifyType DEF Counters
      <3> QED
        BY <2>5, <3>1, <3>2, DecidesAccounted DEF Publish
    <2>6. CASE CheckFails(p)
      <3>1. check[p].pc \in Checked /\ UNCHANGED <<loop, permits>>
        BY <2>6 DEF CheckFails, Checked, LoopUnchanged
      <3> QED
        BY <2>6, <3>1, DecidesAccounted DEF CheckFails, Counters
    <2> QED
      BY <1>6, <2>1, <2>2, <2>3, <2>4, <2>5, <2>6 DEF CheckStep
  <1>7. ASSUME NEW p \in Packages, Release(p) \/ StartScan(p)
        PROVE  Accounted'
    BY <1>1, <1>7 DEF Release, StartScan, monitor
  <1>8. ASSUME NEW p \in Packages, NEW v \in Versions,
               CompleteScan(p, v) \/ FailScan(p, v) \/ LoseScan(p, v)
        PROVE  Accounted'
    BY <1>1, <1>8 DEF CompleteScan, FailScan, LoseScan, monitor
  <1> QED
    BY <1>1, <1>2, <1>3, <1>4, <1>5, <1>6, <1>7, <1>8 DEF Next, AtRest, vars, monitor

-----------------------------------------------------------------------------
(* The inductive invariant of the monitor: types, and where every          *)
(* coroutine, slot and outcome is accounted for, whatever fails and in     *)
(* whatever order the awaits of a tick return.                             *)
THEOREM MonitorInvariant == Spec => []MonitorInv
  <1>1. Init => MonitorInv
    BY InitTypeOK, InitAccounted DEF MonitorInv, Accounted
  <1>2. MonitorInv /\ [Next]_vars => MonitorInv'
    BY StepLoopTypeOK, StepTickTypeOK, StepPipelineTypeOK, StepAccounted
       DEF MonitorInv, TypeOK, Accounted
  <1> QED
    BY <1>1, <1>2, PTL DEF Spec

(* The loop, its coroutines and what they read keep their types; in        *)
(* particular the semaphore never has more free slots than it began with.  *)
THEOREM MonitorTypeCorrect == Spec => []TypeOK
  <1>1. MonitorInv => TypeOK
    BY DEF MonitorInv
  <1> QED
    BY <1>1, MonitorInvariant, PTL

(* At most `Concurrency` packages are fetched at a time, and no slot of    *)
(* the semaphore is ever lost or made.                                     *)
THEOREM SlotsAlwaysConserved == Spec => []SlotsConserved
  <1>1. MonitorInv => SlotsConserved
    <2>1. Doing(check, {"fetching"}) = {p \in Packages : At(p, "fetching")}
      BY DEF Doing, At
    <2> QED
      BY <2>1 DEF MonitorInv, SlotsAccounted, SlotsConserved
  <1> QED
    BY <1>1, MonitorInvariant, PTL

(* Every finished package of a tick is in exactly one outcome counter, and *)
(* none is counted as decided whose metadata was not.                      *)
THEOREM CountersAlwaysAddUp == Spec => []CountersAddUp
  <1>1. MonitorInv => CountersAddUp
    <2> SUFFICES ASSUME MonitorInv PROVE CountersAddUp
      OBVIOUS
    <2>1. Doing(check, {"done"}) = {p \in Packages : At(p, "done")}
      BY DEF Doing, At
    <2>2. \A c \in Counters : result[c] \in Nat
      BY CounterTypes DEF MonitorInv, TypeOK
    <2>3. Decided \in Nat /\ result["checked"] \in Nat
      BY <2>2 DEF Counters, Decided
    <2>4. Cardinality(Doing(check, Checked)) \in Nat
      BY DoingFinite
    <2> QED
      BY <2>1, <2>3, <2>4 DEF MonitorInv, DoneAccounted, CheckedAccounted, CountersAddUp
  <1> QED
    BY <1>1, MonitorInvariant, PTL
=============================================================================
