----------------------------- MODULE Catalogue -----------------------------
(***************************************************************************)
(* The tables as the read API sees them, and the transactions that change  *)
(* them while it reads.  ScanLifecycle has the processes behind these      *)
(* transactions; here any of them may come at any time a row allows it.    *)
(* As for ScanAttempts, they are those of runs without publish failures    *)
(* and database errors, which let a row be failed under its worker's feet  *)
(* and findings be written to a failed row.                                *)
(*                                                                         *)
(* A listing is an ORDER BY, newest first.  It is modelled by the position *)
(* of each row, so that a new row moves others down and nothing is said of *)
(* timestamps: started_at and created_at are set when a transaction starts *)
(* and seen when it commits, so that a new row may come after rows that    *)
(* were there before.                                                      *)
(***************************************************************************)
EXTENDS ScanStore, FiniteSets

CONSTANTS MaxScans,     \* bound: rows of scan_results that a scan adds to
          MaxFindings,  \* bound: rows of findings
          RiskLevels    \* the risk levels a scan may complete with

ASSUME CatalogueAssumption ==
    /\ MaxScans \in Nat /\ MaxFindings \in Nat
    /\ RiskLevels \subseteq {"low", "medium", "high"}

VARIABLES scans,        \* scan_results, by id
          risk,         \* risk_level of each row
          startRank,    \* position of each row by started_at, id descending
          findingOwner, \* scan_result_id of each finding, by id
          findingRank,  \* position of each finding by created_at, id descending
          known,        \* packages
          scanned,      \* latest_scanned_version
          stored        \* package_versions of each package

tables == <<scans, risk, startRank, findingOwner, findingRank, known, scanned, stored>>

RiskLevel == RiskLevels \cup {"unknown"}

CatalogueTypeOK ==
    /\ scans \in Seq(ScanRow)
    /\ risk \in Seq(RiskLevel) /\ Len(risk) = Len(scans)
    /\ startRank \in Seq(1 .. Len(scans)) /\ Len(startRank) = Len(scans)
    /\ findingOwner \in Seq(DOMAIN scans)
    /\ findingRank \in Seq(1 .. Len(findingOwner))
    /\ Len(findingRank) = Len(findingOwner)
    /\ known \in SUBSET Packages
    /\ scanned \in [Packages -> VersionOrNone]
    /\ stored \in [Packages -> SUBSET Versions]

CatalogueInit ==
    /\ scans = <<>> /\ risk = <<>> /\ startRank = <<>>
    /\ findingOwner = <<>> /\ findingRank = <<>>
    /\ known = {}
    /\ scanned = [p \in Packages |-> NoVersion]
    /\ stored = [p \in Packages |-> {}]

-----------------------------------------------------------------------------
(* n new rows of one transaction take the positions from k on, the last    *)
(* id first.                                                               *)
Inserted(rank, k, n) ==
    [i \in 1 .. Len(rank) + n |->
        IF i > Len(rank) THEN k + (Len(rank) + n - i)
        ELSE IF rank[i] >= k THEN rank[i] + n
        ELSE rank[i]]

(* Row r moves up to position k.                                           *)
Raised(rank, r, k) ==
    [i \in DOMAIN rank |->
        IF i = r THEN k
        ELSE IF k <= rank[i] /\ rank[i] < rank[r] THEN rank[i] + 1
        ELSE rank[i]]

UpsertPackage(p) == known' = known \cup {p}

NewScan(p, status) ==
    /\ UpsertPackage(p)
    /\ scans' = CreateScanResult(scans, p, status)
    /\ risk' = Append(risk, "unknown")
    /\ \E k \in 1 .. Len(scans) + 1 : startRank' = Inserted(startRank, k, 1)

(* EnqueueScanUseCase: the package and its queued attempt, in one          *)
(* transaction.                                                            *)
RecordRequest(p) ==
    /\ NewScan(p, "queued")
    /\ UNCHANGED <<findingOwner, findingRank, scanned, stored>>

(* claim_next_queued_scan: started_at becomes the time of the claim.       *)
Claim(i) ==
    /\ scans' = ClaimQueuedScan(scans, i)
    /\ \E k \in 1 .. startRank[i] : startRank' = Raised(startRank, i, k)

(* The first transaction of an attempt: the next queued row of the         *)
(* package, or a new one when there is none.                               *)
StartScan(p) ==
    /\ \/ /\ \E i \in DOMAIN scans : IsNextQueuedScan(scans, p, i) /\ Claim(i)
          /\ UNCHANGED <<known, risk>>
       \/ /\ ScansWith(scans, p, "queued") = {}
          /\ Len(scans) < MaxScans
          /\ NewScan(p, "running")
    /\ UNCHANGED <<findingOwner, findingRank, scanned, stored>>

IsRunning(i) == scans[i].status = "running"

(* Mutants: the package_versions rows are not written, or one is written   *)
(* for a previous version that there is not.                               *)
WriteRowOnly(i, v) ==
    /\ scans' = SetScanVersions(scans, i, v)
    /\ UNCHANGED stored

WriteVersionsWithNone(i, v) ==
    /\ scans' = SetScanVersions(scans, i, v)
    /\ stored' = [stored EXCEPT ![scans[i].pkg] = @ \cup {v, v - 1}]

(* Both versions of the metadata and the versions of the row.              *)
WriteVersions(i, v) ==
    /\ scans' = SetScanVersions(scans, i, v)
    /\ stored' = [stored EXCEPT ![scans[i].pkg] = @ \cup ({v, v - 1} \cap Versions)]

StoreVersions(i) ==
    /\ IsRunning(i) /\ scans[i].latest = NoVersion
    /\ \E v \in Versions : WriteVersions(i, v)
    /\ UNCHANGED <<risk, startRank, findingOwner, findingRank, known, scanned>>

(* replace_findings, mark_scan_completed and mark_package_scanned.         *)
CompleteScan(i) ==
    /\ IsRunning(i) /\ scans[i].latest # NoVersion
    /\ \E n \in 0 .. MaxFindings - Len(findingOwner), k \in 1 .. Len(findingRank) + 1 :
          /\ findingOwner' = findingOwner \o [j \in 1 .. n |-> i]
          /\ findingRank' = Inserted(findingRank, k, n)
    /\ scans' = MarkScanCompleted(ReplaceFindings(scans, i, scans[i].latest), i)
    /\ \E r \in RiskLevels : risk' = [risk EXCEPT ![i] = r]
    /\ scanned' = [scanned EXCEPT ![scans[i].pkg] = scans[i].latest]
    /\ UNCHANGED <<startRank, known, stored>>

FailScan(i) ==
    /\ IsRunning(i)
    /\ scans' = MarkScanFailed(scans, i)
    /\ UNCHANGED <<risk, startRank, findingOwner, findingRank, known, scanned, stored>>

PipelineStep ==
    \/ \E p \in Packages : StartScan(p)
    \/ \E i \in DOMAIN scans : StoreVersions(i) \/ CompleteScan(i) \/ FailScan(i)
=============================================================================
