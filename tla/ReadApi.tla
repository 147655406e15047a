------------------------------ MODULE ReadApi ------------------------------
(***************************************************************************)
(* The GET routes and the queries behind them.  A request runs its         *)
(* statements one by one in a session whose isolation is the database's    *)
(* default, read committed: each statement sees the tables as they are     *)
(* when it runs.  One client reads, and may go through the pages of a      *)
(* listing with one request after the other.                               *)
(***************************************************************************)
EXTENDS Catalogue

CONSTANTS Limit,     \* the page size the client asks for
          Requests   \* the kinds of request it makes

ASSUME ReadApiAssumption ==
    /\ Limit \in Nat \ {0}
    /\ Requests \subseteq {"scans", "findings", "versions", "detail", "packages"}

VARIABLES request,   \* the request under way, or "none"
          step,      \* its next statement, or "done"
          subject,   \* the package it is about
          offset,    \* of the page
          page,      \* the rows of the page
          total,     \* the total beside them
          shown,     \* the rows of all pages so far
          due,       \* the rows there at the start that have kept their place
          detail     \* the fields of a detail response read so far

walk   == <<offset, page, total, shown, due>>
client == <<request, step, subject, walk, detail>>

NoScan  == 0
NoTotal == 0

NoDetail == [scanned |-> NoVersion, scan |-> NoScan, status |-> "none",
             versions |-> 0, findings |-> 0]

DetailType == [scanned : VersionOrNone, scan : Nat, status : ScanStatus \cup {"none"},
               versions : Nat, findings : Nat]

Listings == {"scans", "findings", "versions"}

-----------------------------------------------------------------------------
(* The queries *)

(* The rows of a listing and the position the ORDER BY gives each.  The    *)
(* versions of a package are ordered by publish time.                      *)
Rows == CASE request = "scans" -> DOMAIN scans
          [] request = "findings" -> DOMAIN findingRank
          [] OTHER -> stored[subject]

Position(i) ==
    CASE request = "scans" -> startRank[i]
      [] request = "findings" -> findingRank[i]
      [] OTHER -> Cardinality({v \in stored[subject] : v >= i})

(* Mutant: the offset is taken as a position, not as a count of rows.      *)
PageFromOffset ==
    {i \in Rows : offset <= Position(i) /\ Position(i) < offset + Limit}

(* ... LIMIT limit OFFSET offset *)
Page == {i \in Rows : offset < Position(i) /\ Position(i) <= offset + Limit}

(* _latest_scan_subquery: row_number() = 1 among the rows of a package.    *)
IsLatest(i, among) ==
    i \in among /\ \A j \in among : startRank[i] <= startRank[j]

ScansOf(p)     == {i \in DOMAIN scans : scans[i].pkg = p}
CompletedOf(p) == {i \in ScansOf(p) : scans[i].status = "completed"}

(* Mutant: the join is with all completed scans.                           *)
FilteredByAnyScan(r) == {p \in known : \E i \in CompletedOf(p) : risk[i] = r}

(* list_packages with a risk level: the filter is about the latest         *)
(* completed scan, the label shown is that of the latest scan.             *)
Filtered(r) ==
    {p \in known : \E i \in ScansOf(p) : IsLatest(i, CompletedOf(p)) /\ risk[i] = r}

Label(p) == IF ScansOf(p) = {} THEN "none"
            ELSE risk[CHOOSE i \in ScansOf(p) : IsLatest(i, ScansOf(p))]

-----------------------------------------------------------------------------
ReadApiTypeOK ==
    /\ request \in Requests \cup {"none"}
    /\ step \in {"none", "rows", "count", "package", "scan", "versions",
                 "findings", "done", "not found"}
    /\ subject \in Packages
    /\ offset \in Nat /\ total \in Nat
    /\ detail \in DetailType

ReadApiInit ==
    /\ request = "none" /\ step = "none"
    /\ subject \in Packages
    /\ offset = 0 /\ page = {} /\ total = NoTotal /\ shown = {} /\ due = {}
    /\ detail = NoDetail

(* The client starts on the first page of a listing.                       *)
StartWalk(l) ==
    /\ request = "none"
    /\ l \in Listings
    /\ request' = l /\ step' = "rows"
    /\ UNCHANGED <<subject, offset, page, total, shown, detail, tables>>
    /\ due' = Rows'

ListRows ==
    /\ step = "rows" /\ request \in Listings
    /\ step' = "count"
    /\ page' = Page /\ shown' = shown \cup Page
    /\ UNCHANGED <<request, subject, offset, total, due, detail, tables>>

(* Mutant: the total is that of the rows returned.                         *)
CountPage ==
    /\ step = "count" /\ request \in Listings
    /\ total' = Cardinality(page)
    /\ offset' = offset + Limit
    /\ step' = IF offset + Limit >= Cardinality(Rows) THEN "done" ELSE "rows"
    /\ UNCHANGED <<request, subject, page, shown, due, detail, tables>>

(* The total ends the request, and the walk when there is no further page. *)
CountRows ==
    /\ step = "count" /\ request \in Listings
    /\ total' = Cardinality(Rows)
    /\ offset' = offset + Limit
    /\ step' = IF offset + Limit >= Cardinality(Rows) THEN "done" ELSE "rows"
    /\ UNCHANGED <<request, subject, page, shown, due, detail, tables>>

(* GET /packages?risk_level=r: the rows, each with its label.              *)
ListPackages ==
    /\ request = "none"
    /\ request' = "packages" /\ step' = "done"
    /\ \E r \in RiskLevel :
          page' = {[asked |-> r, label |-> Label(p)] : p \in Filtered(r)}
    /\ UNCHANGED <<subject, offset, total, shown, due, detail, tables>>

-----------------------------------------------------------------------------
(* GET /packages/{name}: get_package_detail                                *)

ReadPackage ==
    /\ request = "none"
    /\ request' = "detail"
    /\ detail' = [NoDetail EXCEPT !.scanned = scanned[subject]]
    /\ step' = IF subject \in known THEN "scan" ELSE "not found"
    /\ UNCHANGED <<subject, walk, tables>>

ReadLatestScan ==
    /\ step = "scan"
    /\ step' = "versions"
    /\ IF ScansOf(subject) = {}
       THEN UNCHANGED detail
       ELSE \E i \in ScansOf(subject) :
               /\ IsLatest(i, ScansOf(subject))
               /\ detail' = [detail EXCEPT !.scan = i, !.status = scans[i].status]
    /\ UNCHANGED <<request, subject, walk, tables>>

CountVersions ==
    /\ step = "versions"
    /\ step' = "findings"
    /\ detail' = [detail EXCEPT !.versions = Cardinality(stored[subject])]
    /\ UNCHANGED <<request, subject, walk, tables>>

FindingsOf(p) == {f \in DOMAIN findingOwner : scans[findingOwner[f]].pkg = p}

CountFindings ==
    /\ step = "findings"
    /\ step' = "done"
    /\ detail' = [detail EXCEPT !.findings = Cardinality(FindingsOf(subject))]
    /\ UNCHANGED <<request, subject, walk, tables>>

-----------------------------------------------------------------------------
ReadStep ==
    \/ \E l \in Requests : StartWalk(l)
    \/ ListRows \/ CountRows
    \/ "packages" \in Requests /\ ListPackages
    \/ "detail" \in Requests /\ ReadPackage
    \/ ReadLatestScan \/ CountVersions \/ CountFindings

(* A claimed row has moved to the top of /scans and is no longer due.      *)
Claimed(i) ==
    /\ request = "scans" /\ i \in DOMAIN scans
    /\ scans[i].status = "queued" /\ scans'[i].status = "running"

Answered == step \in {"done", "not found"}

(* What is written after the last response is of no concern to the client. *)
WriteStep ==
    /\ ~Answered
    /\ \/ PipelineStep
       \/ Len(scans) < MaxScans /\ \E p \in Packages : RecordRequest(p)
    /\ due' = {i \in due : ~Claimed(i)}
    /\ UNCHANGED <<request, step, subject, offset, page, total, shown, detail>>
-----------------------------------------------------------------------------
(* Rows that appear while a client goes from page to page push the others  *)
(* down, never off the pages to come: every row that was there when it     *)
(* started is on one of the pages, except one that was claimed meanwhile,  *)
(* which /scans has moved to its top.                                      *)
WalkComplete ==
    request \in Listings /\ step = "done" => due \subseteq shown

(* Rows and total come from two statements, with scans in between, and     *)
(* still fit: a page never reaches beyond the total beside it.             *)
PageWithinTotal ==
    /\ request \in Listings /\ step \in {"rows", "done"} /\ page # {}
    => (offset - Limit) + Cardinality(page) <= total

(* The four statements of a detail see four states of the tables, and what *)
(* they say together is still so: a known package has a scan, a scanned    *)
(* one has versions, and a completed scan has all its findings counted.    *)
DetailCoherent ==
    request = "detail" /\ step = "done" =>
        /\ detail.scan # NoScan
        /\ detail.scanned # NoVersion => detail.versions > 0
        /\ detail.status = "completed" =>
               /\ detail.versions > 0
               /\ detail.findings >=
                     Cardinality({f \in DOMAIN findingOwner : findingOwner[f] = detail.scan})

(* A filter by risk level is about the latest completed scan and the label *)
(* beside a package about its latest scan.  They only ever differ by the   *)
(* label saying "unknown", for a scan that has no result yet, or failed.   *)
FilteredLabel ==
    request = "packages" => \A x \in page : x.label \in {x.asked, "unknown"}
=============================================================================
