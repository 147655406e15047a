------------------------- MODULE ScanStoreTheorems -------------------------
(***************************************************************************)
(* What the scan_results operations of ScanStore do to a well-formed       *)
(* table, for every set of packages and versions.                          *)
(***************************************************************************)
EXTENDS ScanStore, SequenceTheorems, TLAPS

ScanTable == Seq(ScanRow)

(* T is table S with at most row i changed.                                *)
OnlyRow(S, T, i) ==
    /\ T \in ScanTable
    /\ DOMAIN T = DOMAIN S
    /\ \A j \in DOMAIN S : j # i => T[j] = S[j]

(* T is table S with one more row, of status st, at the end.               *)
RowAdded(S, T, st) ==
    /\ T \in ScanTable
    /\ Len(T) \in Nat
    /\ Len(T) \notin DOMAIN S
    /\ DOMAIN T = DOMAIN S \cup {Len(T)}
    /\ \A j \in DOMAIN S : T[j] = S[j]
    /\ T[Len(T)].status = st

(* Overwriting one row with a row keeps the rest of the table.             *)
LEMMA RowOverwritten ==
    ASSUME NEW S \in ScanTable, NEW i \in DOMAIN S, NEW r \in ScanRow
    PROVE  /\ OnlyRow(S, [S EXCEPT ![i] = r], i)
           /\ [S EXCEPT ![i] = r][i] = r
  <1>1. DOMAIN S = 1 .. Len(S)
    BY LenProperties DEF ScanTable
  <1>2. /\ [S EXCEPT ![i] = r] \in ScanTable
        /\ Len([S EXCEPT ![i] = r]) = Len(S)
        /\ \A j \in 1 .. Len(S) : [S EXCEPT ![i] = r][j] = IF j = i THEN r ELSE S[j]
    BY <1>1, ExceptSeq DEF ScanTable
  <1> QED
    BY <1>1, <1>2 DEF OnlyRow

(* create_scan_result adds one row, with the given status, at the end.     *)
LEMMA ScanCreated ==
    ASSUME NEW S \in ScanTable, NEW p \in Packages, NEW st \in ScanStatus
    PROVE  RowAdded(S, CreateScanResult(S, p, st), st)
  <1> DEFINE row == [pkg |-> p, status |-> st, latest |-> NoVersion, findings |-> NoVersion]
             T == Append(S, row)
  <1>1. row \in ScanRow
    BY DEF ScanRow, VersionOrNone
  <1>2. /\ T \in Seq(ScanRow)
        /\ Len(T) = Len(S) + 1
        /\ \A j \in 1 .. Len(S) : T[j] = S[j]
        /\ T[Len(S) + 1] = row
    BY <1>1, AppendProperties DEF ScanTable
  <1>3. Len(S) \in Nat /\ DOMAIN S = 1 .. Len(S) /\ DOMAIN T = 1 .. Len(T)
    BY <1>2, LenProperties DEF ScanTable
  <1> QED
    BY <1>1, <1>2, <1>3 DEF CreateScanResult, RowAdded, ScanTable

LEMMA RowsKeptByCreate ==
    ASSUME NEW S \in ScanTable, NEW p, NEW st, NEW j \in DOMAIN S
    PROVE  /\ j \in DOMAIN CreateScanResult(S, p, st)
           /\ CreateScanResult(S, p, st)[j] = S[j]
  <1> DEFINE row == [pkg |-> p, status |-> st, latest |-> NoVersion, findings |-> NoVersion]
  <1>1. S \in Seq(ScanRow \cup {row}) /\ Len(S) \in Nat /\ DOMAIN S = 1 .. Len(S)
    BY LenProperties DEF ScanTable
  <1>2. /\ Append(S, row) \in Seq(ScanRow \cup {row})
        /\ Len(Append(S, row)) = Len(S) + 1
        /\ Append(S, row)[j] = S[j]
    BY <1>1, AppendProperties
  <1> QED
    BY <1>1, <1>2, LenProperties DEF CreateScanResult

(* claim_next_queued_scan leaves the row it takes running.                 *)
LEMMA ScanClaimed ==
    ASSUME NEW S \in ScanTable, NEW i \in DOMAIN S
    PROVE  /\ OnlyRow(S, ClaimQueuedScan(S, i), i)
           /\ ClaimQueuedScan(S, i)[i].status = "running"
  <1> DEFINE r == [S[i] EXCEPT !.status = "running"]
  <1>1. S[i] \in ScanRow
    BY ElementOfSeq, LenProperties DEF ScanTable
  <1>2. r \in ScanRow /\ r.status = "running"
    BY <1>1 DEF ScanRow, ScanStatus
  <1> QED
    BY <1>2, RowOverwritten DEF ClaimQueuedScan

(* set_scan_versions keeps the status.                                     *)
LEMMA VersionsSet ==
    ASSUME NEW S \in ScanTable, NEW i \in DOMAIN S, NEW v \in VersionOrNone
    PROVE  /\ OnlyRow(S, SetScanVersions(S, i, v), i)
           /\ SetScanVersions(S, i, v)[i].status = S[i].status
  <1> DEFINE r == [S[i] EXCEPT !.latest = v]
  <1>1. S[i] \in ScanRow
    BY ElementOfSeq, LenProperties DEF ScanTable
  <1>2. r \in ScanRow /\ r.status = S[i].status
    BY <1>1 DEF ScanRow
  <1> QED
    BY <1>2, RowOverwritten DEF SetScanVersions

(* mark_scan_failed changes a running row only, to failed.                 *)
LEMMA ScanFailed ==
    ASSUME NEW S \in ScanTable, NEW i \in DOMAIN S
    PROVE  LET T == MarkScanFailed(S, i)
           IN  /\ OnlyRow(S, T, i)
               /\ S[i].status = "running" => T[i].status = "failed"
               /\ S[i].status # "running" => T[i] = S[i]
  <1> DEFINE r == [S[i] EXCEPT !.status = "failed"]
  <1>1. S[i] \in ScanRow
    BY ElementOfSeq, LenProperties DEF ScanTable
  <1>2. r \in ScanRow /\ r.status = "failed"
    BY <1>1 DEF ScanRow, ScanStatus
  <1>3. OnlyRow(S, S, i)
    BY DEF OnlyRow
  <1> QED
    BY <1>2, <1>3, RowOverwritten DEF MarkScanFailed, IfRunning

(* replace_findings and mark_scan_completed together touch one row.        *)
LEMMA ScanSaved ==
    ASSUME NEW S \in ScanTable, NEW i \in DOMAIN S, NEW v \in VersionOrNone
    PROVE  OnlyRow(S, MarkScanCompleted(ReplaceFindings(S, i, v), i), i)
  <1> DEFINE r == [S[i] EXCEPT !.findings = v]
             T == ReplaceFindings(S, i, v)
             q == [T[i] EXCEPT !.status = "completed"]
  <1>1. S[i] \in ScanRow
    BY ElementOfSeq, LenProperties DEF ScanTable
  <1>2. r \in ScanRow
    BY <1>1 DEF ScanRow
  <1>3. OnlyRow(S, T, i) /\ T[i] = r
    BY <1>2, RowOverwritten DEF ReplaceFindings
  <1>4. q \in ScanRow
    BY <1>2, <1>3 DEF ScanRow, ScanStatus
  <1>5. T \in ScanTable /\ i \in DOMAIN T
    BY <1>3 DEF OnlyRow
  <1>6. OnlyRow(T, [T EXCEPT ![i] = q], i)
    <2> HIDE DEF T, q
    <2> QED BY <1>4, <1>5, RowOverwritten
  <1> QED
    BY <1>3, <1>6 DEF MarkScanCompleted, IfRunning, OnlyRow

-----------------------------------------------------------------------------
(* Rows *)

(* T is table S but for row i, which is still of the same package.         *)
RowMoved(S, T, i) == OnlyRow(S, T, i) /\ T[i].pkg = S[i].pkg

LEMMA RowClaimed ==
    ASSUME NEW S \in ScanTable, NEW i \in DOMAIN S
    PROVE  LET T == ClaimQueuedScan(S, i)
           IN  /\ RowMoved(S, T, i)
               /\ T[i].status = "running" /\ T[i].latest = S[i].latest
               /\ T[i].findings = S[i].findings
<1> DEFINE r == [S[i] EXCEPT !.status = "running"]
<1>1. S[i] \in ScanRow
  BY ElementOfSeq, LenProperties DEF ScanTable
<1>2. /\ r \in ScanRow /\ r.status = "running" /\ r.pkg = S[i].pkg
      /\ r.latest = S[i].latest /\ r.findings = S[i].findings
  BY <1>1 DEF ScanRow, ScanStatus
<1> QED
  BY <1>2, RowOverwritten DEF ClaimQueuedScan, RowMoved

LEMMA RowVersioned ==
    ASSUME NEW S \in ScanTable, NEW i \in DOMAIN S, NEW v \in Versions
    PROVE  LET T == SetScanVersions(S, i, v)
           IN  /\ RowMoved(S, T, i)
               /\ T[i].status = S[i].status /\ T[i].latest = v
               /\ T[i].findings = S[i].findings
<1> DEFINE r == [S[i] EXCEPT !.latest = v]
<1>1. S[i] \in ScanRow
  BY ElementOfSeq, LenProperties DEF ScanTable
<1>2. /\ r \in ScanRow /\ r.status = S[i].status /\ r.pkg = S[i].pkg
      /\ r.latest = v /\ r.findings = S[i].findings
  BY <1>1 DEF ScanRow, VersionOrNone
<1> QED
  BY <1>2, RowOverwritten DEF SetScanVersions, RowMoved

LEMMA RowFailed ==
    ASSUME NEW S \in ScanTable, NEW i \in DOMAIN S, S[i].status = "running"
    PROVE  LET T == MarkScanFailed(S, i)
           IN  /\ RowMoved(S, T, i)
               /\ T[i].status = "failed" /\ T[i].latest = S[i].latest
               /\ T[i].findings = S[i].findings
<1> DEFINE r == [S[i] EXCEPT !.status = "failed"]
<1>1. S[i] \in ScanRow
  BY ElementOfSeq, LenProperties DEF ScanTable
<1>2. /\ r \in ScanRow /\ r.status = "failed" /\ r.pkg = S[i].pkg
      /\ r.latest = S[i].latest /\ r.findings = S[i].findings
  BY <1>1 DEF ScanRow, ScanStatus
<1> QED
  BY <1>2, RowOverwritten DEF MarkScanFailed, IfRunning, RowMoved

LEMMA RowCompleted ==
    ASSUME NEW S \in ScanTable, NEW i \in DOMAIN S, S[i].status = "running",
           NEW v \in VersionOrNone
    PROVE  LET T == MarkScanCompleted(ReplaceFindings(S, i, v), i)
           IN  /\ RowMoved(S, T, i)
               /\ T[i].status = "completed" /\ T[i].latest = S[i].latest
               /\ T[i].findings = v
<1> DEFINE r == [S[i] EXCEPT !.findings = v]
           U == ReplaceFindings(S, i, v)
           q == [U[i] EXCEPT !.status = "completed"]
           T == MarkScanCompleted(U, i)
<1>1. S[i] \in ScanRow
  BY ElementOfSeq, LenProperties DEF ScanTable
<1>2. /\ r \in ScanRow /\ r.status = "running" /\ r.pkg = S[i].pkg
      /\ r.latest = S[i].latest /\ r.findings = v
  BY <1>1 DEF ScanRow
<1>3. OnlyRow(S, U, i) /\ U[i] = r
  BY <1>2, RowOverwritten DEF ReplaceFindings
<1>4. U \in ScanTable /\ i \in DOMAIN U /\ DOMAIN U = DOMAIN S
  BY <1>3 DEF OnlyRow
<1>5. /\ q \in ScanRow /\ q.status = "completed" /\ q.pkg = S[i].pkg
      /\ q.latest = S[i].latest /\ q.findings = v
  BY <1>2, <1>3 DEF ScanRow, ScanStatus
<1>6. T = [U EXCEPT ![i].status = "completed"]
  BY <1>2, <1>3 DEF MarkScanCompleted, IfRunning
<1>7. T = [U EXCEPT ![i] = q]
  BY <1>6
<1> HIDE DEF U, q, T
<1>8. OnlyRow(U, T, i) /\ T[i] = q
  BY <1>4, <1>5, <1>7, RowOverwritten
<1>9. RowMoved(S, T, i)
  BY <1>3, <1>4, <1>5, <1>8 DEF OnlyRow, RowMoved
<1> QED
  BY <1>5, <1>8, <1>9 DEF T, U

(* Saving a result leaves its row no longer running, whatever it was.      *)
LEMMA SavedNotRunning ==
    ASSUME NEW S \in ScanTable, NEW i \in DOMAIN S, NEW v \in VersionOrNone
    PROVE  MarkScanCompleted(ReplaceFindings(S, i, v), i)[i].status # "running"
<1> DEFINE U == ReplaceFindings(S, i, v)
<1>1. CASE S[i].status = "running"
  BY <1>1, RowCompleted
<1>2. CASE S[i].status # "running"
  <2>1. U[i].status = S[i].status
    <3>1. S[i] \in ScanRow
      BY ElementOfSeq, LenProperties DEF ScanTable
    <3> QED  BY <3>1 DEF ReplaceFindings, ScanRow
  <2> HIDE DEF U
  <2>2. MarkScanCompleted(U, i) = U
    BY <1>2, <2>1 DEF MarkScanCompleted, IfRunning
  <2> QED  BY <1>2, <2>1, <2>2 DEF U
<1> QED  BY <1>1, <1>2

(* A new row is at the end of the table.                                   *)
LEMMA RowCreated ==
    ASSUME NEW S \in ScanTable, NEW p \in Packages, NEW st \in ScanStatus
    PROVE  LET T == CreateScanResult(S, p, st)
           IN  /\ T \in ScanTable /\ Len(T) = Len(S) + 1
               /\ \A j \in 1 .. Len(S) : T[j] = S[j]
               /\ T[Len(T)] = [pkg |-> p, status |-> st, latest |-> NoVersion,
                               findings |-> NoVersion]
<1> DEFINE row == [pkg |-> p, status |-> st, latest |-> NoVersion, findings |-> NoVersion]
<1>1. row \in ScanRow
  BY DEF ScanRow, VersionOrNone
<1> QED
  BY <1>1, AppendProperties DEF CreateScanResult, ScanTable

LEMMA NewRowFields ==
    ASSUME NEW S \in ScanTable, NEW p \in Packages, NEW st \in ScanStatus
    PROVE  LET T == CreateScanResult(S, p, st)
           IN  /\ RowAdded(S, T, st)
               /\ T[Len(T)].pkg = p /\ T[Len(T)].findings = NoVersion
<1> DEFINE T == CreateScanResult(S, p, st)
<1>1. RowAdded(S, T, st)
  BY ScanCreated
<1>2. T[Len(T)] = [pkg |-> p, status |-> st, latest |-> NoVersion, findings |-> NoVersion]
  BY RowCreated
<1> HIDE DEF T
<1>3. T[Len(T)].pkg = p /\ T[Len(T)].findings = NoVersion
  BY <1>2
<1> QED  BY <1>1, <1>3 DEF T

-----------------------------------------------------------------------------
(* A table as a history of scan attempts, the view ScanAttempts gives of it. *)
AttemptRow == [pkg : Packages, status : ScanStatus, result : VersionOrNone]

(* The attempt that row i of table S stands for.                           *)
Seen(S, i) == [pkg |-> S[i].pkg, status |-> S[i].status, result |-> S[i].findings]

AttemptsIn(S) == [i \in DOMAIN S |-> Seen(S, i)]

LEMMA AttemptsTyped ==
    ASSUME NEW S \in ScanTable
    PROVE  /\ AttemptsIn(S) \in Seq(AttemptRow)
           /\ Len(AttemptsIn(S)) = Len(S)
           /\ DOMAIN AttemptsIn(S) = DOMAIN S
           /\ \A i \in DOMAIN S : AttemptsIn(S)[i] = Seen(S, i)
<1>1. Len(S) \in Nat /\ DOMAIN S = 1 .. Len(S) /\ \A i \in DOMAIN S : S[i] \in ScanRow
  BY LenProperties, ElementOfSeq DEF ScanTable
<1>2. \A i \in DOMAIN S : Seen(S, i) \in AttemptRow
  BY <1>1 DEF Seen, AttemptRow, ScanRow
<1>3. AttemptsIn(S) \in [1 .. Len(S) -> AttemptRow]
  BY <1>1, <1>2 DEF AttemptsIn
<1>4. AttemptsIn(S) \in Seq(AttemptRow)
  BY <1>1, <1>3, SeqDef
<1>5. DOMAIN AttemptsIn(S) = 1 .. Len(S)
  BY <1>1 DEF AttemptsIn
<1>6. Len(AttemptsIn(S)) = Len(S)
  BY <1>1, <1>4, <1>5, LenProperties
<1> QED  BY <1>1, <1>4, <1>5, <1>6 DEF AttemptsIn

(* A new row is a new attempt at the end of the history ...                *)
LEMMA AttemptAppended ==
    ASSUME NEW S \in ScanTable, NEW p \in Packages, NEW st \in ScanStatus
    PROVE  AttemptsIn(CreateScanResult(S, p, st)) =
              Append(AttemptsIn(S), [pkg |-> p, status |-> st, result |-> NoVersion])
<1> DEFINE T == CreateScanResult(S, p, st)
           new == [pkg |-> p, status |-> st, result |-> NoVersion]
           H == Append(AttemptsIn(S), new)
<1>1. /\ T \in ScanTable /\ Len(T) = Len(S) + 1
      /\ \A j \in 1 .. Len(S) : T[j] = S[j]
      /\ T[Len(T)] = [pkg |-> p, status |-> st, latest |-> NoVersion,
                      findings |-> NoVersion]
  BY RowCreated
<1>2. new \in AttemptRow
  BY DEF AttemptRow, VersionOrNone
<1> HIDE DEF T, new
<1>3. Len(S) \in Nat /\ DOMAIN S = 1 .. Len(S) /\ DOMAIN T = 1 .. Len(S) + 1
  BY <1>1, LenProperties DEF ScanTable
<1>4. /\ H \in Seq(AttemptRow) /\ Len(H) = Len(S) + 1
      /\ \A i \in 1 .. Len(S) : H[i] = AttemptsIn(S)[i]
      /\ H[Len(S) + 1] = new
  BY <1>2, AttemptsTyped, AppendProperties
<1> HIDE DEF H
<1>5. AttemptsIn(T) \in Seq(AttemptRow) /\ Len(AttemptsIn(T)) = Len(S) + 1
  BY <1>1, AttemptsTyped
<1>6. ASSUME NEW i \in 1 .. Len(S) + 1
      PROVE  AttemptsIn(T)[i] = H[i]
  <2>1. AttemptsIn(T)[i] = Seen(T, i)
    BY <1>1, <1>3, AttemptsTyped
  <2>2. CASE i \in 1 .. Len(S)
    <3>1. H[i] = Seen(S, i) /\ T[i] = S[i]
      BY <1>1, <1>3, <1>4, <2>2, AttemptsTyped
    <3> QED  BY <2>1, <3>1 DEF Seen
  <2>3. CASE i = Len(S) + 1
    <3>1. Seen(T, i) = new
      BY <1>1, <2>3 DEF Seen, new
    <3> QED  BY <1>4, <2>1, <2>3, <3>1
  <2> QED  BY <1>3, <2>2, <2>3
<1>7. AttemptsIn(T) = H
  BY <1>4, <1>5, <1>6, SeqEqual
<1> QED  BY <1>7 DEF T, H, new

(* ... and a row that moves on is an attempt that does.                    *)
LEMMA AttemptMoved ==
    ASSUME NEW S \in ScanTable, NEW T, NEW i \in DOMAIN S, RowMoved(S, T, i)
    PROVE  AttemptsIn(T) = [AttemptsIn(S) EXCEPT ![i] = Seen(T, i)]
<1>1. /\ T \in ScanTable /\ DOMAIN T = DOMAIN S
      /\ \A j \in DOMAIN S : j # i => T[j] = S[j]
  BY DEF RowMoved, OnlyRow
<1>2. \A j \in DOMAIN S : j # i => Seen(T, j) = Seen(S, j)
  BY <1>1 DEF Seen
<1> QED  BY <1>1, <1>2 DEF AttemptsIn

(* Two fields of an attempt set at once.                                   *)
LEMMA AttemptEnds ==
    ASSUME NEW S, NEW i, NEW end, NEW result
    PROVE  [Seen(S, i) EXCEPT !.status = end, !.result = result]
           = [pkg |-> S[i].pkg, status |-> end, result |-> result]
<1> DEFINE p == S[i].pkg
           f == Seen(S, i)
           g == [f EXCEPT !.status = end, !.result = result]
<1>1. DOMAIN f = {"pkg", "status", "result"} /\ f.pkg = p
  BY DEF Seen
<1> HIDE DEF f, p
<1>2. DOMAIN g = {"pkg", "status", "result"}
  BY <1>1
<1>3. g.pkg = p /\ g.status = end /\ g.result = result
  BY <1>1
<1>4. g \in [pkg : {p}, status : {end}, result : {result}]
  BY <1>2, <1>3
<1> HIDE DEF g
<1>5. g = [pkg |-> p, status |-> end, result |-> result]
  BY <1>4
<1> QED  BY <1>5 DEF f, g, p
=============================================================================
