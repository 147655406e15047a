--------------------------- MODULE ServiceProofs ---------------------------
(***************************************************************************)
(* What the transactions of Catalogue keep true of the tables, what the    *)
(* read API promises its clients between them, what a batch of requests    *)
(* leaves behind, and that the tables are a history of scan attempts: for  *)
(* every page size and list, and any number of packages, versions and      *)
(* rows.                                                                   *)
(***************************************************************************)
EXTENDS Service, ScanStoreTheorems, LoopTheorems, FiniteSetTheorems

-----------------------------------------------------------------------------
(* Positions in a listing *)

(* A sequence of m distinct positions among the first m.                   *)
Ranks(m) == {rank \in Seq(1 .. m) : Len(rank) = m /\ IsInjective(rank)}

LEMMA RankFacts ==
    ASSUME NEW m \in Nat, NEW rank \in Ranks(m)
    PROVE  /\ DOMAIN rank = 1 .. m
           /\ \A i \in 1 .. m : rank[i] \in 1 .. m
           /\ \A i, j \in 1 .. m : rank[i] = rank[j] => i = j
  BY LenProperties, ElementOfSeq DEF Ranks, IsInjective

(* New rows push others down and never up.                                 *)
LEMMA InsertedRanks ==
    ASSUME NEW m \in Nat, NEW rank \in Ranks(m),
           NEW k \in 1 .. m + 1, NEW n \in Nat
    PROVE  /\ Inserted(rank, k, n) \in Ranks(m + n)
           /\ \A i \in 1 .. m : rank[i] <= Inserted(rank, k, n)[i]
<1> DEFINE new == Inserted(rank, k, n)
<1>1. /\ Len(rank) = m
      /\ \A i \in 1 .. m : rank[i] \in 1 .. m
      /\ \A i, j \in 1 .. m : rank[i] = rank[j] => i = j
  BY RankFacts DEF Ranks
<1>2. new = [i \in 1 .. m + n |->
                IF i > m THEN k + (m + n - i)
                ELSE IF rank[i] >= k THEN rank[i] + n
                ELSE rank[i]]
  BY <1>1 DEF Inserted
<1> HIDE DEF new
<1>v. ASSUME NEW i \in 1 .. m + n
      PROVE  \/ i > m /\ new[i] = k + (m + n - i)
             \/ i \in 1 .. m /\ rank[i] \in k .. m /\ new[i] = rank[i] + n
             \/ i \in 1 .. m /\ rank[i] \in 1 .. k - 1 /\ new[i] = rank[i]
  <2>1. new[i] = IF i > m THEN k + (m + n - i)
                 ELSE IF rank[i] >= k THEN rank[i] + n ELSE rank[i]
    BY <1>2
  <2>2. CASE i > m  BY <2>1, <2>2
  <2>3. CASE i \in 1 .. m
    <3>1. rank[i] \in 1 .. m  BY <1>1, <2>3
    <3> QED  BY <2>1, <2>3, <3>1
  <2> QED  BY <2>2, <2>3
<1>3. ASSUME NEW i \in 1 .. m + n
      PROVE  new[i] \in 1 .. m + n
  BY <1>v
<1>4. ASSUME NEW i \in 1 .. m + n, NEW j \in 1 .. m + n, new[i] = new[j]
      PROVE  i = j
  <2>1. CASE i \in 1 .. m /\ j \in 1 .. m
    <3>1. \/ rank[i] \in k .. m /\ new[i] = rank[i] + n
          \/ rank[i] \in 1 .. k - 1 /\ new[i] = rank[i]
      BY <1>v, <2>1
    <3>2. \/ rank[j] \in k .. m /\ new[j] = rank[j] + n
          \/ rank[j] \in 1 .. k - 1 /\ new[j] = rank[j]
      BY <1>v, <2>1
    <3>3. rank[i] = rank[j]  BY <1>4, <3>1, <3>2
    <3> QED  BY <1>1, <2>1, <3>3
  <2>2. CASE i \notin 1 .. m \/ j \notin 1 .. m
    BY <1>v, <1>4, <2>2
  <2> QED  BY <2>1, <2>2
<1>5. new \in [1 .. m + n -> 1 .. m + n]
  BY <1>2, <1>3
<1>6. new \in Seq(1 .. m + n) /\ DOMAIN new = 1 .. m + n
  BY <1>5, SeqDef
<1>7. Len(new) = m + n
  BY <1>6, LenProperties
<1>8. ASSUME NEW i \in 1 .. m
      PROVE  rank[i] <= new[i]
  <2>1. i \in 1 .. m + n  OBVIOUS
  <2> QED  BY <1>v, <2>1
<1> QED
  BY <1>4, <1>6, <1>7, <1>8 DEF Ranks, IsInjective, new

(* A row that moves up pushes others down and never up.                    *)
LEMMA RaisedRanks ==
    ASSUME NEW m \in Nat, NEW rank \in Ranks(m),
           NEW r \in 1 .. m, NEW k \in 1 .. rank[r]
    PROVE  /\ Raised(rank, r, k) \in Ranks(m)
           /\ \A i \in 1 .. m : i # r => rank[i] <= Raised(rank, r, k)[i]
<1> DEFINE new == Raised(rank, r, k)
<1>1. /\ Len(rank) = m /\ DOMAIN rank = 1 .. m
      /\ \A i \in 1 .. m : rank[i] \in 1 .. m
      /\ \A i, j \in 1 .. m : rank[i] = rank[j] => i = j
  BY RankFacts DEF Ranks
<1>2. new = [i \in 1 .. m |->
                IF i = r THEN k
                ELSE IF k <= rank[i] /\ rank[i] < rank[r] THEN rank[i] + 1
                ELSE rank[i]]
  BY <1>1 DEF Raised
<1> HIDE DEF new
<1>r. rank[r] \in 1 .. m /\ k \in 1 .. m /\ k <= rank[r]
  BY <1>1
<1>v. ASSUME NEW i \in 1 .. m, i # r
      PROVE  /\ rank[i] \in 1 .. m
             /\ \/ k <= rank[i] /\ rank[i] < rank[r] /\ new[i] = rank[i] + 1
                \/ rank[i] < k /\ new[i] = rank[i]
                \/ rank[i] > rank[r] /\ new[i] = rank[i]
  <2>1. rank[i] \in 1 .. m /\ rank[i] # rank[r]
    BY <1>1, <1>v
  <2>2. new[i] = IF k <= rank[i] /\ rank[i] < rank[r] THEN rank[i] + 1 ELSE rank[i]
    BY <1>2, <1>v
  <2> QED  BY <1>r, <2>1, <2>2
<1>w. new[r] = k
  BY <1>2
<1>3. ASSUME NEW i \in 1 .. m
      PROVE  new[i] \in 1 .. m
  <2>1. CASE i = r  BY <1>r, <1>w, <2>1
  <2>2. CASE i # r  BY <1>r, <1>v, <2>2
  <2> QED  BY <2>1, <2>2
<1>4. ASSUME NEW i \in 1 .. m, NEW j \in 1 .. m, new[i] = new[j]
      PROVE  i = j
  <2>1. CASE i = r /\ j # r
    BY <1>r, <1>v, <1>w, <1>4, <2>1
  <2>2. CASE i # r /\ j = r
    BY <1>r, <1>v, <1>w, <1>4, <2>2
  <2>3. CASE i # r /\ j # r
    <3>1. rank[i] = rank[j]
      BY <1>r, <1>v, <1>4, <2>3
    <3> QED  BY <1>1, <3>1
  <2> QED  BY <2>1, <2>2, <2>3
<1>5. new \in [1 .. m -> 1 .. m]
  BY <1>2, <1>3
<1>6. new \in Seq(1 .. m) /\ DOMAIN new = 1 .. m
  BY <1>5, SeqDef
<1>7. Len(new) = m
  BY <1>6, LenProperties
<1>8. \A i \in 1 .. m : i # r => rank[i] <= new[i]
  BY <1>v
<1> QED
  BY <1>4, <1>6, <1>7, <1>8 DEF Ranks, IsInjective, new

-----------------------------------------------------------------------------
(* The tables *)

RanksOK == startRank \in Ranks(Len(scans)) /\ findingRank \in Ranks(Len(findingOwner))

RowsCoherent ==
    /\ \A i \in DOMAIN scans :
          /\ scans[i].pkg \in known
          /\ scans[i].status = "completed" => scans[i].latest # NoVersion
          /\ scans[i].latest # NoVersion => stored[scans[i].pkg] # {}
          /\ risk[i] # "unknown" => scans[i].status = "completed"
    /\ \A p \in known : \E i \in DOMAIN scans : scans[i].pkg = p
    /\ \A p \in Packages : scanned[p] # NoVersion => stored[p] # {}

CatalogueInv == CatalogueTypeOK /\ RanksOK /\ RowsCoherent

(* What a reader may rely on between two of its statements.                *)
ScansGrown ==
    /\ Len(scans) <= Len(scans')
    /\ \A i \in DOMAIN scans :
          /\ scans'[i].pkg = scans[i].pkg
          /\ scans[i].status = "completed" => scans'[i].status = "completed"
          /\ \/ startRank[i] <= startRank'[i]
             \/ scans[i].status = "queued" /\ scans'[i].status = "running"

FindingsGrown ==
    /\ Len(findingOwner) <= Len(findingOwner')
    /\ \A f \in DOMAIN findingOwner :
          findingOwner'[f] = findingOwner[f] /\ findingRank[f] <= findingRank'[f]
    /\ \A f \in DOMAIN findingOwner' \ DOMAIN findingOwner :
          scans[findingOwner'[f]].status # "completed"

TablesGrown ==
    /\ ScansGrown /\ FindingsGrown
    /\ known \subseteq known'
    /\ \A p \in Packages : stored[p] \subseteq stored'[p]

LEMMA TableTypes ==
    ASSUME CatalogueInv
    PROVE  /\ scans \in ScanTable /\ Len(scans) \in Nat
           /\ DOMAIN scans = 1 .. Len(scans)
           /\ \A i \in DOMAIN scans : scans[i] \in ScanRow /\ scans[i].pkg \in Packages
           /\ DOMAIN risk = DOMAIN scans
           /\ DOMAIN startRank = DOMAIN scans
           /\ \A i \in DOMAIN scans : startRank[i] \in 1 .. Len(scans)
           /\ \A i, j \in DOMAIN scans : startRank[i] = startRank[j] => i = j
           /\ Len(findingOwner) \in Nat
           /\ DOMAIN findingOwner = 1 .. Len(findingOwner)
           /\ \A f \in DOMAIN findingOwner : findingOwner[f] \in DOMAIN scans
           /\ DOMAIN findingRank = DOMAIN findingOwner
           /\ \A f \in DOMAIN findingOwner : findingRank[f] \in 1 .. Len(findingOwner)
           /\ \A f, g \in DOMAIN findingOwner : findingRank[f] = findingRank[g] => f = g
<1>1. CatalogueTypeOK /\ RanksOK
  BY DEF CatalogueInv
<1>2. /\ scans \in ScanTable /\ Len(scans) \in Nat
      /\ DOMAIN scans = 1 .. Len(scans)
      /\ \A i \in DOMAIN scans : scans[i] \in ScanRow
  BY <1>1, LenProperties, ElementOfSeq DEF CatalogueTypeOK, ScanTable
<1>3. \A i \in DOMAIN scans : scans[i].pkg \in Packages
  BY <1>2 DEF ScanRow
<1>4. DOMAIN risk = DOMAIN scans
  BY <1>1, <1>2, LenProperties DEF CatalogueTypeOK
<1>5. /\ Len(findingOwner) \in Nat /\ DOMAIN findingOwner = 1 .. Len(findingOwner)
      /\ \A f \in DOMAIN findingOwner : findingOwner[f] \in DOMAIN scans
  BY <1>1, LenProperties, ElementOfSeq DEF CatalogueTypeOK
<1>6. /\ DOMAIN startRank = DOMAIN scans
      /\ \A i \in DOMAIN scans : startRank[i] \in 1 .. Len(scans)
      /\ \A i, j \in DOMAIN scans : startRank[i] = startRank[j] => i = j
  BY <1>1, <1>2, RankFacts DEF RanksOK
<1>7. /\ DOMAIN findingRank = DOMAIN findingOwner
      /\ \A f \in DOMAIN findingOwner : findingRank[f] \in 1 .. Len(findingOwner)
      /\ \A f, g \in DOMAIN findingOwner : findingRank[f] = findingRank[g] => f = g
  BY <1>1, <1>5, RankFacts DEF RanksOK
<1> QED
  BY <1>2, <1>3, <1>4, <1>5, <1>6, <1>7

LEMMA TablesStart == CatalogueInit => CatalogueInv
<1> SUFFICES ASSUME CatalogueInit PROVE CatalogueInv
  OBVIOUS
<1> USE DEF CatalogueInit
<1>1. /\ \A S : << >> \in Seq(S)
      /\ Len(<< >>) = 0 /\ DOMAIN << >> = {}
  BY EmptySeq, LenProperties
<1>2. CatalogueTypeOK
  BY <1>1 DEF CatalogueTypeOK, VersionOrNone
<1>3. RanksOK
  BY <1>1 DEF RanksOK, Ranks, IsInjective
<1>4. RowsCoherent
  BY <1>1 DEF RowsCoherent
<1> QED  BY <1>2, <1>3, <1>4 DEF CatalogueInv

(* A transaction that records a new attempt.                               *)
LEMMA ScanAdded ==
    ASSUME CatalogueInv, NEW p \in Packages, NEW st \in {"queued", "running"},
           NewScan(p, st), UNCHANGED <<findingOwner, findingRank, scanned, stored>>
    PROVE  CatalogueInv' /\ TablesGrown
<1> DEFINE m == Len(scans)
<1>1. /\ scans' \in ScanTable /\ Len(scans') = m + 1
      /\ \A j \in 1 .. m : scans'[j] = scans[j]
      /\ scans'[m + 1] = [pkg |-> p, status |-> st, latest |-> NoVersion,
                          findings |-> NoVersion]
  <2>1. scans \in ScanTable /\ st \in ScanStatus
    BY TableTypes DEF ScanStatus
  <2>2. scans' = CreateScanResult(scans, p, st)
    BY DEF NewScan, UpsertPackage
  <2> QED  BY <2>1, <2>2, RowCreated
<1>2. m \in Nat /\ DOMAIN scans = 1 .. m /\ DOMAIN scans' = 1 .. m + 1
  BY <1>1, TableTypes, LenProperties DEF ScanTable
<1>3. /\ risk' \in Seq(RiskLevel) /\ Len(risk') = m + 1
      /\ \A j \in 1 .. m : risk'[j] = risk[j]
      /\ risk'[m + 1] = "unknown"
  BY AppendProperties DEF NewScan, UpsertPackage, CatalogueInv, CatalogueTypeOK, RiskLevel
<1>4. PICK k \in 1 .. m + 1 : startRank' = Inserted(startRank, k, 1)
  BY DEF NewScan, UpsertPackage
<1>5. /\ startRank' \in Ranks(m + 1)
      /\ \A i \in 1 .. m : startRank[i] <= startRank'[i]
  BY <1>2, <1>4, InsertedRanks DEF CatalogueInv, RanksOK
<1>6. known' = known \cup {p}
  BY DEF NewScan, UpsertPackage
<1>7. findingOwner' \in Seq(DOMAIN scans')
  <2>1. findingOwner \in Seq(DOMAIN scans) /\ DOMAIN scans \subseteq DOMAIN scans'
    BY <1>2 DEF CatalogueInv, CatalogueTypeOK
  <2> QED  BY <2>1, SeqMonotonic
<1>8. CatalogueTypeOK'
  <2>1. startRank' \in Seq(1 .. Len(scans')) /\ Len(startRank') = Len(scans')
    BY <1>1, <1>5 DEF Ranks
  <2> QED
    BY <1>1, <1>3, <1>6, <1>7, <2>1 DEF CatalogueInv, CatalogueTypeOK, ScanTable
<1>9. RanksOK'
  BY <1>1, <1>5 DEF CatalogueInv, RanksOK
<1>10. RowsCoherent'
  <2>1. ASSUME NEW i \in DOMAIN scans'
        PROVE  /\ scans'[i].pkg \in known'
               /\ scans'[i].status = "completed" => scans'[i].latest # NoVersion
               /\ scans'[i].latest # NoVersion => stored'[scans'[i].pkg] # {}
               /\ risk'[i] # "unknown" => scans'[i].status = "completed"
    <3>1. CASE i \in 1 .. m
      BY <1>1, <1>2, <1>3, <1>6, <3>1 DEF CatalogueInv, RowsCoherent
    <3>2. CASE i = m + 1
      BY <1>1, <1>3, <1>6, <3>2
    <3> QED  BY <1>2, <3>1, <3>2
  <2>2. ASSUME NEW q \in known'
        PROVE  \E i \in DOMAIN scans' : scans'[i].pkg = q
    <3>1. CASE q \in known
      BY <1>1, <1>2, <3>1 DEF CatalogueInv, RowsCoherent
    <3>2. CASE q = p
      BY <1>1, <1>2, <3>2
    <3> QED  BY <1>6, <3>1, <3>2
  <2> QED  BY <2>1, <2>2 DEF CatalogueInv, RowsCoherent
<1>11. TablesGrown
  <2>1. ScansGrown
    BY <1>1, <1>2, <1>5 DEF ScansGrown
  <2>2. FindingsGrown
    BY TableTypes DEF FindingsGrown
  <2> QED  BY <1>6, <2>1, <2>2 DEF TablesGrown
<1> QED  BY <1>8, <1>9, <1>10, <1>11 DEF CatalogueInv

(* A claim moves one row up in the listing.                                *)
LEMMA ScanTaken ==
    ASSUME CatalogueInv, NEW i \in DOMAIN scans, scans[i].status = "queued", Claim(i),
           UNCHANGED <<known, risk, findingOwner, findingRank, scanned, stored>>
    PROVE  CatalogueInv' /\ TablesGrown
<1> DEFINE m == Len(scans)
<1>1. /\ RowMoved(scans, scans', i)
      /\ scans'[i].status = "running" /\ scans'[i].latest = scans[i].latest
  BY TableTypes, RowClaimed DEF Claim
<1>2. /\ scans' \in ScanTable /\ DOMAIN scans' = 1 .. m /\ Len(scans') = m
      /\ m \in Nat /\ DOMAIN scans = 1 .. m
      /\ \A j \in 1 .. m : j # i => scans'[j] = scans[j]
      /\ scans'[i].pkg = scans[i].pkg
  BY <1>1, TableTypes, LenProperties DEF RowMoved, OnlyRow, ScanTable
<1>3. PICK k \in 1 .. startRank[i] : startRank' = Raised(startRank, i, k)
  BY DEF Claim
<1>4. /\ startRank' \in Ranks(m)
      /\ \A j \in 1 .. m : j # i => startRank[j] <= startRank'[j]
  BY <1>2, <1>3, RaisedRanks DEF CatalogueInv, RanksOK
<1>5. CatalogueTypeOK'
  <2>1. startRank' \in Seq(1 .. Len(scans')) /\ Len(startRank') = Len(scans')
    BY <1>2, <1>4 DEF Ranks
  <2>2. DOMAIN scans' = DOMAIN scans
    BY <1>2
  <2> QED
    BY <1>2, <2>1, <2>2 DEF CatalogueInv, CatalogueTypeOK, ScanTable
<1>6. RanksOK'
  BY <1>2, <1>4 DEF CatalogueInv, RanksOK
<1>7. RowsCoherent'
  <2>1. ASSUME NEW j \in DOMAIN scans'
        PROVE  /\ scans'[j].pkg \in known'
               /\ scans'[j].status = "completed" => scans'[j].latest # NoVersion
               /\ scans'[j].latest # NoVersion => stored'[scans'[j].pkg] # {}
               /\ risk'[j] # "unknown" => scans'[j].status = "completed"
    <3>1. CASE j = i
      BY <1>1, <1>2, <3>1 DEF CatalogueInv, RowsCoherent
    <3>2. CASE j # i
      <4>1. scans'[j] = scans[j] /\ j \in DOMAIN scans
        BY <1>2, <3>2
      <4> QED  BY <4>1 DEF CatalogueInv, RowsCoherent
    <3> QED  BY <3>1, <3>2
  <2>2. ASSUME NEW q \in known'
        PROVE  \E j \in DOMAIN scans' : scans'[j].pkg = q
    BY <1>1, <1>2 DEF CatalogueInv, RowsCoherent
  <2> QED  BY <2>1, <2>2 DEF CatalogueInv, RowsCoherent
<1>8. TablesGrown
  <2>1. ScansGrown
    BY <1>1, <1>2, <1>4 DEF ScansGrown
  <2>2. FindingsGrown
    BY TableTypes DEF FindingsGrown
  <2> QED  BY <2>1, <2>2 DEF TablesGrown
<1> QED  BY <1>5, <1>6, <1>7, <1>8 DEF CatalogueInv

(* A transaction that changes one row and leaves the listings alone.       *)
LEMMA RowRewritten ==
    ASSUME CatalogueInv, NEW i \in DOMAIN scans, RowMoved(scans, scans', i),
           scans[i].status # "completed", scans'[i].status # "completed",
           scans'[i].latest # NoVersion => stored'[scans[i].pkg] # {},
           stored' \in [Packages -> SUBSET Versions],
           \A p \in Packages : stored[p] \subseteq stored'[p],
           UNCHANGED <<risk, startRank, findingOwner, findingRank, known, scanned>>
    PROVE  CatalogueInv' /\ TablesGrown
<1>1. /\ scans' \in ScanTable /\ DOMAIN scans' = DOMAIN scans /\ Len(scans') = Len(scans)
      /\ DOMAIN scans = 1 .. Len(scans)
      /\ \A j \in DOMAIN scans : j # i => scans'[j] = scans[j]
      /\ scans'[i].pkg = scans[i].pkg
  BY TableTypes, LenProperties DEF RowMoved, OnlyRow, ScanTable
<1>2. CatalogueTypeOK'
  BY <1>1 DEF CatalogueInv, CatalogueTypeOK, ScanTable
<1>3. RanksOK'
  BY <1>1 DEF CatalogueInv, RanksOK
<1>4. RowsCoherent'
  <2>1. ASSUME NEW j \in DOMAIN scans'
        PROVE  /\ scans'[j].pkg \in known'
               /\ scans'[j].status = "completed" => scans'[j].latest # NoVersion
               /\ scans'[j].latest # NoVersion => stored'[scans'[j].pkg] # {}
               /\ risk'[j] # "unknown" => scans'[j].status = "completed"
    <3>1. CASE j = i
      BY <1>1, <3>1 DEF CatalogueInv, RowsCoherent
    <3>2. CASE j # i
      <4>1. scans'[j] = scans[j] /\ j \in DOMAIN scans /\ scans[j].pkg \in Packages
        BY <1>1, <3>2, TableTypes
      <4>2. stored[scans[j].pkg] \subseteq stored'[scans[j].pkg]
        BY <4>1
      <4> QED  BY <4>1, <4>2 DEF CatalogueInv, RowsCoherent
    <3> QED  BY <3>1, <3>2
  <2>2. ASSUME NEW q \in known'
        PROVE  \E j \in DOMAIN scans' : scans'[j].pkg = q
    <3>1. PICK j \in DOMAIN scans : scans[j].pkg = q
      BY DEF CatalogueInv, RowsCoherent
    <3>2. scans'[j].pkg = q
      BY <1>1, <3>1
    <3> QED  BY <1>1, <3>2
  <2>3. \A p \in Packages : scanned'[p] # NoVersion => stored'[p] # {}
    BY DEF CatalogueInv, RowsCoherent
  <2> QED  BY <2>1, <2>2, <2>3 DEF RowsCoherent
<1>5. TablesGrown
  <2>1. ScansGrown
    <3>1. \A j \in DOMAIN scans : scans'[j].pkg = scans[j].pkg
      BY <1>1
    <3>2. \A j \in DOMAIN scans :
             scans[j].status = "completed" => scans'[j].status = "completed"
      BY <1>1
    <3>3. \A j \in DOMAIN scans : startRank[j] <= startRank'[j]
      BY TableTypes
    <3>4. Len(scans) <= Len(scans')
      BY <1>1, TableTypes
    <3> QED  BY <3>1, <3>2, <3>3, <3>4 DEF ScansGrown
  <2>2. FindingsGrown
    BY TableTypes DEF FindingsGrown
  <2> QED  BY <2>1, <2>2 DEF TablesGrown
<1> QED  BY <1>2, <1>3, <1>4, <1>5 DEF CatalogueInv

LEMMA ScanVersioned ==
    ASSUME CatalogueInv, NEW i \in DOMAIN scans, StoreVersions(i)
    PROVE  CatalogueInv' /\ TablesGrown
<1>1. PICK v \in Versions : WriteVersions(i, v)
  BY DEF StoreVersions
<1>2. /\ RowMoved(scans, scans', i) /\ scans'[i].status = scans[i].status
      /\ scans'[i].latest = v
  BY <1>1, TableTypes, RowVersioned DEF WriteVersions
<1>3. scans[i].status = "running" /\ scans[i].pkg \in Packages
  BY TableTypes DEF StoreVersions, IsRunning
<1>4. stored \in [Packages -> SUBSET Versions]
  BY DEF CatalogueInv, CatalogueTypeOK
<1>5. /\ stored' = [stored EXCEPT ![scans[i].pkg] = @ \cup ({v, v - 1} \cap Versions)]
      /\ v \in stored'[scans[i].pkg]
  BY <1>1, <1>3, <1>4 DEF WriteVersions
<1>6. stored' \in [Packages -> SUBSET Versions]
  BY <1>4, <1>5
<1>7. \A p \in Packages : stored[p] \subseteq stored'[p]
  BY <1>4, <1>5
<1> QED
  BY <1>2, <1>3, <1>5, <1>6, <1>7, RowRewritten DEF StoreVersions

LEMMA ScanAborted ==
    ASSUME CatalogueInv, NEW i \in DOMAIN scans, FailScan(i)
    PROVE  CatalogueInv' /\ TablesGrown
<1>1. scans[i].status = "running" /\ scans[i].pkg \in Packages
  BY TableTypes DEF FailScan, IsRunning
<1>2. /\ RowMoved(scans, scans', i) /\ scans'[i].status = "failed"
      /\ scans'[i].latest = scans[i].latest
  BY <1>1, TableTypes, RowFailed DEF FailScan
<1>3. stored' = stored /\ stored \in [Packages -> SUBSET Versions]
  BY DEF FailScan, CatalogueInv, CatalogueTypeOK
<1>4. scans'[i].latest # NoVersion => stored'[scans[i].pkg] # {}
  BY <1>2, <1>3 DEF CatalogueInv, RowsCoherent
<1> QED
  BY <1>1, <1>2, <1>3, <1>4, RowRewritten DEF FailScan

(* The last transaction of a scan: findings, result and package.           *)
LEMMA ScanFinished ==
    ASSUME CatalogueInv, NEW i \in DOMAIN scans, CompleteScan(i)
    PROVE  CatalogueInv' /\ TablesGrown
<1> DEFINE m == Len(findingOwner)
           pkg == scans[i].pkg
<1>1. /\ scans[i].status = "running" /\ pkg \in Packages /\ pkg \in known
      /\ scans[i].latest \in Versions /\ stored[pkg] # {}
  BY TableTypes DEF CompleteScan, IsRunning, CatalogueInv, RowsCoherent,
                    ScanRow, VersionOrNone
<1>2. /\ RowMoved(scans, scans', i) /\ scans'[i].status = "completed"
      /\ scans'[i].latest = scans[i].latest
  BY <1>1, TableTypes, RowCompleted DEF CompleteScan, VersionOrNone
<1>3. /\ scans' \in ScanTable /\ DOMAIN scans' = DOMAIN scans /\ Len(scans') = Len(scans)
      /\ \A j \in DOMAIN scans : j # i => scans'[j] = scans[j]
      /\ scans'[i].pkg = pkg
  BY <1>2, TableTypes, LenProperties DEF RowMoved, OnlyRow, ScanTable
<1>4. PICK r \in RiskLevels : risk' = [risk EXCEPT ![i] = r]
  BY DEF CompleteScan
<1>5. /\ risk' \in Seq(RiskLevel) /\ Len(risk') = Len(scans)
      /\ \A j \in DOMAIN scans : j # i => risk'[j] = risk[j]
  <2>1. /\ risk \in Seq(RiskLevel) /\ Len(risk) = Len(scans)
        /\ i \in 1 .. Len(risk) /\ r \in RiskLevel
    BY TableTypes DEF CatalogueInv, CatalogueTypeOK, RiskLevel
  <2> QED  BY <1>4, <2>1, ExceptSeq, TableTypes
<1>6. PICK n \in 0 .. MaxFindings - m, k \in 1 .. Len(findingRank) + 1 :
         /\ findingOwner' = findingOwner \o [j \in 1 .. n |-> i]
         /\ findingRank' = Inserted(findingRank, k, n)
  BY DEF CompleteScan
<1>7. /\ m \in Nat /\ n \in Nat /\ Len(findingRank) = m /\ k \in 1 .. m + 1
      /\ DOMAIN findingOwner = 1 .. m
  BY <1>6, TableTypes, CatalogueAssumption DEF CatalogueInv, CatalogueTypeOK
<1>8. /\ findingRank' \in Ranks(m + n)
      /\ \A f \in 1 .. m : findingRank[f] <= findingRank'[f]
  BY <1>6, <1>7, InsertedRanks DEF CatalogueInv, RanksOK
<1>9. /\ findingOwner' \in Seq(DOMAIN scans) /\ Len(findingOwner') = m + n
      /\ DOMAIN findingOwner' = 1 .. m + n
      /\ \A f \in 1 .. m : findingOwner'[f] = findingOwner[f]
      /\ \A f \in (1 .. m + n) \ (1 .. m) : findingOwner'[f] = i
  <2> DEFINE new == [j \in 1 .. n |-> i]
  <2>1. new \in [1 .. n -> DOMAIN scans]
    OBVIOUS
  <2>2. new \in Seq(DOMAIN scans) /\ DOMAIN new = 1 .. n
    BY <1>7, <2>1, SeqDef
  <2>3. Len(new) = n
    BY <1>7, <2>2, LenProperties
  <2>4. \A j \in 1 .. n : new[j] = i
    OBVIOUS
  <2>5. findingOwner \in Seq(DOMAIN scans)
    BY DEF CatalogueInv, CatalogueTypeOK
  <2> HIDE DEF new
  <2>6. /\ findingOwner \o new \in Seq(DOMAIN scans)
        /\ Len(findingOwner \o new) = m + n
        /\ \A f \in 1 .. m + n : (findingOwner \o new)[f] =
               IF f <= m THEN findingOwner[f] ELSE new[f - m]
    BY <2>2, <2>3, <2>5, ConcatProperties
  <2>7. findingOwner' = findingOwner \o new
    BY <1>6 DEF new
  <2>8. ASSUME NEW f \in (1 .. m + n) \ (1 .. m)
        PROVE  findingOwner'[f] = i
    <3>1. f \in 1 .. m + n /\ ~(f <= m) /\ f - m \in 1 .. n
      BY <1>7, <2>8
    <3>2. (findingOwner \o new)[f] = new[f - m]
      BY <2>6, <3>1
    <3> QED  BY <2>4, <2>7, <3>1, <3>2
  <2>9. ASSUME NEW f \in 1 .. m
        PROVE  findingOwner'[f] = findingOwner[f]
    <3>1. f \in 1 .. m + n /\ f <= m
      BY <1>7, <2>9
    <3> QED  BY <2>6, <2>7, <3>1
  <2> QED  BY <2>6, <2>7, <2>8, <2>9, LenProperties
<1>10. scanned' = [scanned EXCEPT ![pkg] = scans[i].latest] /\ UNCHANGED <<startRank, known, stored>>
  BY DEF CompleteScan
<1>11. CatalogueTypeOK'
  <2>1. findingRank' \in Seq(1 .. Len(findingOwner')) /\ Len(findingRank') = Len(findingOwner')
    BY <1>8, <1>9 DEF Ranks
  <2>2. scanned' \in [Packages -> VersionOrNone]
    BY <1>1, <1>10 DEF CatalogueInv, CatalogueTypeOK, VersionOrNone
  <2> QED
    BY <1>3, <1>5, <1>9, <1>10, <2>1, <2>2 DEF CatalogueInv, CatalogueTypeOK, ScanTable
<1>12. RanksOK'
  BY <1>3, <1>8, <1>9, <1>10 DEF CatalogueInv, RanksOK
<1>13. RowsCoherent'
  <2>1. ASSUME NEW j \in DOMAIN scans'
        PROVE  /\ scans'[j].pkg \in known'
               /\ scans'[j].status = "completed" => scans'[j].latest # NoVersion
               /\ scans'[j].latest # NoVersion => stored'[scans'[j].pkg] # {}
               /\ risk'[j] # "unknown" => scans'[j].status = "completed"
    <3>1. CASE j = i
      BY <1>1, <1>2, <1>3, <1>10, <3>1 DEF Versions, NoVersion
    <3>2. CASE j # i
      <4>1. scans'[j] = scans[j] /\ j \in DOMAIN scans /\ risk'[j] = risk[j]
        BY <1>3, <1>5, <3>2
      <4> QED  BY <1>10, <4>1 DEF CatalogueInv, RowsCoherent
    <3> QED  BY <3>1, <3>2
  <2>2. ASSUME NEW q \in known'
        PROVE  \E j \in DOMAIN scans' : scans'[j].pkg = q
    <3>1. PICK j \in DOMAIN scans : scans[j].pkg = q
      BY <1>10 DEF CatalogueInv, RowsCoherent
    <3>2. scans'[j].pkg = q
      BY <1>3, <3>1
    <3> QED  BY <1>3, <3>2
  <2>3. \A p \in Packages : scanned'[p] # NoVersion => stored'[p] # {}
    BY <1>1, <1>10 DEF CatalogueInv, RowsCoherent, CatalogueTypeOK
  <2> QED  BY <2>1, <2>2, <2>3 DEF RowsCoherent
<1>14. TablesGrown
  <2>1. ScansGrown
    <3>1. \A j \in DOMAIN scans : scans'[j].pkg = scans[j].pkg
      BY <1>3
    <3>2. \A j \in DOMAIN scans :
             scans[j].status = "completed" => scans'[j].status = "completed"
      BY <1>2, <1>3
    <3>3. \A j \in DOMAIN scans : startRank[j] <= startRank'[j]
      BY <1>10, TableTypes
    <3>4. Len(scans) <= Len(scans')
      BY <1>3, TableTypes
    <3> QED  BY <3>1, <3>2, <3>3, <3>4 DEF ScansGrown
  <2>2. FindingsGrown
    BY <1>1, <1>7, <1>8, <1>9 DEF FindingsGrown
  <2> QED  BY <1>10, <2>1, <2>2 DEF TablesGrown
<1> QED  BY <1>11, <1>12, <1>13, <1>14 DEF CatalogueInv

(* Every transaction keeps the tables coherent and only adds to them.      *)
LEMMA TablesKept ==
    ASSUME CatalogueInv, PipelineStep \/ \E p \in Packages : RecordRequest(p)
    PROVE  CatalogueInv' /\ TablesGrown
<1>1. ASSUME NEW p \in Packages, RecordRequest(p)
      PROVE  CatalogueInv' /\ TablesGrown
  BY <1>1, ScanAdded DEF RecordRequest
<1>2. ASSUME NEW p \in Packages, StartScan(p)
      PROVE  CatalogueInv' /\ TablesGrown
  <2>1. ASSUME NEW i \in DOMAIN scans, IsNextQueuedScan(scans, p, i), Claim(i),
               UNCHANGED <<known, risk>>
        PROVE  CatalogueInv' /\ TablesGrown
    <3>1. scans[i].status = "queued"
      BY <2>1 DEF IsNextQueuedScan, ScansWith
    <3> QED  BY <1>2, <2>1, <3>1, ScanTaken DEF StartScan
  <2>2. CASE NewScan(p, "running")
    BY <1>2, <2>2, ScanAdded DEF StartScan
  <2> QED  BY <1>2, <2>1, <2>2 DEF StartScan
<1>3. ASSUME NEW i \in DOMAIN scans, StoreVersions(i) \/ CompleteScan(i) \/ FailScan(i)
      PROVE  CatalogueInv' /\ TablesGrown
  BY <1>3, ScanVersioned, ScanFinished, ScanAborted
<1> QED  BY <1>1, <1>2, <1>3 DEF PipelineStep

-----------------------------------------------------------------------------
(* Listings *)

(* The rows of a listing have distinct positions among as many.            *)
Ranked == /\ IsFiniteSet(Rows) /\ Cardinality(Rows) \in Nat
          /\ \A i \in Rows : Position(i) \in 1 .. Cardinality(Rows)
          /\ \A i, j \in Rows : Position(i) = Position(j) => i = j

From(S, i) == {v \in S : v >= i}

LEMMA VersionsRanked ==
    ASSUME NEW S \in SUBSET Versions
    PROVE  /\ IsFiniteSet(S) /\ Cardinality(S) \in Nat
           /\ \A i \in S : Cardinality(From(S, i)) \in 1 .. Cardinality(S)
           /\ \A i, j \in S : Cardinality(From(S, i)) = Cardinality(From(S, j)) => i = j
<1>1. IsFiniteSet(Versions)
  BY FS_Interval, MaxVersionAssumption DEF Versions
<1>2. IsFiniteSet(S) /\ Cardinality(S) \in Nat
  BY <1>1, FS_Subset, FS_CardinalityType
<1>3. ASSUME NEW T \in SUBSET S
      PROVE  /\ IsFiniteSet(T) /\ Cardinality(T) \in Nat /\ Cardinality(T) <= Cardinality(S)
             /\ T # {} => Cardinality(T) # 0
  BY <1>2, FS_Subset, FS_CardinalityType, FS_EmptySet
<1>4. \A i \in S : i \in Nat /\ i \in From(S, i) /\ From(S, i) \in SUBSET S
  BY DEF Versions, From
<1>5. ASSUME NEW i \in S
      PROVE  Cardinality(From(S, i)) \in 1 .. Cardinality(S)
  <2>1. From(S, i) \in SUBSET S /\ From(S, i) # {}
    BY <1>4
  <2> QED  BY <1>2, <1>3, <2>1
<1>6. ASSUME NEW i \in S, NEW j \in S, i < j
      PROVE  Cardinality(From(S, i)) # Cardinality(From(S, j))
  <2>1. From(S, j) \in SUBSET From(S, i) /\ i \notin From(S, j)
    BY <1>4, <1>6 DEF From
  <2>2. From(S, i) # From(S, j)
    BY <1>4, <2>1
  <2> QED  BY <1>3, <1>4, <2>1, <2>2, FS_Subset
<1>7. ASSUME NEW i \in S, NEW j \in S, Cardinality(From(S, i)) = Cardinality(From(S, j))
      PROVE  i = j
  <2>1. i \in Nat /\ j \in Nat
    BY <1>4
  <2>2. ~(i < j) /\ ~(j < i)
    BY <1>6, <1>7
  <2> QED  BY <2>1, <2>2
<1> QED  BY <1>2, <1>5, <1>7

LEMMA SubjectVersions ==
    ASSUME CatalogueInv, subject \in Packages
    PROVE  stored[subject] \in SUBSET Versions
  BY DEF CatalogueInv, CatalogueTypeOK

LEMMA ListingRanked ==
    CatalogueInv /\ subject \in Packages /\ request \in Listings => Ranked
<1> SUFFICES ASSUME CatalogueInv, subject \in Packages, request \in Listings
             PROVE  Ranked
  OBVIOUS
<1>0. ASSUME NEW m \in Nat
      PROVE  IsFiniteSet(1 .. m) /\ Cardinality(1 .. m) = m
  BY FS_Interval
<1>1. CASE request = "scans"
  <2>1. Rows = 1 .. Len(scans) /\ \A i : Position(i) = startRank[i]
    BY <1>1, TableTypes DEF Rows, Position
  <2> QED  BY <1>0, <2>1, TableTypes DEF Ranked
<1>2. CASE request = "findings"
  <2>1. Rows = 1 .. Len(findingOwner) /\ \A i : Position(i) = findingRank[i]
    BY <1>2, TableTypes DEF Rows, Position
  <2> QED  BY <1>0, <2>1, TableTypes DEF Ranked
<1>3. CASE request = "versions"
  <2>1. Rows = stored[subject] /\ \A i : Position(i) = Cardinality(From(stored[subject], i))
    BY <1>3 DEF Rows, Position, From
  <2> QED  BY <2>1, SubjectVersions, VersionsRanked DEF Ranked
<1> QED  BY <1>1, <1>2, <1>3 DEF Listings

LEMMA ListingRankedNext ==
    (CatalogueInv /\ subject \in Packages /\ request \in Listings => Ranked)'
  BY ListingRanked, PTL

LEMMA TableDomains ==
    CatalogueInv => /\ DOMAIN scans = 1 .. Len(scans) /\ Len(scans) \in Nat
                    /\ DOMAIN findingRank = 1 .. Len(findingOwner)
                    /\ Len(findingOwner) \in Nat
  BY TableTypes

LEMMA TableDomainsNext ==
    (CatalogueInv => /\ DOMAIN scans = 1 .. Len(scans) /\ Len(scans) \in Nat
                     /\ DOMAIN findingRank = 1 .. Len(findingOwner)
                     /\ Len(findingOwner) \in Nat)'
  BY TableDomains, PTL

(* A transaction keeps every row of a listing, at its place or further     *)
(* down, save a claimed one.                                               *)
LEMMA ListingGrows ==
    ASSUME CatalogueInv, CatalogueInv', TablesGrown,
           subject \in Packages, request \in Listings, UNCHANGED <<request, subject>>
    PROVE  /\ Rows \subseteq Rows'
           /\ Cardinality(Rows) <= Cardinality(Rows')
           /\ \A i \in Rows : Claimed(i) \/ Position(i) <= Position(i)'
<1>1. IsFiniteSet(Rows')
  <2>1. Ranked'
    BY ListingRankedNext
  <2> QED  BY <2>1 DEF Ranked
<1>2. Rows \subseteq Rows' => Cardinality(Rows) <= Cardinality(Rows')
  BY <1>1, FS_Subset
<1>3. CASE request = "scans"
  <2>0. DOMAIN scans = 1 .. Len(scans) /\ DOMAIN scans' = 1 .. Len(scans')
    BY TableDomains, TableDomainsNext
  <2>1. /\ Rows = 1 .. Len(scans) /\ \A i : Position(i) = startRank[i]
        /\ Rows' = 1 .. Len(scans') /\ \A i : Position(i)' = startRank'[i]
    BY <1>3, <2>0 DEF Rows, Position
  <2>2. Len(scans) \in Nat /\ Len(scans') \in Nat /\ Len(scans) <= Len(scans')
    BY TableDomains, TableDomainsNext DEF TablesGrown, ScansGrown
  <2>3. Rows \subseteq Rows'
    BY <2>1, <2>2
  <2>4. \A i \in Rows : Claimed(i) \/ Position(i) <= Position(i)'
    BY <1>3, <2>1, TableTypes DEF TablesGrown, ScansGrown, Claimed
  <2> QED  BY <1>2, <2>3, <2>4
<1>4. CASE request = "findings"
  <2>0. /\ DOMAIN findingRank = 1 .. Len(findingOwner)
        /\ DOMAIN findingRank' = 1 .. Len(findingOwner')
    BY TableDomains, TableDomainsNext
  <2>1. /\ Rows = 1 .. Len(findingOwner) /\ \A i : Position(i) = findingRank[i]
        /\ Rows' = 1 .. Len(findingOwner') /\ \A i : Position(i)' = findingRank'[i]
    BY <1>4, <2>0 DEF Rows, Position
  <2>2. /\ Len(findingOwner) \in Nat /\ Len(findingOwner') \in Nat
        /\ Len(findingOwner) <= Len(findingOwner')
    BY TableDomains, TableDomainsNext DEF TablesGrown, FindingsGrown
  <2>3. Rows \subseteq Rows'
    BY <2>1, <2>2
  <2>4. \A i \in Rows : Position(i) <= Position(i)'
    BY <2>1, TableTypes DEF TablesGrown, FindingsGrown
  <2> QED  BY <1>2, <2>3, <2>4
<1>5. CASE request = "versions"
  <2> DEFINE S == stored[subject]
             T == stored'[subject]
  <2>1. /\ Rows = S /\ \A i : Position(i) = Cardinality(From(S, i))
        /\ Rows' = T /\ \A i : Position(i)' = Cardinality(From(T, i))
    BY <1>5 DEF Rows, Position, From
  <2>2. S \subseteq T
    BY DEF TablesGrown
  <2>3. ASSUME NEW i \in S
        PROVE  Cardinality(From(S, i)) <= Cardinality(From(T, i))
    <3>1. From(S, i) \in SUBSET From(T, i) /\ From(T, i) \in SUBSET T
      BY <2>2 DEF From
    <3>2. IsFiniteSet(T)
      BY <1>1, <2>1
    <3> HIDE DEF S, T
    <3> QED  BY <3>1, <3>2, FS_Subset
  <2> QED  BY <1>2, <2>1, <2>2, <2>3
<1> QED  BY <1>3, <1>4, <1>5 DEF Listings

(* A page has at most as many rows as the listing has beyond its offset.   *)
LEMMA PageFits ==
    ASSUME Ranked, offset \in Nat, Page # {}
    PROVE  /\ Cardinality(Page) \in Nat
           /\ offset + Cardinality(Page) <= Cardinality(Rows)
<1> DEFINE n == Cardinality(Rows)
           places == offset + 1 .. n
           f == [i \in Page |-> Position(i)]
<1>1. n \in Nat /\ \A i \in Page : Position(i) \in places
  BY DEF Ranked, Page
<1>2. f \in Injection(Page, places)
  BY <1>1 DEF Ranked, Page, Injection, IsInjective
<1>3. offset + 1 <= n
  BY <1>1
<1>4. IsFiniteSet(places) /\ Cardinality(places) = n - offset
  BY <1>1, <1>3, FS_Interval
<1> HIDE DEF n, places, f
<1>5. IsFiniteSet(Page) /\ Cardinality(Page) <= Cardinality(places)
  BY <1>2, <1>4, FS_Injection
<1>6. Cardinality(Page) \in Nat
  BY <1>5, FS_CardinalityType
<1> QED  BY <1>1, <1>4, <1>5, <1>6 DEF n

-----------------------------------------------------------------------------
(* The inductive invariant of a client *)

StepFits ==
    /\ request = "none" => step = "none" /\ offset = 0 /\ page = {} /\ shown = {}
    /\ request \in Listings => step \in {"rows", "count", "done"}
    /\ request = "packages" => step = "done"
    /\ request = "detail" => step \in {"scan", "versions", "findings", "done", "not found"}

(* Where the next page starts.                                             *)
Reached == IF step = "count" THEN offset + Limit ELSE offset

(* A row still due is on a page shown or beyond what has been shown.       *)
DueAhead ==
    request \in Listings =>
        /\ due \subseteq Rows
        /\ step \in {"rows", "count"} => \A i \in due : i \in shown \/ Position(i) > Reached

PageSized ==
    request \in Listings /\ step = "count" /\ page # {} =>
        Cardinality(page) \in Nat /\ offset + Cardinality(page) <= Cardinality(Rows)

ScanRead ==
    request = "detail" /\ step \in {"versions", "findings", "done"} =>
        /\ detail.scan \in ScansOf(subject)
        /\ detail.status = "completed" => scans[detail.scan].status = "completed"

VersionsKnown ==
    request = "detail" /\ step \in {"scan", "versions"} =>
        /\ subject \in known
        /\ detail.scanned # NoVersion => stored[subject] # {}

VersionsRead ==
    request = "detail" /\ step = "findings" =>
        (detail.scanned # NoVersion \/ detail.status = "completed" => detail.versions > 0)

ReadInv ==
    /\ ReadApiTypeOK /\ StepFits
    /\ DueAhead /\ PageSized /\ WalkComplete /\ PageWithinTotal
    /\ ScanRead /\ VersionsKnown /\ VersionsRead /\ DetailCoherent
    /\ FilteredLabel

LEMMA ReadStart == ReadApiInit => ReadInv
  BY DEF ReadApiInit, ReadInv, ReadApiTypeOK, StepFits, DueAhead, PageSized,
         WalkComplete, PageWithinTotal, ScanRead, VersionsKnown, VersionsRead,
         DetailCoherent, FilteredLabel, Listings, NoDetail, NoTotal, NoScan,
         VersionOrNone, DetailType

-----------------------------------------------------------------------------
(* The steps of a listing *)

LEMMA TablesSame ==
    ASSUME CatalogueInv, UNCHANGED tables
    PROVE  CatalogueInv'
  BY DEF tables, CatalogueInv, CatalogueTypeOK, RanksOK, RowsCoherent

LEMMA RowsSame ==
    ASSUME UNCHANGED <<tables, request, subject>>
    PROVE  /\ Rows' = Rows
           /\ \A i : Position(i)' = Position(i)
  BY DEF tables, Rows, Position

(* Of the properties, those a listing has no part in.                      *)
DetailInv == ScanRead /\ VersionsKnown /\ VersionsRead /\ DetailCoherent /\ FilteredLabel

LEMMA NotDetail ==
    ASSUME request' \in Listings
    PROVE  DetailInv'
  BY DEF DetailInv, ScanRead, VersionsKnown, VersionsRead, DetailCoherent,
         FilteredLabel, Listings

LEMMA WalkStarted ==
    ASSUME CatalogueInv, ReadInv, NEW l \in Requests, StartWalk(l)
    PROVE  ReadInv'
<1>1. /\ request' = l /\ l \in Listings /\ step' = "rows"
      /\ due' = Rows' /\ offset' = 0 /\ page' = {}
      /\ UNCHANGED <<subject, offset, page, total, shown, detail, tables>>
  BY DEF StartWalk, ReadInv, StepFits
<1>2. ReadApiTypeOK'
  BY <1>1 DEF ReadInv, ReadApiTypeOK
<1>3. StepFits'
  BY <1>1 DEF StepFits, Listings
<1>4. DueAhead'
  <2>1. Ranked'
    BY <1>1, <1>2, TablesSame, ListingRankedNext DEF ReadApiTypeOK
  <2>2. \A i \in Rows' : Position(i)' > 0
    BY <2>1 DEF Ranked
  <2> QED  BY <1>1, <2>2 DEF DueAhead, Reached
<1>5. PageSized' /\ WalkComplete' /\ PageWithinTotal'
  BY <1>1 DEF PageSized, WalkComplete, PageWithinTotal
<1> QED
  BY <1>1, <1>2, <1>3, <1>4, <1>5, NotDetail DEF ReadInv, DetailInv

LEMMA RowsListed ==
    ASSUME CatalogueInv, ReadInv, ListRows
    PROVE  ReadInv'
<1>1. /\ step = "rows" /\ step' = "count" /\ request \in Listings
      /\ page' = Page /\ shown' = shown \cup Page
      /\ UNCHANGED <<request, subject, offset, total, due, detail, tables>>
  BY DEF ListRows
<1>2. ReadApiTypeOK'
  BY <1>1 DEF ReadInv, ReadApiTypeOK
<1>3. StepFits'
  BY <1>1 DEF StepFits, Listings
<1>r. Ranked /\ offset \in Nat
  BY <1>1, ListingRanked DEF ReadInv, ReadApiTypeOK
<1>s. Rows' = Rows /\ \A i : Position(i)' = Position(i)
  BY <1>1, RowsSame
<1>4. DueAhead'
  <2>1. ASSUME NEW i \in due
        PROVE  i \in Rows /\ (i \in shown' \/ Position(i) > offset + Limit)
    <3>1. i \in Rows /\ (i \in shown \/ Position(i) > offset)
      BY <1>1 DEF ReadInv, DueAhead, Reached
    <3>2. Position(i) \in Nat
      BY <1>r, <3>1 DEF Ranked
    <3>3. Position(i) > offset => i \in Page \/ Position(i) > offset + Limit
      BY <1>r, <3>1, <3>2, ReadApiAssumption DEF Page
    <3> QED  BY <1>1, <3>1, <3>3
  <2> QED  BY <1>1, <1>s, <2>1 DEF DueAhead, Reached
<1>5. PageSized'
  BY <1>1, <1>r, <1>s, PageFits DEF PageSized
<1>6. WalkComplete' /\ PageWithinTotal'
  BY <1>1 DEF WalkComplete, PageWithinTotal
<1> QED
  BY <1>1, <1>2, <1>3, <1>4, <1>5, <1>6, NotDetail DEF ReadInv, DetailInv

LEMMA RowsCounted ==
    ASSUME CatalogueInv, ReadInv, CountRows
    PROVE  ReadInv'
<1> DEFINE n == Cardinality(Rows)
<1>1. /\ step = "count" /\ request \in Listings
      /\ total' = n /\ offset' = offset + Limit
      /\ step' = IF offset + Limit >= n THEN "done" ELSE "rows"
      /\ UNCHANGED <<request, subject, page, shown, due, detail, tables>>
  BY DEF CountRows
<1>r. Ranked /\ offset \in Nat /\ n \in Nat /\ Limit \in Nat
  BY <1>1, ListingRanked, ReadApiAssumption DEF ReadInv, ReadApiTypeOK, Ranked
<1>s. Rows' = Rows /\ \A i : Position(i)' = Position(i)
  BY <1>1, RowsSame
<1>2. ReadApiTypeOK'
  BY <1>1, <1>r DEF ReadInv, ReadApiTypeOK
<1>3. StepFits'
  BY <1>1 DEF StepFits, Listings
<1>d. \A i \in due : i \in Rows /\ (i \in shown \/ Position(i) > offset + Limit)
  BY <1>1 DEF ReadInv, DueAhead, Reached
<1>4. DueAhead'
  BY <1>1, <1>s, <1>d DEF DueAhead, Reached
<1>5. WalkComplete'
  <2>1. ASSUME offset + Limit >= n, NEW i \in due
        PROVE  i \in shown
    <3>1. Position(i) \in 1 .. n
      BY <1>r, <1>d DEF Ranked
    <3> QED  BY <1>r, <1>d, <2>1, <3>1
  <2> QED  BY <1>1, <2>1 DEF WalkComplete
<1>6. PageSized'
  BY <1>1 DEF PageSized
<1>7. PageWithinTotal'
  <2>1. page # {} => Cardinality(page) \in Nat /\ offset + Cardinality(page) <= n
    BY <1>1 DEF ReadInv, PageSized
  <2>2. offset' - Limit = offset
    BY <1>1, <1>r
  <2> QED  BY <1>1, <2>1, <2>2 DEF PageWithinTotal
<1> QED
  BY <1>1, <1>2, <1>3, <1>4, <1>5, <1>6, <1>7, NotDetail DEF ReadInv, DetailInv

-----------------------------------------------------------------------------
(* The package list *)

(* A package with a scan has a latest one.                                 *)
LEMMA LatestExists ==
    ASSUME CatalogueInv, NEW A \in SUBSET DOMAIN scans, A # {}
    PROVE  \E i \in A : IsLatest(i, A)
<1> DEFINE T == {startRank[i] : i \in A}
<1>1. T \subseteq Nat /\ T # {}
  BY TableTypes
<1>2. PICK x \in T : \A y \in T : ~ (<<y, x>> \in OpToRel(<, Nat))
  BY <1>1, WFMin, NatLessThanWellFounded
<1>3. \A y \in T : ~ (y < x)
  BY <1>1, <1>2 DEF OpToRel
<1>4. PICK i \in A : x = startRank[i]
  OBVIOUS
<1>5. ASSUME NEW j \in A
      PROVE  startRank[i] <= startRank[j]
  <2>1. startRank[j] \in T /\ startRank[j] \in Nat /\ startRank[i] \in Nat
    BY <1>1, <1>4
  <2> QED  BY <1>3, <1>4, <2>1
<1> QED  BY <1>4, <1>5 DEF IsLatest

(* A label other than that of the filter is "unknown".                     *)
LEMMA LabelFits ==
    ASSUME CatalogueInv, NEW r, NEW p \in Filtered(r)
    PROVE  Label(p) \in {r, "unknown"}
<1>1. PICK i \in ScansOf(p) : IsLatest(i, CompletedOf(p)) /\ risk[i] = r
  BY DEF Filtered
<1>2. ScansOf(p) \in SUBSET DOMAIN scans /\ CompletedOf(p) \subseteq ScansOf(p)
  BY DEF ScansOf, CompletedOf
<1> DEFINE c == CHOOSE j \in ScansOf(p) : IsLatest(j, ScansOf(p))
<1>3. c \in ScansOf(p) /\ IsLatest(c, ScansOf(p))
  BY <1>1, <1>2, LatestExists
<1>4. Label(p) = risk[c]
  BY <1>1 DEF Label
<1> HIDE DEF c
<1>5. CASE risk[c] # "unknown"
  <2>1. c \in CompletedOf(p)
    BY <1>2, <1>3, <1>5 DEF CatalogueInv, RowsCoherent, CompletedOf
  <2>2. startRank[i] <= startRank[c] /\ startRank[c] <= startRank[i]
    BY <1>1, <1>3, <2>1 DEF IsLatest
  <2>3. c \in DOMAIN scans /\ i \in DOMAIN scans
    BY <1>1, <1>2, <1>3
  <2>4. startRank[i] = startRank[c]
    BY <2>2, <2>3, TableTypes
  <2>5. i = c
    BY <2>3, <2>4, TableTypes
  <2> QED  BY <1>1, <1>4, <2>5
<1> QED  BY <1>4, <1>5

LEMMA PackagesListed ==
    ASSUME CatalogueInv, ReadInv, ListPackages, "packages" \in Requests
    PROVE  ReadInv'
<1>1. /\ request' = "packages" /\ step' = "done"
      /\ UNCHANGED <<subject, offset, total, shown, due, detail, tables>>
  BY DEF ListPackages
<1>2. PICK r \in RiskLevel :
         page' = {[asked |-> r, label |-> Label(p)] : p \in Filtered(r)}
  BY DEF ListPackages
<1>3. FilteredLabel'
  <2>1. ASSUME NEW x \in page'
        PROVE  x.label \in {x.asked, "unknown"}
    <3>1. PICK p \in Filtered(r) : x = [asked |-> r, label |-> Label(p)]
      BY <1>2
    <3>2. Label(p) \in {r, "unknown"}
      BY LabelFits
    <3> QED  BY <3>1, <3>2
  <2> QED  BY <2>1 DEF FilteredLabel
<1>4. ReadApiTypeOK' /\ StepFits'
  BY <1>1 DEF ReadInv, ReadApiTypeOK, StepFits, Listings
<1> QED
  BY <1>1, <1>3, <1>4
  DEF ReadInv, DueAhead, PageSized, WalkComplete, PageWithinTotal, ScanRead,
      VersionsKnown, VersionsRead, DetailCoherent, Listings

-----------------------------------------------------------------------------
(* The steps of a package's detail *)

(* Of the properties, those a detail has no part in.                       *)
WalkInv == DueAhead /\ PageSized /\ WalkComplete /\ PageWithinTotal /\ FilteredLabel

LEMMA NotWalk ==
    ASSUME request' = "detail"
    PROVE  WalkInv'
  BY DEF WalkInv, DueAhead, PageSized, WalkComplete, PageWithinTotal, FilteredLabel,
         Listings

LEMMA PackageRead ==
    ASSUME CatalogueInv, ReadInv, ReadPackage, "detail" \in Requests
    PROVE  ReadInv'
<1>1. /\ request' = "detail" /\ detail' = [NoDetail EXCEPT !.scanned = scanned[subject]]
      /\ step' = IF subject \in known THEN "scan" ELSE "not found"
      /\ UNCHANGED <<subject, walk, tables>>
  BY DEF ReadPackage
<1>2. subject \in Packages /\ scanned[subject] \in VersionOrNone
  BY DEF ReadInv, ReadApiTypeOK, CatalogueInv, CatalogueTypeOK
<1>3. detail'.scanned = scanned[subject] /\ detail' \in DetailType
  BY <1>1, <1>2 DEF NoDetail, NoScan, DetailType
<1>4. ReadApiTypeOK'
  <2>1. /\ step' \in {"scan", "not found"} /\ request' \in Requests
        /\ subject' = subject /\ offset' = offset /\ total' = total
    BY <1>1 DEF walk
  <2> QED  BY <1>2, <1>3, <2>1 DEF ReadInv, ReadApiTypeOK
<1>7. StepFits'
  BY <1>1 DEF StepFits, Listings
<1>5. VersionsKnown'
  BY <1>1, <1>2, <1>3 DEF VersionsKnown, CatalogueInv, RowsCoherent, tables
<1>6. ScanRead' /\ VersionsRead' /\ DetailCoherent'
  BY <1>1 DEF ScanRead, VersionsRead, DetailCoherent
<1> QED  BY <1>1, <1>4, <1>5, <1>6, <1>7, NotWalk DEF ReadInv, WalkInv

LEMMA ReadsDetail ==
    ASSUME ReadInv, step \in {"scan", "versions", "findings"}
    PROVE  request = "detail" /\ subject \in Packages
  BY ReadApiAssumption DEF ReadInv, ReadApiTypeOK, StepFits, Listings

LEMMA LatestScanRead ==
    ASSUME CatalogueInv, ReadInv, ReadLatestScan
    PROVE  ReadInv'
<1>1. /\ step = "scan" /\ step' = "versions" /\ request = "detail"
      /\ UNCHANGED <<request, subject, walk, tables>>
  BY ReadsDetail DEF ReadLatestScan
<1>2. ScansOf(subject) # {}
  BY <1>1 DEF ReadInv, VersionsKnown, CatalogueInv, RowsCoherent, ScansOf
<1>3. PICK i \in ScansOf(subject) :
         detail' = [detail EXCEPT !.scan = i, !.status = scans[i].status]
  BY <1>2 DEF ReadLatestScan
<1>4. i \in Nat
  BY TableTypes DEF ScansOf
<1>5. /\ detail'.scan = i /\ detail'.status = scans[i].status
      /\ detail'.scanned = detail.scanned /\ detail'.versions = detail.versions
      /\ detail' \in DetailType
  BY <1>3, <1>4, TableTypes DEF ReadInv, ReadApiTypeOK, DetailType, ScansOf, ScanRow
<1>6. ReadApiTypeOK'
  BY <1>1, <1>5 DEF ReadInv, ReadApiTypeOK, walk
<1>7. StepFits'
  BY <1>1 DEF StepFits, Listings
<1>8. ScanRead'
  BY <1>1, <1>3, <1>5 DEF ScanRead, ScansOf, tables
<1>9. VersionsKnown'
  BY <1>1, <1>5 DEF ReadInv, VersionsKnown, tables
<1>10. VersionsRead' /\ DetailCoherent'
  BY <1>1 DEF VersionsRead, DetailCoherent
<1> QED  BY <1>1, <1>6, <1>7, <1>8, <1>9, <1>10, NotWalk DEF ReadInv, WalkInv

LEMMA VersionsCounted ==
    ASSUME CatalogueInv, ReadInv, CountVersions
    PROVE  ReadInv'
<1> DEFINE n == Cardinality(stored[subject])
<1>1. /\ step = "versions" /\ step' = "findings" /\ request = "detail"
      /\ subject \in Packages
      /\ UNCHANGED <<request, subject, walk, tables>>
  BY ReadsDetail DEF CountVersions
<1>2. n \in Nat /\ (stored[subject] # {} => n > 0)
  BY <1>1, SubjectVersions, VersionsRanked, FS_EmptySet
<1> HIDE DEF n
<1>3. detail' = [detail EXCEPT !.versions = n]
  BY DEF CountVersions, n
<1>4. /\ detail'.versions = n
      /\ detail'.scan = detail.scan /\ detail'.status = detail.status
      /\ detail'.scanned = detail.scanned
      /\ detail' \in DetailType
  BY <1>2, <1>3 DEF ReadInv, ReadApiTypeOK, DetailType
<1>5. ReadApiTypeOK'
  BY <1>1, <1>4 DEF ReadInv, ReadApiTypeOK, walk
<1>6. StepFits'
  BY <1>1 DEF StepFits, Listings
<1>7. ScanRead'
  BY <1>1, <1>4 DEF ReadInv, ScanRead, ScansOf, tables
<1>8. VersionsRead'
  <2>1. ASSUME detail.status = "completed"
        PROVE  stored[subject] # {}
    <3>1. detail.scan \in ScansOf(subject) /\ scans[detail.scan].status = "completed"
      BY <1>1, <2>1 DEF ReadInv, ScanRead
    <3> QED  BY <3>1 DEF CatalogueInv, RowsCoherent, ScansOf
  <2>2. detail.scanned # NoVersion => stored[subject] # {}
    BY <1>1 DEF ReadInv, VersionsKnown
  <2> QED  BY <1>2, <1>4, <2>1, <2>2 DEF VersionsRead
<1>9. VersionsKnown' /\ DetailCoherent'
  BY <1>1 DEF VersionsKnown, DetailCoherent
<1> QED  BY <1>1, <1>5, <1>6, <1>7, <1>8, <1>9, NotWalk DEF ReadInv, WalkInv

LEMMA FindingsCounted ==
    ASSUME CatalogueInv, ReadInv, CountFindings
    PROVE  ReadInv'
<1> DEFINE n == Cardinality(FindingsOf(subject))
           own == {f \in DOMAIN findingOwner : findingOwner[f] = detail.scan}
<1>1. /\ step = "findings" /\ step' = "done" /\ request = "detail"
      /\ UNCHANGED <<request, subject, walk, tables>>
  BY ReadsDetail DEF CountFindings
<1>2. detail.scan \in ScansOf(subject)
  BY <1>1 DEF ReadInv, ScanRead
<1>3. IsFiniteSet(FindingsOf(subject)) /\ n \in Nat
  <2>1. IsFiniteSet(DOMAIN findingOwner)
    BY TableTypes, FS_Interval
  <2>2. FindingsOf(subject) \in SUBSET DOMAIN findingOwner
    BY DEF FindingsOf
  <2> QED  BY <2>1, <2>2, FS_Subset, FS_CardinalityType
<1>4. own \in SUBSET FindingsOf(subject)
  BY <1>2 DEF FindingsOf, ScansOf
<1>5. Cardinality(own) <= n
  BY <1>3, <1>4, FS_Subset
<1> HIDE DEF n
<1>6. detail' = [detail EXCEPT !.findings = n]
  BY DEF CountFindings, n
<1>7. /\ detail'.findings = n /\ detail'.versions = detail.versions
      /\ detail'.scan = detail.scan /\ detail'.status = detail.status
      /\ detail'.scanned = detail.scanned
      /\ detail' \in DetailType
  BY <1>3, <1>6 DEF ReadInv, ReadApiTypeOK, DetailType
<1>8. ReadApiTypeOK'
  BY <1>1, <1>7 DEF ReadInv, ReadApiTypeOK, walk
<1>9. StepFits'
  BY <1>1 DEF StepFits, Listings
<1>10. ScanRead'
  BY <1>1, <1>7 DEF ReadInv, ScanRead, ScansOf, tables
<1>11. DetailCoherent'
  <2>1. detail.scanned # NoVersion \/ detail.status = "completed" => detail.versions > 0
    BY <1>1 DEF ReadInv, VersionsRead
  <2>2. detail.scan # NoScan
    BY <1>2, TableTypes DEF ScansOf, NoScan
  <2>3. {f \in DOMAIN findingOwner' : findingOwner'[f] = detail'.scan} = own
    BY <1>1, <1>7 DEF tables
  <2> QED  BY <1>3, <1>4, <1>5, <1>7, <2>1, <2>2, <2>3, FS_Subset, FS_CardinalityType
           DEF DetailCoherent
<1>12. VersionsKnown' /\ VersionsRead'
  BY <1>1 DEF VersionsKnown, VersionsRead
<1> QED  BY <1>1, <1>8, <1>9, <1>10, <1>11, <1>12, NotWalk DEF ReadInv, WalkInv

-----------------------------------------------------------------------------
(* A transaction between two statements *)

LEMMA TablesWritten ==
    ASSUME CatalogueInv, ReadInv, WriteStep
    PROVE  CatalogueInv' /\ ReadInv'
<1>1. /\ step \notin {"done", "not found"}
      /\ due' = {i \in due : ~Claimed(i)}
      /\ UNCHANGED <<request, step, subject, offset, page, total, shown, detail>>
  BY DEF WriteStep, Answered
<1>2. CatalogueInv' /\ TablesGrown
  BY TablesKept DEF WriteStep
<1>3. subject \in Packages /\ offset \in Nat
  BY DEF ReadInv, ReadApiTypeOK
<1>4. ReadApiTypeOK' /\ StepFits'
  BY <1>1 DEF ReadInv, ReadApiTypeOK, StepFits
<1>5. CASE request \in Listings
  <2>1. /\ Rows \subseteq Rows' /\ Cardinality(Rows) <= Cardinality(Rows')
        /\ \A i \in Rows : Claimed(i) \/ Position(i) <= Position(i)'
    BY <1>1, <1>2, <1>3, <1>5, ListingGrows
  <2>2. Ranked /\ Ranked'
    BY <1>1, <1>2, <1>3, <1>5, ListingRanked, ListingRankedNext
  <2>3. DueAhead'
    <3>1. ASSUME NEW i \in due'
          PROVE  /\ i \in Rows'
                 /\ step \in {"rows", "count"} => i \in shown \/ Position(i)' > Reached
      <4>1. i \in Rows /\ i \in Rows' /\ Position(i) <= Position(i)'
        BY <1>1, <1>5, <2>1 DEF ReadInv, DueAhead
      <4>2. step \in {"rows", "count"} => i \in shown \/ Position(i) > Reached
        BY <1>1, <1>5 DEF ReadInv, DueAhead
      <4>3. Position(i) \in Nat /\ Position(i)' \in Nat /\ Reached \in Nat
        BY <1>3, <2>2, <4>1, ReadApiAssumption DEF Ranked, Reached
      <4> QED  BY <4>1, <4>2, <4>3
    <3>2. Reached' = Reached
      BY <1>1 DEF Reached
    <3> QED  BY <1>1, <3>1, <3>2 DEF DueAhead
  <2>4. PageSized'
    <3>1. Cardinality(Rows) \in Nat /\ Cardinality(Rows') \in Nat
      BY <2>2 DEF Ranked
    <3> QED  BY <1>1, <1>3, <2>1, <3>1 DEF ReadInv, PageSized
  <2>5. WalkComplete' /\ PageWithinTotal'
    BY <1>1 DEF ReadInv, WalkComplete, PageWithinTotal
  <2> QED
    BY <1>1, <1>2, <1>4, <1>5, <2>3, <2>4, <2>5, NotDetail DEF ReadInv, DetailInv
<1>6. CASE request = "detail"
  <2>1. ScanRead'
    <3>1. ASSUME step = "versions" \/ step = "findings"
          PROVE  /\ detail.scan \in ScansOf(subject)'
                 /\ detail.status = "completed" => scans'[detail.scan].status = "completed"
      <4>1. /\ detail.scan \in ScansOf(subject)
            /\ detail.status = "completed" => scans[detail.scan].status = "completed"
        BY <1>6, <3>1 DEF ReadInv, ScanRead
      <4>2. DOMAIN scans \subseteq DOMAIN scans'
        BY <1>2, TableDomains, TableDomainsNext DEF TablesGrown, ScansGrown
      <4> QED  BY <1>1, <1>2, <4>1, <4>2 DEF ScansOf, TablesGrown, ScansGrown
    <3> QED  BY <1>1, <3>1 DEF ScanRead
  <2>2. VersionsKnown'
    BY <1>1, <1>2, <1>3 DEF ReadInv, VersionsKnown, TablesGrown
  <2>3. VersionsRead' /\ DetailCoherent'
    BY <1>1 DEF ReadInv, VersionsRead, DetailCoherent
  <2> QED
    BY <1>1, <1>2, <1>4, <1>6, <2>1, <2>2, <2>3, NotWalk DEF ReadInv, WalkInv
<1>7. CASE request = "none" \/ request = "packages"
  <2>1. request # "packages"
    BY <1>1 DEF ReadInv, StepFits
  <2> QED
    BY <1>1, <1>2, <1>4, <1>7, <2>1
    DEF ReadInv, DueAhead, PageSized, WalkComplete, PageWithinTotal, ScanRead,
        VersionsKnown, VersionsRead, DetailCoherent, FilteredLabel, Listings
<1> QED
  BY <1>5, <1>6, <1>7, ReadApiAssumption DEF ReadInv, ReadApiTypeOK, Listings

LEMMA StatementRead ==
    ASSUME CatalogueInv, ReadInv, ReadStep
    PROVE  CatalogueInv' /\ ReadInv'
<1>1. UNCHANGED tables
  BY DEF ReadStep, StartWalk, ListRows, CountRows, ListPackages, ReadPackage,
         ReadLatestScan, CountVersions, CountFindings
<1>2. CatalogueInv'
  BY <1>1, TablesSame
<1>3. ASSUME NEW l \in Requests, StartWalk(l)
      PROVE  ReadInv'
  BY <1>3, WalkStarted
<1> QED
  BY <1>2, <1>3, RowsListed, RowsCounted, PackagesListed, PackageRead,
     LatestScanRead, VersionsCounted, FindingsCounted DEF ReadStep

-----------------------------------------------------------------------------
(* The traffic of the service *)

(* While a batch is carried out the client has asked for nothing.          *)
BatchAlone == traffic = "batch" => request = "none"

ServiceInv == CatalogueInv /\ ReadInv /\ BatchAlone

(* Of the steps of a batch, one writes to the tables.                      *)
LEMMA BatchWrites ==
    ASSUME BatchStep
    PROVE  UNCHANGED tables \/ \E p \in Packages : RecordRequest(p)
<1>1. CASE RecordName
  BY <1>1 DEF RecordName, AtName
<1>2. CASE BatchStep /\ ~RecordName
  BY <1>2
  DEF BatchStep, StartRoute, StartTask, LoadNames, LoadFails, SkipName,
      RecordFails, PublishName, PublishFails, RecordPublishFailure, EndLoop,
      Settle, ProcessDies
<1> QED  BY <1>1, <1>2

LEMMA ClientUntouched ==
    ASSUME ReadInv, request = "none", UNCHANGED client
    PROVE  ReadInv'
<1>1. UNCHANGED <<request, step, subject, offset, page, total, shown, due, detail>>
  BY DEF client, walk
<1> QED
  BY <1>1
  DEF ReadInv, ReadApiTypeOK, StepFits, DueAhead, PageSized, WalkComplete,
      PageWithinTotal, ScanRead, VersionsKnown, VersionsRead, DetailCoherent,
      FilteredLabel, Listings

LEMMA AllUntouched ==
    ASSUME CatalogueInv, ReadInv, UNCHANGED <<tables, client>>
    PROVE  CatalogueInv' /\ ReadInv'
<1>1. UNCHANGED <<request, step, subject, offset, page, total, shown, due, detail>>
  BY DEF client, walk
<1>2. Rows' = Rows /\ \A i : Position(i)' = Position(i)
  BY <1>1, RowsSame
<1>3. ReadApiTypeOK' /\ StepFits'
  BY <1>1 DEF ReadInv, ReadApiTypeOK, StepFits
<1>4. DueAhead' /\ PageSized' /\ WalkComplete' /\ PageWithinTotal'
  BY <1>1, <1>2 DEF ReadInv, DueAhead, PageSized, WalkComplete, PageWithinTotal, Reached
<1>5. ScanRead' /\ VersionsKnown' /\ VersionsRead'
  BY <1>1 DEF ReadInv, ScanRead, VersionsKnown, VersionsRead, ScansOf, tables
<1>6. DetailCoherent' /\ FilteredLabel'
  BY <1>1 DEF ReadInv, DetailCoherent, FilteredLabel, tables
<1> QED  BY <1>3, <1>4, <1>5, <1>6, TablesSame DEF ReadInv

LEMMA ServiceStarts == Init => ServiceInv
  BY TablesStart, ReadStart DEF Init, ServiceInv, BatchAlone, ReadApiInit

LEMMA ServiceKept ==
    ASSUME ServiceInv, [Next]_vars
    PROVE  ServiceInv'
<1>1. CASE Reads
  <2>1. CASE ReadStep
    BY <1>1, <2>1, StatementRead DEF ServiceInv, Reads, BatchAlone
  <2>2. CASE WriteStep
    BY <1>1, <2>2, TablesWritten DEF ServiceInv, Reads, BatchAlone
  <2> QED  BY <1>1, <2>1, <2>2 DEF Reads
<1>2. CASE Batches
  <2>1. request = "none" /\ UNCHANGED client /\ traffic' = traffic /\ BatchStep
    BY <1>2 DEF Batches, ServiceInv, BatchAlone
  <2>2. CatalogueInv'
    <3>1. CASE UNCHANGED tables
      BY <3>1, TablesSame DEF ServiceInv
    <3>2. CASE \E p \in Packages : RecordRequest(p)
      BY <3>2, TablesKept DEF ServiceInv
    <3> QED  BY <2>1, <3>1, <3>2, BatchWrites
  <2> QED  BY <2>1, <2>2, ClientUntouched DEF ServiceInv, BatchAlone, client
<1>3. CASE UNCHANGED vars
  BY <1>3, AllUntouched DEF vars, ServiceInv, BatchAlone, client
<1> QED  BY <1>1, <1>2, <1>3 DEF Next, AtRest

(* The conjuncts hold together in every state of the service, for any      *)
(* number of packages, versions, rows and pages.                           *)
THEOREM ServiceInvariant == Spec => []ServiceInv
  BY ServiceStarts, ServiceKept, PTL DEF Spec

(* No row that was there at the start is missed by a walk over the pages,  *)
(* whatever is recorded, claimed, completed or failed between them.        *)
THEOREM WalksComplete == Spec => []WalkComplete
<1>1. ServiceInv => WalkComplete
  BY DEF ServiceInv, ReadInv
<1> QED  BY <1>1, ServiceInvariant, PTL

(* A page never reaches beyond the total that is counted after it.         *)
THEOREM PagesWithinTotals == Spec => []PageWithinTotal
<1>1. ServiceInv => PageWithinTotal
  BY DEF ServiceInv, ReadInv
<1> QED  BY <1>1, ServiceInvariant, PTL

(* The four statements of a detail never contradict each other.            *)
THEOREM DetailsCoherent == Spec => []DetailCoherent
<1>1. ServiceInv => DetailCoherent
  BY DEF ServiceInv, ReadInv
<1> QED  BY <1>1, ServiceInvariant, PTL

(* A package listed under a risk level is labelled with it or "unknown".   *)
THEOREM FilteredLabels == Spec => []FilteredLabel
<1>1. ServiceInv => FilteredLabel
  BY DEF ServiceInv, ReadInv
<1> QED  BY <1>1, ServiceInvariant, PTL

-----------------------------------------------------------------------------
(* The tables as a history of scan attempts *)

LEMMA AttemptsSeenIn == AttemptsSeen = AttemptsIn(scans) /\ AttemptsSeen' = AttemptsIn(scans')
  BY DEF AttemptsSeen, AttemptsIn, Seen

AttemptStep == [Attempts!Next]_(Attempts!avars)

LEMMA NewRowIsAttempt ==
    ASSUME CatalogueInv, NEW p \in Packages, NEW st \in {"queued", "running"},
           NewScan(p, st), UNCHANGED scanned,
           st = "running" => ScansWith(scans, p, "queued") = {}
    PROVE  AttemptStep
<1>1. AttemptsSeen' = Append(AttemptsSeen, Attempts!Attempt(p, st))
  <2>1. scans \in ScanTable /\ st \in ScanStatus
    BY TableTypes DEF ScanStatus
  <2>2. scans' = CreateScanResult(scans, p, st)
    BY DEF NewScan, UpsertPackage
  <2> QED  BY <2>1, <2>2, AttemptAppended, AttemptsSeenIn DEF Attempts!Attempt
<1>2. CASE st = "queued"
  <2>1. Attempts!Request(p)
    BY <1>1, <1>2 DEF Attempts!Request
  <2> QED  BY <2>1 DEF AttemptStep, Attempts!Next
<1>3. CASE st = "running"
  <2>1. Attempts!Queued(p) = {}
    BY <1>3, AttemptsSeenIn DEF Attempts!Queued, AttemptsIn, Seen, ScansWith
  <2>2. Attempts!StartUnrequested(p)
    BY <1>1, <1>3, <2>1 DEF Attempts!StartUnrequested
  <2> QED  BY <2>2 DEF AttemptStep, Attempts!Next
<1> QED  BY <1>2, <1>3

LEMMA ClaimIsStart ==
    ASSUME CatalogueInv, NEW p, NEW i \in DOMAIN scans, IsNextQueuedScan(scans, p, i),
           Claim(i), UNCHANGED scanned
    PROVE  AttemptStep
<1>1. /\ scans[i].pkg = p /\ scans[i].status = "queued"
      /\ \A j \in ScansWith(scans, p, "queued") : i <= j
  BY DEF IsNextQueuedScan, ScansWith
<1>2. /\ RowMoved(scans, scans', i)
      /\ scans'[i].status = "running" /\ scans'[i].findings = scans[i].findings
  BY TableTypes, RowClaimed DEF Claim
<1>3. /\ AttemptsSeen \in Seq(AttemptRow) /\ DOMAIN AttemptsSeen = DOMAIN scans
      /\ \A j \in DOMAIN scans : AttemptsSeen[j] = Seen(scans, j)
  BY TableTypes, AttemptsTyped, AttemptsSeenIn
<1>4. \A q : Attempts!Queued(q) = ScansWith(scans, q, "queued")
  BY <1>3 DEF Attempts!Queued, ScansWith, Seen
<1>5. AttemptsSeen' = [AttemptsSeen EXCEPT ![i].status = "running"]
  <2>1. AttemptsSeen' = [AttemptsSeen EXCEPT ![i] = Seen(scans', i)]
    BY <1>2, TableTypes, AttemptMoved, AttemptsSeenIn
  <2>2. Seen(scans', i) = [Seen(scans, i) EXCEPT !.status = "running"]
    BY <1>2 DEF Seen, RowMoved
  <2> QED  BY <1>3, <2>1, <2>2
<1>6. i \in Attempts!Queued(p) /\ AttemptsSeen[i].pkg = p
  BY <1>1, <1>3, <1>4 DEF ScansWith, Seen
<1>7. Attempts!Start(i)
  BY <1>1, <1>4, <1>5, <1>6 DEF Attempts!Start
<1> QED  BY <1>3, <1>7 DEF AttemptStep, Attempts!Next

LEMMA RowIsAttempt ==
    ASSUME CatalogueInv, NEW i \in DOMAIN scans,
           StoreVersions(i) \/ CompleteScan(i) \/ FailScan(i)
    PROVE  AttemptStep
<1>1. /\ AttemptsSeen \in Seq(AttemptRow) /\ DOMAIN AttemptsSeen = DOMAIN scans
      /\ \A j \in DOMAIN scans : AttemptsSeen[j] = Seen(scans, j)
  BY TableTypes, AttemptsTyped, AttemptsSeenIn
<1>2. RowMoved(scans, scans', i) => AttemptsSeen' = [AttemptsSeen EXCEPT ![i] = Seen(scans', i)]
  BY TableTypes, AttemptMoved, AttemptsSeenIn
<1>3. scans[i].status = "running" /\ AttemptsSeen[i].status = "running"
  BY <1>1 DEF StoreVersions, CompleteScan, FailScan, IsRunning, Seen
<1>4. CASE StoreVersions(i)
  <2>1. PICK v \in Versions : scans' = SetScanVersions(scans, i, v)
    BY <1>4 DEF StoreVersions, WriteVersions
  <2>2. /\ RowMoved(scans, scans', i)
        /\ scans'[i].status = scans[i].status /\ scans'[i].findings = scans[i].findings
    BY <2>1, TableTypes, RowVersioned
  <2>3. Seen(scans', i) = Seen(scans, i)
    BY <2>2 DEF Seen, RowMoved
  <2>4. AttemptsSeen' = AttemptsSeen
    BY <1>1, <1>2, <2>2, <2>3
  <2> QED  BY <1>4, <2>4 DEF AttemptStep, Attempts!avars, StoreVersions
<1>5. CASE CompleteScan(i)
  <2> DEFINE v == scans[i].latest
  <2>1. v \in Versions /\ v \in VersionOrNone
    BY <1>5, TableTypes DEF CompleteScan, ScanRow, VersionOrNone
  <2>2. /\ RowMoved(scans, scans', i)
        /\ scans'[i].status = "completed" /\ scans'[i].findings = v
    BY <1>3, <1>5, <2>1, TableTypes, RowCompleted DEF CompleteScan
  <2>3. scanned' = [scanned EXCEPT ![scans[i].pkg] = v]
    BY <1>5 DEF CompleteScan
  <2> HIDE DEF v
  <2>4. Seen(scans', i) = [Seen(scans, i) EXCEPT !.status = "completed", !.result = v]
    <3>1. Seen(scans', i) = [pkg |-> scans[i].pkg, status |-> "completed", result |-> v]
      BY <2>2 DEF Seen, RowMoved
    <3>2. [Seen(scans, i) EXCEPT !.status = "completed", !.result = v]
          = [pkg |-> scans[i].pkg, status |-> "completed", result |-> v]
      BY AttemptEnds
    <3> QED  BY <3>1, <3>2
  <2>5. AttemptsSeen' = [AttemptsSeen EXCEPT
                            ![i] = [@ EXCEPT !.status = "completed", !.result = v]]
    BY <1>1, <1>2, <2>2, <2>4
  <2>6. AttemptsSeen[i].pkg = scans[i].pkg
    BY <1>1 DEF Seen
  <2>7. Attempts!Complete(i, v)
    BY <1>3, <2>3, <2>5, <2>6 DEF Attempts!Complete
  <2> QED  BY <1>1, <2>1, <2>7 DEF AttemptStep, Attempts!Next
<1>6. CASE FailScan(i)
  <2>1. /\ RowMoved(scans, scans', i)
        /\ scans'[i].status = "failed" /\ scans'[i].findings = scans[i].findings
    BY <1>3, <1>6, TableTypes, RowFailed DEF FailScan
  <2>2. Seen(scans', i) = [Seen(scans, i) EXCEPT !.status = "failed"]
    BY <2>1 DEF Seen, RowMoved
  <2>3. AttemptsSeen' = [AttemptsSeen EXCEPT ![i].status = "failed"]
    BY <1>1, <1>2, <2>1, <2>2
  <2>4. Attempts!Fail(i)
    BY <1>3, <1>6, <2>3 DEF Attempts!Fail, FailScan
  <2> QED  BY <1>1, <2>4 DEF AttemptStep, Attempts!Next
<1> QED  BY <1>4, <1>5, <1>6

LEMMA StepIsAttempt ==
    ASSUME ServiceInv, [Next]_vars
    PROVE  AttemptStep
<1>1. CASE UNCHANGED tables
  <2>1. UNCHANGED <<AttemptsSeen, scanned>>
    BY <1>1 DEF tables, AttemptsSeen
  <2> QED  BY <2>1 DEF AttemptStep, Attempts!avars
<1>2. ASSUME NEW p \in Packages, RecordRequest(p)
      PROVE  AttemptStep
  BY <1>2, NewRowIsAttempt DEF ServiceInv, RecordRequest
<1>3. ASSUME NEW p \in Packages, StartScan(p)
      PROVE  AttemptStep
  BY <1>3, NewRowIsAttempt, ClaimIsStart DEF ServiceInv, StartScan
<1>4. ASSUME NEW i \in DOMAIN scans, StoreVersions(i) \/ CompleteScan(i) \/ FailScan(i)
      PROVE  AttemptStep
  BY <1>4, RowIsAttempt DEF ServiceInv
<1>5. CASE WriteStep
  BY <1>2, <1>3, <1>4, <1>5 DEF WriteStep, PipelineStep
<1>6. CASE ReadStep
  BY <1>1, <1>6
  DEF ReadStep, StartWalk, ListRows, CountRows, ListPackages, ReadPackage,
      ReadLatestScan, CountVersions, CountFindings
<1>7. CASE BatchStep
  BY <1>1, <1>2, <1>7, BatchWrites
<1>8. CASE UNCHANGED vars
  BY <1>1, <1>8 DEF vars
<1> QED  BY <1>5, <1>6, <1>7, <1>8 DEF Next, Reads, Batches, AtRest

LEMMA StartIsEmpty == Init => Attempts!Init
  BY EmptySeq DEF Init, CatalogueInit, Attempts!Init, AttemptsSeen

(* Every behaviour of the service is, to a reader of its tables, one of    *)
(* ScanAttempts: an attempt is requested, starts and ends once, oldest     *)
(* request first, and a completion is the package's scanned version.       *)
THEOREM ServiceRefines == Spec => TablesAreScanAttempts
<1>1. ServiceInv /\ [Next]_vars => [Attempts!Next]_(Attempts!avars)
  BY StepIsAttempt DEF AttemptStep
<1> QED
  BY <1>1, StartIsEmpty, ServiceInvariant, PTL
  DEF Spec, TablesAreScanAttempts, Attempts!Spec

-----------------------------------------------------------------------------
(* The queue_jobs rows of a batch *)

OneRow ==
    /\ batchJobs \in [1 .. MaxDeliveries -> QueueJobStatus]
    /\ ownId => \A t \in 1 .. MaxDeliveries : t # 1 => batchJobs[t] = "none"

JobsInv == OneRow /\ BatchRowAwaited

LEMMA JobsStart == Init => JobsInv
  BY DEF Init, BatchInit, JobsInv, OneRow, BatchRowAwaited, QueueJobStatus

LEMMA TaskStarted ==
    ASSUME JobsInv, StartTask
    PROVE  JobsInv'
<1>1. 1 \in 1 .. MaxDeliveries /\ ownId' = ownId /\ batch' \in {"loading", "unsettled"}
  BY BatchAssumption DEF StartTask
<1>2. OneRow'
  <2>1. CASE UNCHANGED batchJobs
    BY <1>1, <2>1 DEF JobsInv, OneRow
  <2>2. CASE batchJobs' = JobMarkedRunning(batchJobs, JobId(deliveries'))
    <3>1. \A t \in 1 .. MaxDeliveries : t # JobId(deliveries') => batchJobs'[t] = batchJobs[t]
      BY <2>2 DEF JobMarkedRunning, MarkQueueJobRunning, MoveQueueJob, CreateQueueJob,
                  JobsInv, OneRow
    <3>2. batchJobs' \in [1 .. MaxDeliveries -> QueueJobStatus]
      BY <2>2 DEF JobMarkedRunning, MarkQueueJobRunning, MoveQueueJob, CreateQueueJob,
                  JobsInv, OneRow, QueueJobStatus
    <3>3. ownId => JobId(deliveries') = 1
      BY DEF JobId
    <3> QED  BY <1>1, <3>1, <3>2, <3>3 DEF JobsInv, OneRow
  <2> QED  BY <2>1, <2>2 DEF StartTask
<1>3. BatchRowAwaited'
  BY <1>1 DEF BatchRowAwaited
<1> QED  BY <1>2, <1>3 DEF JobsInv

(* What settles a batch leaves its row neither queued nor running.         *)
LEMMA BatchSettled ==
    ASSUME JobsInv, NEW ok \in BOOLEAN, Settle(ok)
    PROVE  JobsInv'
<1> DEFINE t == JobId(deliveries)
           to == IF ok THEN "completed" ELSE "failed"
<1>1. /\ 1 \in 1 .. MaxDeliveries /\ (ownId => t = 1)
      /\ UNCHANGED <<origin, ownId>>
  BY BatchAssumption DEF Settle, JobId
<1>2. to \in {"completed", "failed"}
  OBVIOUS
<1>3. CASE UNCHANGED batchJobs /\ (origin = "task" => batch' = "unsettled")
  BY <1>1, <1>3 DEF JobsInv, OneRow, BatchRowAwaited
<1>4. CASE batchJobs' = MoveQueueJob(batchJobs, t, {"queued", "running"}, to)
  <2> HIDE DEF t, to
  <2>1. /\ batchJobs' \in [1 .. MaxDeliveries -> QueueJobStatus]
        /\ \A u \in 1 .. MaxDeliveries : u # t => batchJobs'[u] = batchJobs[u]
        /\ t \in 1 .. MaxDeliveries => batchJobs'[t] \notin {"queued", "running"}
    BY <1>2, <1>4 DEF MoveQueueJob, JobsInv, OneRow, QueueJobStatus
  <2>2. OneRow'
    BY <1>1, <2>1 DEF JobsInv, OneRow
  <2>3. ASSUME ownId, NEW u \in 1 .. MaxDeliveries
        PROVE  batchJobs'[u] \notin {"queued", "running"}
    <3>1. CASE u = 1
      BY <1>1, <2>1, <2>3, <3>1
    <3>2. CASE u # 1
      BY <1>1, <2>1, <2>3, <3>2 DEF JobsInv, OneRow
    <3> QED  BY <3>1, <3>2
  <2>4. DOMAIN batchJobs' = 1 .. MaxDeliveries
    BY <2>1
  <2> QED  BY <1>1, <2>2, <2>3, <2>4 DEF JobsInv, BatchRowAwaited
<1> QED
  BY <1>3, <1>4 DEF Settle, MarkQueueJobCompleted, MarkQueueJobFailed

LEMMA JobsKept ==
    ASSUME JobsInv, [Next]_vars
    PROVE  JobsInv'
<1>1. CASE UNCHANGED <<batch, job>>
  BY <1>1 DEF job, JobsInv, OneRow, BatchRowAwaited
<1>2. CASE Reads \/ UNCHANGED vars
  BY <1>1, <1>2 DEF Reads, vars, batchVars
<1>3. CASE UNCHANGED job /\ batch' \notin {"completed", "failed"}
  BY <1>3 DEF job, JobsInv, OneRow, BatchRowAwaited
<1>4. CASE BatchStep /\ ~StartTask /\ ~Settle(TRUE) /\ ~Settle(FALSE)
  BY <1>1, <1>3, <1>4
  DEF BatchStep, StartRoute, LoadNames, LoadFails, SkipName, RecordName,
      RecordFails, PublishName, PublishFails, RecordPublishFailure, EndLoop,
      ProcessDies
<1>5. CASE BatchStep
  BY <1>4, <1>5, TaskStarted, BatchSettled
<1> QED  BY <1>2, <1>5 DEF Next, Batches, AtRest

(* The queue_jobs row of a batch sent with a task id is settled with it,   *)
(* over any number of deliveries, lists and failures.                      *)
THEOREM BatchRowsAwaited == Spec => []BatchRowAwaited
<1>1. JobsInv => BatchRowAwaited
  BY DEF JobsInv
<1> QED  BY <1>1, JobsStart, JobsKept, PTL DEF Spec

-----------------------------------------------------------------------------
(* The loop of a batch *)

Names == Packages \cup InvalidNames

DistinctNames(s) == s \in Seq(Names) /\ IsInjective(s)

LEMMA NameAppended ==
    ASSUME NEW s, DistinctNames(s), NEW e \in Names, e \notin Range(s)
    PROVE  DistinctNames(Append(s, e))
<1>1. /\ s \in Seq(Names) /\ Len(s) \in Nat /\ DOMAIN s = 1 .. Len(s)
      /\ \A i, j \in DOMAIN s : s[i] = s[j] => i = j
  BY LenProperties DEF DistinctNames, IsInjective
<1> DEFINE t == Append(s, e)
<1>2. /\ t \in Seq(Names) /\ Len(t) = Len(s) + 1
      /\ \A i \in 1 .. Len(s) : t[i] = s[i]
      /\ t[Len(s) + 1] = e
  BY <1>1, AppendProperties
<1>3. DOMAIN t = 1 .. Len(s) + 1
  BY <1>2, LenProperties
<1>4. \A i \in 1 .. Len(s) : s[i] # e
  BY <1>1 DEF Range
<1> HIDE DEF t
<1>5. ASSUME NEW i \in DOMAIN t, NEW j \in DOMAIN t, t[i] = t[j]
      PROVE  i = j
  <2>1. CASE i \in 1 .. Len(s) /\ j \in 1 .. Len(s)
    BY <1>1, <1>2, <1>5, <2>1
  <2>2. CASE i = Len(s) + 1 /\ j \in 1 .. Len(s)
    BY <1>2, <1>4, <1>5, <2>2
  <2>3. CASE i \in 1 .. Len(s) /\ j = Len(s) + 1
    BY <1>2, <1>4, <1>5, <2>3
  <2> QED  BY <1>1, <1>3, <2>1, <2>2, <2>3
<1> QED  BY <1>2, <1>5 DEF DistinctNames, IsInjective, t

LEMMA NamesCut ==
    ASSUME NEW s, DistinctNames(s), NEW limit \in Nat
    PROVE  DistinctNames(Cut(s, limit))
<1> DEFINE n == IF limit < Len(s) THEN limit ELSE Len(s)
           t == SubSeq(s, 1, n)
<1>1. /\ s \in Seq(Names) /\ Len(s) \in Nat /\ DOMAIN s = 1 .. Len(s)
      /\ \A i, j \in DOMAIN s : s[i] = s[j] => i = j
  BY LenProperties DEF DistinctNames, IsInjective
<1>2. n \in 0 .. Len(s)
  BY <1>1
<1> HIDE DEF n
<1>3. t = [i \in 1 .. n |-> s[i]]
  BY <1>1, <1>2, SubSeqProperties
<1> HIDE DEF t
<1>4. t \in [1 .. n -> Names]
  <2>1. \A i \in 1 .. n : i \in 1 .. Len(s)
    BY <1>1, <1>2
  <2>2. \A i \in 1 .. n : s[i] \in Names
    BY <1>1, <2>1, ElementOfSeq
  <2> QED  BY <1>3, <2>2
<1>5. t \in Seq(Names) /\ DOMAIN t = 1 .. n
  <2>1. n \in Nat
    BY <1>1, <1>2
  <2> QED  BY <1>4, <2>1, SeqDef
<1>6. IsInjective(t)
  BY <1>1, <1>2, <1>3 DEF IsInjective
<1> QED  BY <1>5, <1>6 DEF DistinctNames, Cut, n, t

(* What one more entry does to the names listed so far.                    *)
Keeping(s, e) == IF e = Blank \/ e \in Range(s) THEN s ELSE Append(s, e)

LEMMA KeptDistinct ==
    ASSUME NEW s, DistinctNames(s), NEW e \in Entries
    PROVE  DistinctNames(Keeping(s, e))
<1>1. CASE e = Blank \/ e \in Range(s)
  BY <1>1 DEF Keeping
<1>2. CASE e # Blank /\ e \notin Range(s)
  BY <1>2, NameAppended DEF Keeping, Entries, Names
<1> QED  BY <1>1, <1>2

(* The list holds each name once and no blank ones.                        *)
LEMMA ListedDistinct ==
    ASSUME NEW content \in Seq(Entries)
    PROVE  DistinctNames(Listed(content))
<1> DEFINE N == Len(content)
           V == {s \in Seq(Names) : DistinctNames(s)}
           turn == [n \in 1 .. N |-> [s \in V |-> Keeping(s, content[n])]]
           Defined(f) == f = [n \in 0 .. N |-> IF n = 0 THEN << >>
                                               ELSE Keeping(f[n - 1], content[n])]
<1>1. N \in Nat /\ << >> \in V /\ \A n \in 1 .. N : content[n] \in Entries
  <2>1. << >> \in Seq(Names) /\ DOMAIN << >> = {}
    BY EmptySeq
  <2>2. DistinctNames(<< >>)
    BY <2>1 DEF DistinctNames, IsInjective
  <2> QED  BY <2>1, <2>2, LenProperties, ElementOfSeq
<1>2. ASSUME NEW s \in V, NEW n \in 1 .. N
      PROVE  Keeping(s, content[n]) \in V
  <2>1. DistinctNames(Keeping(s, content[n]))
    BY <1>1, KeptDistinct
  <2> QED  BY <2>1 DEF DistinctNames
<1> HIDE DEF N, V
<1>3. turn \in [1 .. N -> [V -> V]]
  BY <1>2
<1>4. PICK f : IsLoop(f, N, V, << >>, turn)
  <2> HIDE DEF turn
  <2> QED  BY <1>1, <1>3, LoopExists
<1>5. /\ f \in [0 .. N -> V]
      /\ \A n \in 0 .. N : f[n] = IF n = 0 THEN << >> ELSE turn[n][f[n - 1]]
  <2> HIDE DEF turn
  <2> QED  BY <1>4 DEF IsLoop
<1>6. ASSUME NEW n \in 0 .. N, n # 0
      PROVE  f[n] = Keeping(f[n - 1], content[n])
  <2>1. n \in 1 .. N /\ f[n - 1] \in V
    BY <1>1, <1>5, <1>6
  <2>2. f[n] = turn[n][f[n - 1]]
    <3> HIDE DEF turn
    <3> QED  BY <1>5, <1>6
  <2> QED  BY <2>1, <2>2
<1>7. Defined(f)
  <2>1. f[0] = << >>
    <3> HIDE DEF turn
    <3>1. 0 \in 0 .. N
      BY <1>1
    <3> QED  BY <1>5, <3>1
  <2>2. f = [n \in 0 .. N |-> f[n]]
    <3> HIDE DEF turn
    <3> QED  BY <1>5
  <2> QED  BY <1>6, <2>1, <2>2
<1> DEFINE listed == ListedAfter(content)
<1>8. listed = CHOOSE g : Defined(g)
  BY DEF ListedAfter, N, Keeping
<1>9. Defined(listed)
  <2> HIDE DEF Defined, listed
  <2> QED  BY <1>7, <1>8
<1> HIDE DEF listed
<1>10. \A n \in 0 .. N : listed[n] = IF n = 0 THEN << >> ELSE Keeping(listed[n - 1], content[n])
  BY <1>9
<1>11. \A n \in 0 .. N : listed[n] \in V
  <2> DEFINE S == {n \in 0 .. N : listed[n] \in V}
  <2>1. 0 \in S
    BY <1>1, <1>10
  <2>2. ASSUME NEW k \in 0 .. N, k # N, k \in S
        PROVE  k + 1 \in S
    <3>1. k + 1 \in 0 .. N /\ k + 1 # 0 /\ (k + 1) - 1 = k /\ k + 1 \in 1 .. N
      BY <1>1, <2>2
    <3> QED  BY <3>1, <2>2, <1>2, <1>10
  <2> HIDE DEF S
  <2>3. \A n \in 0 .. N : n \in S
    BY <1>1, <2>1, <2>2, CountingUp
  <2> QED  BY <2>3 DEF S
<1>12. listed[N] \in V
  BY <1>1, <1>11
<1> QED  BY <1>12 DEF Listed, listed, N, V

(* The names requested, s, are the valid ones among the first k - 1 of ns, *)
(* in their order.                                                         *)
InOrder(s, ns, k) ==
    /\ IsInjective(s)
    /\ Range(s) = {ns[i] : i \in 1 .. k - 1} \cap Packages
    /\ \A i, j \in 1 .. k - 1 : \A a, b \in DOMAIN s :
          s[a] = ns[i] /\ s[b] = ns[j] /\ i < j => a < b

LoopInv ==
    /\ DistinctNames(names)
    /\ position \in 1 .. Len(names) + 1
    /\ sentNow \in Seq(Packages) /\ InOrder(sentNow, names, position)
    /\ enqueued = Len(sentNow) /\ skipped \in Nat
    /\ enqueued + skipped = position - 1
    /\ batch \in {"asked", "loading"} => NotLooping
    /\ batch = "publish" => position <= Len(names) /\ names[position] \in Packages
    /\ batch \in {"completing", "completed"} => position > Len(names)

LEMMA NothingInOrder ==
    ASSUME NEW ns
    PROVE  InOrder(<< >>, ns, 1)
<1>1. DOMAIN << >> = {} /\ 1 .. 1 - 1 = {}
  OBVIOUS
<1> QED  BY <1>1 DEF InOrder, IsInjective, Range

LEMMA NextSkipped ==
    ASSUME NEW ns \in Seq(Names), NEW k \in 1 .. Len(ns), ns[k] \notin Packages,
           NEW s \in Seq(Packages), InOrder(s, ns, k)
    PROVE  InOrder(s, ns, k + 1)
<1>1. k \in Nat /\ 1 .. (k + 1) - 1 = 1 .. k /\ \A i \in 1 .. k : i = k \/ i \in 1 .. k - 1
  BY LenProperties
<1>2. \A a \in DOMAIN s : s[a] \in Packages
  BY ElementOfSeq, LenProperties
<1>3. {ns[i] : i \in 1 .. k - 1} \cap Packages = {ns[i] : i \in 1 .. k} \cap Packages
  <2>1. \A i \in 1 .. k - 1 : i \in 1 .. k
    BY <1>1
  <2> QED  BY <1>1, <2>1
<1>4. ASSUME NEW i \in 1 .. k, NEW j \in 1 .. k, NEW a \in DOMAIN s, NEW b \in DOMAIN s,
             s[a] = ns[i], s[b] = ns[j], i < j
      PROVE  a < b
  <2>1. i # k /\ j # k
    BY <1>2, <1>4
  <2> QED  BY <1>1, <1>4, <2>1 DEF InOrder
<1> QED  BY <1>1, <1>3, <1>4 DEF InOrder

LEMMA NextRequested ==
    ASSUME NEW ns, DistinctNames(ns), NEW k \in 1 .. Len(ns), ns[k] \in Packages,
           NEW s \in Seq(Packages), InOrder(s, ns, k)
    PROVE  InOrder(Append(s, ns[k]), ns, k + 1)
<1> DEFINE t == Append(s, ns[k])
           m == Len(s)
<1>1. /\ ns \in Seq(Names) /\ Len(ns) \in Nat /\ DOMAIN ns = 1 .. Len(ns)
      /\ \A i, j \in 1 .. Len(ns) : ns[i] = ns[j] => i = j
  BY LenProperties DEF DistinctNames, IsInjective
<1>2. /\ k \in Nat /\ 1 .. (k + 1) - 1 = 1 .. k
      /\ \A i \in 1 .. k : i \in 1 .. Len(ns) /\ (i = k \/ i \in 1 .. k - 1)
      /\ \A i \in 1 .. k - 1 : i \in 1 .. k /\ i # k
  BY <1>1
<1>3. m \in Nat /\ DOMAIN s = 1 .. m
  BY LenProperties
<1>4. /\ t \in Seq(Packages) /\ Len(t) = m + 1
      /\ \A a \in 1 .. m : t[a] = s[a]
      /\ t[m + 1] = ns[k]
  BY AppendProperties
<1>5. DOMAIN t = 1 .. m + 1
  BY <1>4, LenProperties
<1> HIDE DEF t, m
<1>6. \A a \in 1 .. m : s[a] # ns[k]
  <2>1. SUFFICES ASSUME NEW a \in 1 .. m, s[a] = ns[k] PROVE FALSE
    OBVIOUS
  <2>2. s[a] \in Range(s)
    BY <1>3 DEF Range
  <2>3. PICK i \in 1 .. k - 1 : s[a] = ns[i]
    BY <2>2 DEF InOrder
  <2> QED  BY <1>1, <1>2, <2>1, <2>3
<1>7. IsInjective(t)
  <2>1. ASSUME NEW a \in 1 .. m + 1, NEW b \in 1 .. m + 1, t[a] = t[b]
        PROVE  a = b
    <3>1. \A c, d \in 1 .. m : s[c] = s[d] => c = d
      BY <1>3 DEF InOrder, IsInjective
    <3>2. (a \in 1 .. m \/ a = m + 1) /\ (b \in 1 .. m \/ b = m + 1)
      BY <1>3
    <3> QED  BY <1>4, <1>6, <2>1, <3>1, <3>2
  <2> QED  BY <1>5, <2>1 DEF IsInjective
<1>8. Range(t) = {ns[i] : i \in 1 .. k} \cap Packages
  <2>1. Range(t) = Range(s) \cup {ns[k]}
    <3>1. \A a : a \in 1 .. m + 1 <=> a \in 1 .. m \/ a = m + 1
      BY <1>3
    <3> QED  BY <1>3, <1>4, <1>5, <3>1 DEF Range
  <2>2. {ns[i] : i \in 1 .. k} = {ns[i] : i \in 1 .. k - 1} \cup {ns[k]}
    BY <1>2
  <2> QED  BY <2>1, <2>2 DEF InOrder
<1>9. ASSUME NEW i \in 1 .. k, NEW j \in 1 .. k, NEW a \in DOMAIN t, NEW b \in DOMAIN t,
             t[a] = ns[i], t[b] = ns[j], i < j
      PROVE  a < b
  <2>1. i # k /\ i \in 1 .. k - 1 /\ ns[i] # ns[k]
    BY <1>1, <1>2, <1>9
  <2>2. a # m + 1 /\ a \in 1 .. m /\ t[a] = s[a]
    BY <1>3, <1>4, <1>5, <1>9, <2>1
  <2>3. CASE b = m + 1
    BY <1>3, <2>2, <2>3
  <2>4. CASE b \in 1 .. m
    <3>1. j # k /\ j \in 1 .. k - 1
      BY <1>2, <1>4, <1>6, <1>9, <2>4
    <3> QED  BY <1>3, <1>4, <1>9, <2>1, <2>2, <2>4, <3>1 DEF InOrder
  <2> QED  BY <1>3, <1>5, <2>3, <2>4
<1> QED  BY <1>2, <1>7, <1>8, <1>9 DEF InOrder, t

LEMMA LoopStart == BatchInit => LoopInv
<1> SUFFICES ASSUME BatchInit PROVE LoopInv
  OBVIOUS
<1>1. \A S : << >> \in Seq(S) /\ Len(<< >>) = 0 /\ DOMAIN << >> = {}
  BY EmptySeq, LenProperties
<1>2. DistinctNames(<< >>)
  BY <1>1 DEF DistinctNames, IsInjective
<1> QED  BY <1>1, <1>2, NothingInOrder DEF BatchInit, NotLooping, LoopInv

(* The steps outside the turns of the loop.                                *)
LEMMA LoopLeft ==
    ASSUME LoopInv, UNCHANGED loop,
           batch' \in {"asked", "loading"} => batch \in {"asked", "loading"},
           batch' = "publish" => AtName(Packages) \/ batch = "publish",
           batch' \in {"completing", "completed"}
               => batch \in {"completing", "completed"} \/ position > Len(names)
    PROVE  LoopInv'
<1>1. UNCHANGED <<names, position, enqueued, skipped, sentNow>>
  BY DEF loop
<1>2. DistinctNames(names)' /\ InOrder(sentNow, names, position)'
  BY <1>1 DEF LoopInv, DistinctNames, InOrder
<1> QED  BY <1>1, <1>2 DEF LoopInv, AtName, NotLooping

LEMMA NamesLoaded ==
    ASSUME LoopInv, LoadNames
    PROVE  LoopInv'
<1>1. NotLooping /\ UNCHANGED <<position, enqueued, skipped, sentNow>>
  BY DEF LoadNames, LoopInv
<1>2. DistinctNames(names')
  <2>1. CASE names' = names
    BY <2>1 DEF LoopInv
  <2>2. ASSUME NEW content \in Contents, NEW limit \in Limits,
               names' = Cut(Listed(content), limit)
        PROVE  DistinctNames(names')
    BY <2>2, BatchAssumption, ListedDistinct, NamesCut
  <2> QED  BY <2>1, <2>2 DEF LoadNames
<1>3. Len(names') \in Nat /\ Len(<< >>) = 0 /\ << >> \in Seq(Packages)
  BY <1>2, LenProperties, EmptySeq DEF DistinctNames
<1>4. batch' \in {"failing", "loop"}
  BY DEF LoadNames
<1> QED  BY <1>1, <1>2, <1>3, <1>4, NothingInOrder DEF LoopInv, NotLooping

LEMMA NameSkipped ==
    ASSUME LoopInv, SkipName
    PROVE  LoopInv'
<1>1. /\ position \in 1 .. Len(names) /\ names[position] \notin Packages
      /\ Len(names) \in Nat /\ names \in Seq(Names)
  BY BatchAssumption, LenProperties DEF SkipName, AtName, LoopInv, DistinctNames
<1>2. InOrder(sentNow, names, position + 1)
  BY <1>1, NextSkipped DEF LoopInv
<1>3. Len(sentNow) \in Nat
  BY LenProperties DEF LoopInv
<1>4. batch = "loop" /\ batch' = "loop"
  BY DEF SkipName, AtName
<1>5. /\ position' = position + 1 /\ skipped' = skipped + 1
      /\ UNCHANGED <<names, enqueued, sentNow>>
  BY DEF SkipName
<1> QED  BY <1>1, <1>2, <1>3, <1>4, <1>5 DEF LoopInv

LEMMA NamePublished ==
    ASSUME LoopInv, PublishName
    PROVE  LoopInv'
<1>1. /\ position \in 1 .. Len(names) /\ names[position] \in Packages
      /\ Len(names) \in Nat
  BY LenProperties DEF PublishName, LoopInv, DistinctNames
<1>2. InOrder(Append(sentNow, names[position]), names, position + 1)
  BY <1>1, NextRequested DEF LoopInv
<1>3. /\ Len(sentNow) \in Nat
      /\ Append(sentNow, names[position]) \in Seq(Packages)
      /\ Len(Append(sentNow, names[position])) = Len(sentNow) + 1
  BY <1>1, LenProperties, AppendProperties DEF LoopInv
<1>4. /\ batch' = "loop" /\ position' = position + 1 /\ enqueued' = enqueued + 1
      /\ sentNow' = Append(sentNow, names[position]) /\ UNCHANGED <<names, skipped>>
  BY DEF PublishName
<1> QED  BY <1>1, <1>2, <1>3, <1>4 DEF LoopInv

LEMMA LoopDropped ==
    ASSUME LoopInv, ProcessDies
    PROVE  LoopInv'
<1>1. DistinctNames(<< >>) /\ Len(<< >>) = 0 /\ << >> \in Seq(Packages)
  <2>1. \A S : << >> \in Seq(S) /\ Len(<< >>) = 0 /\ DOMAIN << >> = {}
    BY EmptySeq, LenProperties
  <2> QED  BY <2>1 DEF DistinctNames, IsInjective
<1> QED  BY <1>1, NothingInOrder DEF ProcessDies, LoopInv, NotLooping

LEMMA LoopKept ==
    ASSUME LoopInv, [Next]_vars
    PROVE  LoopInv'
<1>1. CASE UNCHANGED <<batch, loop>>
  BY <1>1, LoopLeft
<1>2. CASE StartRoute \/ StartTask \/ LoadFails \/ RecordFails \/ PublishFails
           \/ RecordPublishFailure \/ EndLoop
  BY <1>2, LoopLeft
  DEF StartRoute, StartTask, LoadFails, RecordFails, PublishFails,
      RecordPublishFailure, EndLoop
<1>3. CASE RecordName
  BY <1>3, LoopLeft DEF RecordName
<1>4. ASSUME NEW ok \in BOOLEAN, Settle(ok)
      PROVE  LoopInv'
  BY <1>4, LoopLeft DEF Settle
<1>5. CASE BatchStep
  BY <1>2, <1>3, <1>4, <1>5, NamesLoaded, NameSkipped, NamePublished, LoopDropped
  DEF BatchStep
<1> QED  BY <1>1, <1>5 DEF Next, Reads, Batches, AtRest, vars, batchVars

(* What a batch requests is what comes first on its list, each name once,  *)
(* in that order, and all of it when it completes: for every list, limit,  *)
(* failure and number of deliveries.                                       *)
THEOREM BatchesWhole == Spec => []BatchWhole
<1>1. Init => LoopInv
  BY LoopStart DEF Init
<1>2. LoopInv => BatchWhole
  <2> SUFFICES ASSUME LoopInv PROVE BatchWhole
    OBVIOUS
  <2>1. Len(names) \in Nat
    BY LenProperties DEF LoopInv, DistinctNames
  <2>2. batch = "completed" => position = Len(names) + 1
    BY <2>1 DEF LoopInv
  <2>3. batch = "completed" => enqueued + skipped = Len(names)
    BY <2>1, <2>2 DEF LoopInv
  <2> QED  BY <2>2, <2>3 DEF LoopInv, InOrder, BatchWhole
<1> QED  BY <1>1, <1>2, LoopKept, PTL DEF Spec

-----------------------------------------------------------------------------
(* The rows and messages of a batch *)

(* A row recorded and not yet published.                                   *)
Unsent(p) == IF batch = "publish" /\ names[position] = p THEN 1 ELSE 0

(* An execution that has not recorded a row it may still fail to publish.  *)
Spare == IF \/ batch \in {"loading", "loop", "completing"}
            \/ batch = "asked" /\ origin = "route"
         THEN 1 ELSE 0

(* MessagesMatchRows is not inductive: a publish and a new execution each  *)
(* need room for what they are about to count.                             *)
RowsInv ==
    /\ recorded \subseteq DOMAIN scans
    /\ sent \in Seq(Packages)
    /\ deliveries \in Nat
    /\ origin \in {"route", "task"}
    /\ origin = "route" => batch # "unsettled"
    /\ \A p \in Packages :
          Cardinality(MessagesFor(p)) + Unsent(p) <= Cardinality(RowsFor(p))
    /\ Cardinality(recorded) + Spare <= Len(sent) + Executions

LEMMA CountsTyped ==
    ASSUME CatalogueInv, RowsInv, NEW p
    PROVE  /\ IsFiniteSet(recorded) /\ Cardinality(recorded) \in Nat
           /\ IsFiniteSet(RowsFor(p)) /\ Cardinality(RowsFor(p)) \in Nat
           /\ IsFiniteSet(MessagesFor(p)) /\ Cardinality(MessagesFor(p)) \in Nat
           /\ Len(sent) \in Nat /\ Executions \in Nat
<1>1. /\ Len(scans) \in Nat /\ DOMAIN scans = 1 .. Len(scans)
      /\ Len(sent) \in Nat /\ DOMAIN sent = 1 .. Len(sent)
  BY TableTypes, LenProperties DEF RowsInv
<1>2. IsFiniteSet(DOMAIN scans) /\ IsFiniteSet(DOMAIN sent)
  BY <1>1, FS_Interval
<1>3. /\ IsFiniteSet(recorded) /\ IsFiniteSet(RowsFor(p)) /\ IsFiniteSet(MessagesFor(p))
  <2>1. recorded \in SUBSET DOMAIN scans /\ RowsFor(p) \in SUBSET DOMAIN scans
        /\ MessagesFor(p) \in SUBSET DOMAIN sent
    BY DEF RowsInv, RowsFor, MessagesFor
  <2> QED  BY <1>2, <2>1, FS_Subset
<1>4. Executions \in Nat
  BY DEF RowsInv, Executions
<1> QED  BY <1>1, <1>3, <1>4, FS_CardinalityType

LEMMA RowsStart == BatchInit => RowsInv
<1> SUFFICES ASSUME BatchInit PROVE RowsInv
  OBVIOUS
<1>1. recorded = {} /\ sent = << >> /\ DOMAIN sent = {} /\ Len(sent) = 0
  BY LenProperties DEF BatchInit
<1>2. \A p : MessagesFor(p) = {} /\ RowsFor(p) = {}
  BY <1>1 DEF MessagesFor, RowsFor
<1>3. Cardinality({}) = 0
  BY FS_EmptySet
<1>4. /\ batch = "asked" /\ deliveries = 0 /\ origin \in {"route", "task"}
  BY DEF BatchInit
<1>5. sent \in Seq(Packages)
  BY <1>1, EmptySeq
<1>6. \A p \in Packages :
         Cardinality(MessagesFor(p)) + Unsent(p) <= Cardinality(RowsFor(p))
  BY <1>2, <1>3, <1>4 DEF Unsent
<1>7. Cardinality(recorded) + Spare <= Len(sent) + Executions
  BY <1>1, <1>3, <1>4 DEF Spare, Executions
<1> QED  BY <1>1, <1>4, <1>5, <1>6, <1>7 DEF RowsInv

(* The steps that neither record nor publish.                              *)
LEMMA RowsLeft ==
    ASSUME CatalogueInv, RowsInv, UNCHANGED <<recorded, sent, origin>>,
           DOMAIN scans \subseteq DOMAIN scans',
           \A i \in DOMAIN scans : scans'[i].pkg = scans[i].pkg,
           deliveries' \in Nat, deliveries <= deliveries',
           origin = "route" => batch' # "unsettled",
           \A p \in Packages : Unsent(p)' <= Unsent(p),
           origin = "route" => Spare' <= Spare,
           origin = "task" => Spare' + deliveries <= Spare + deliveries'
    PROVE  RowsInv'
<1>1. \A p : RowsFor(p)' = RowsFor(p) /\ MessagesFor(p)' = MessagesFor(p)
  BY DEF RowsFor, MessagesFor, RowsInv
<1>2. ASSUME NEW p \in Packages
      PROVE  Cardinality(MessagesFor(p))' + Unsent(p)' <= Cardinality(RowsFor(p))'
  <2>1. /\ Cardinality(MessagesFor(p)) + Unsent(p) <= Cardinality(RowsFor(p))
        /\ Unsent(p)' <= Unsent(p) /\ Unsent(p) \in Nat /\ Unsent(p)' \in Nat
    BY DEF RowsInv, Unsent
  <2>2. Cardinality(MessagesFor(p)) \in Nat /\ Cardinality(RowsFor(p)) \in Nat
    BY CountsTyped
  <2>3. /\ Cardinality(MessagesFor(p))' = Cardinality(MessagesFor(p))
        /\ Cardinality(RowsFor(p))' = Cardinality(RowsFor(p))
    BY <1>1
  <2> QED  BY <2>1, <2>2, <2>3
<1>3. Cardinality(recorded') + Spare' <= Len(sent') + Executions'
  <2>1. /\ Cardinality(recorded) + Spare <= Len(sent) + Executions
        /\ Cardinality(recorded) \in Nat /\ Len(sent) \in Nat
        /\ deliveries \in Nat
    BY CountsTyped DEF RowsInv
  <2>2. Spare \in Nat /\ Spare' \in Nat
    BY DEF Spare
  <2>3. \A card, s, t, n, d, e \in Nat :
           card + s <= n + d /\ t + d <= s + e => card + t <= n + e
    OBVIOUS
  <2>4. Cardinality(recorded') = Cardinality(recorded) /\ Len(sent') = Len(sent)
    OBVIOUS
  <2>5. CASE origin = "route"
    <3>1. Executions = 1 /\ Executions' = 1
      BY <2>5 DEF Executions
    <3>2. Spare' <= Spare
      BY <2>5
    <3>3. \A s, t \in Nat : t <= s => t + 1 <= s + 1
      OBVIOUS
    <3>4. Spare' + 1 <= Spare + 1
      BY <2>2, <3>2, <3>3
    <3> QED  BY <2>1, <2>2, <2>3, <2>4, <3>1, <3>4
  <2>6. CASE origin = "task"
    <3>1. Executions = deliveries /\ Executions' = deliveries'
      BY <2>6 DEF Executions
    <3>2. Spare' + deliveries <= Spare + deliveries'
      BY <2>6
    <3> QED  BY <2>1, <2>2, <2>3, <2>4, <3>1, <3>2
  <2> QED  BY <2>5, <2>6 DEF RowsInv
<1>4. recorded' \subseteq DOMAIN scans'
  BY DEF RowsInv
<1> QED  BY <1>2, <1>3, <1>4 DEF RowsInv

LEMMA RowOfBatch ==
    ASSUME CatalogueInv, RowsInv, RecordName
    PROVE  RowsInv'
<1> DEFINE m == Len(scans)
           e == names[position]
<1>1. /\ e \in Packages /\ batch = "loop" /\ batch' = "publish"
      /\ recorded' = recorded \cup {Len(scans')}
      /\ UNCHANGED <<origin, deliveries, names, position, sent>>
  BY DEF RecordName, AtName, job, loop
<1>2. /\ Len(scans') = m + 1 /\ m \in Nat
      /\ \A j \in 1 .. m : scans'[j] = scans[j]
      /\ scans'[m + 1].pkg = e
  <2>1. scans \in ScanTable /\ "queued" \in ScanStatus
    BY TableTypes DEF ScanStatus
  <2>2. scans' = CreateScanResult(scans, e, "queued")
    BY <1>1 DEF RecordName, RecordRequest, NewScan, UpsertPackage
  <2>3. scans'[m + 1] = [pkg |-> e, status |-> "queued", latest |-> NoVersion,
                         findings |-> NoVersion]
        /\ Len(scans') = m + 1 /\ \A j \in 1 .. m : scans'[j] = scans[j]
    BY <1>1, <2>1, <2>2, RowCreated
  <2> QED  BY <2>3, TableTypes
<1>3. DOMAIN scans = 1 .. m /\ DOMAIN scans' = 1 .. m + 1
  <2>1. scans' \in ScanTable
    <3>1. scans \in ScanTable /\ "queued" \in ScanStatus
      BY TableTypes DEF ScanStatus
    <3>2. scans' = CreateScanResult(scans, e, "queued")
      BY <1>1 DEF RecordName, RecordRequest, NewScan, UpsertPackage
    <3> QED  BY <1>1, <3>1, <3>2, RowCreated
  <2> QED  BY <1>2, <2>1, TableTypes, LenProperties DEF ScanTable
<1> HIDE DEF m, e
<1>4. recorded \subseteq 1 .. m /\ m + 1 \notin recorded /\ recorded' = recorded \cup {m + 1}
  BY <1>1, <1>2, <1>3 DEF RowsInv
<1>5. recorded' \subseteq DOMAIN scans'
  <2>1. \A i \in 1 .. m : i \in 1 .. m + 1
    BY <1>2
  <2>2. m + 1 \in 1 .. m + 1
    BY <1>2
  <2> QED  BY <1>3, <1>4, <2>1, <2>2
<1>6. \A p : MessagesFor(p)' = MessagesFor(p)
  BY <1>1 DEF MessagesFor
<1>7. \A p : RowsFor(p)' = IF e = p THEN RowsFor(p) \cup {m + 1} ELSE RowsFor(p)
  <2>1. \A i \in recorded : scans'[i] = scans[i]
    BY <1>2, <1>4
  <2> QED  BY <1>2, <1>4, <2>1 DEF RowsFor
<1>8. ASSUME NEW p \in Packages
      PROVE  Cardinality(MessagesFor(p))' + Unsent(p)' <= Cardinality(RowsFor(p))'
  <2>1. /\ Cardinality(MessagesFor(p)) <= Cardinality(RowsFor(p))
        /\ Cardinality(MessagesFor(p)) \in Nat /\ Cardinality(RowsFor(p)) \in Nat
        /\ IsFiniteSet(RowsFor(p))
    <3>1. Cardinality(MessagesFor(p)) + Unsent(p) <= Cardinality(RowsFor(p))
      BY DEF RowsInv
    <3>2. Unsent(p) = 0
      BY <1>1 DEF Unsent
    <3>3. /\ Cardinality(MessagesFor(p)) \in Nat /\ Cardinality(RowsFor(p)) \in Nat
          /\ IsFiniteSet(RowsFor(p))
      BY CountsTyped
    <3> QED  BY <3>1, <3>2, <3>3
  <2>2. Cardinality(MessagesFor(p))' = Cardinality(MessagesFor(p))
    BY <1>6
  <2>3. CASE e = p
    <3>1. m + 1 \notin RowsFor(p) /\ RowsFor(p)' = RowsFor(p) \cup {m + 1}
      BY <1>4, <1>7, <2>3 DEF RowsFor
    <3>2. Cardinality(RowsFor(p) \cup {m + 1}) = Cardinality(RowsFor(p)) + 1
      BY <2>1, <3>1, FS_AddElement
    <3>3. Unsent(p)' = 1
      BY <1>1, <2>3 DEF Unsent, e
    <3> QED  BY <2>1, <2>2, <3>1, <3>2, <3>3
  <2>4. CASE e # p
    <3>1. Unsent(p)' = 0
      BY <1>1, <2>4 DEF Unsent, e
    <3>2. Cardinality(RowsFor(p))' = Cardinality(RowsFor(p))
      BY <1>7, <2>4
    <3> QED  BY <2>1, <2>2, <3>1, <3>2
  <2> QED  BY <2>3, <2>4
<1>9. Cardinality(recorded') + Spare' <= Len(sent') + Executions'
  <2>1. /\ Cardinality(recorded) + Spare <= Len(sent) + Executions
        /\ IsFiniteSet(recorded) /\ Cardinality(recorded) \in Nat
        /\ Len(sent) \in Nat /\ Executions \in Nat
    BY CountsTyped DEF RowsInv
  <2>2. Cardinality(recorded') = Cardinality(recorded) + 1
    BY <1>4, <2>1, FS_AddElement
  <2>3. Spare = 1 /\ Spare' = 0 /\ Executions' = Executions /\ Len(sent') = Len(sent)
    BY <1>1 DEF Spare, Executions
  <2> QED  BY <2>1, <2>2, <2>3
<1> QED  BY <1>1, <1>5, <1>8, <1>9 DEF RowsInv

LEMMA MessageOfBatch ==
    ASSUME CatalogueInv, RowsInv, LoopInv, PublishName
    PROVE  RowsInv'
<1> DEFINE n == Len(sent)
           e == names[position]
<1>1. /\ e \in Packages /\ batch = "publish" /\ batch' = "loop"
      /\ sent' = Append(sent, e)
      /\ UNCHANGED <<origin, deliveries, recorded, scans>>
  BY DEF PublishName, LoopInv, job, tables
<1>2. /\ n \in Nat /\ sent \in Seq(Packages) /\ DOMAIN sent = 1 .. n
      /\ sent' \in Seq(Packages) /\ Len(sent') = n + 1
      /\ \A k \in 1 .. n : sent'[k] = sent[k]
      /\ sent'[n + 1] = e
  BY <1>1, AppendProperties, LenProperties DEF RowsInv
<1>3. DOMAIN sent' = 1 .. n + 1
  BY <1>2, LenProperties
<1> HIDE DEF n, e
<1>4. \A p : RowsFor(p)' = RowsFor(p)
  BY <1>1 DEF RowsFor
<1>5. \A p : MessagesFor(p)' = IF e = p THEN MessagesFor(p) \cup {n + 1} ELSE MessagesFor(p)
  <2>1. \A k : k \in 1 .. n + 1 <=> k \in 1 .. n \/ k = n + 1
    BY <1>2
  <2> QED  BY <1>2, <1>3, <2>1 DEF MessagesFor
<1>6. ASSUME NEW p \in Packages
      PROVE  Cardinality(MessagesFor(p))' + Unsent(p)' <= Cardinality(RowsFor(p))'
  <2>1. /\ Cardinality(MessagesFor(p)) + Unsent(p) <= Cardinality(RowsFor(p))
        /\ Cardinality(MessagesFor(p)) \in Nat /\ Cardinality(RowsFor(p)) \in Nat
        /\ IsFiniteSet(MessagesFor(p))
    BY CountsTyped DEF RowsInv
  <2>2. Cardinality(RowsFor(p))' = Cardinality(RowsFor(p)) /\ Unsent(p)' = 0
    BY <1>1, <1>4 DEF Unsent
  <2>3. CASE e = p
    <3>1. n + 1 \notin MessagesFor(p) /\ MessagesFor(p)' = MessagesFor(p) \cup {n + 1}
      BY <1>2, <1>5, <2>3 DEF MessagesFor
    <3>2. Cardinality(MessagesFor(p) \cup {n + 1}) = Cardinality(MessagesFor(p)) + 1
      BY <2>1, <3>1, FS_AddElement
    <3>3. Unsent(p) = 1
      BY <1>1, <2>3 DEF Unsent, e
    <3> QED  BY <2>1, <2>2, <3>1, <3>2, <3>3
  <2>4. CASE e # p
    <3>1. Unsent(p) = 0
      BY <2>4 DEF Unsent, e
    <3>2. Cardinality(MessagesFor(p))' = Cardinality(MessagesFor(p))
      BY <1>5, <2>4
    <3> QED  BY <2>1, <2>2, <3>1, <3>2
  <2> QED  BY <2>3, <2>4
<1>7. Cardinality(recorded') + Spare' <= Len(sent') + Executions'
  <2>1. /\ Cardinality(recorded) + Spare <= n + Executions
        /\ Cardinality(recorded) \in Nat /\ Executions \in Nat
    BY CountsTyped DEF RowsInv, n
  <2>2. Spare = 0 /\ Spare' = 1 /\ Executions' = Executions
    BY <1>1 DEF Spare, Executions
  <2> QED  BY <1>1, <1>2, <2>1, <2>2
<1> QED  BY <1>1, <1>2, <1>6, <1>7 DEF RowsInv

LEMMA RowsKept ==
    ASSUME CatalogueInv, LoopInv, RowsInv, [Next]_vars, ServiceInv
    PROVE  RowsInv'
<1>1. CASE UNCHANGED batchVars /\ ScansGrown
  <2>1. /\ UNCHANGED <<recorded, sent, origin, deliveries, batch, names, position>>
        /\ deliveries \in Nat
    BY <1>1 DEF batchVars, job, loop, RowsInv
  <2>2. /\ DOMAIN scans = 1 .. Len(scans) /\ Len(scans) \in Nat
        /\ Len(scans) <= Len(scans')
        /\ \A i \in DOMAIN scans : scans'[i].pkg = scans[i].pkg
    BY <1>1, TableTypes DEF ScansGrown
  <2>3. ServiceInv'
    BY ServiceKept
  <2>4. DOMAIN scans' = 1 .. Len(scans') /\ Len(scans') \in Nat
    BY <2>3, TableDomainsNext DEF ServiceInv
  <2>5. DOMAIN scans \subseteq DOMAIN scans'
    BY <2>2, <2>4
  <2>6. \A p : Unsent(p)' = Unsent(p)
    BY <2>1 DEF Unsent
  <2>7. Spare' = Spare /\ Spare \in Nat /\ \A p : Unsent(p) \in Nat
    BY <2>1 DEF Spare, Unsent
  <2> QED
    BY <2>1, <2>2, <2>5, <2>6, <2>7, RowsLeft DEF RowsInv
<1>2. CASE UNCHANGED vars
  <2>1. /\ UNCHANGED <<recorded, sent, origin, deliveries, batch, names, position, scans>>
    BY <1>2 DEF vars, batchVars, job, loop, tables
  <2>2. /\ Spare' = Spare /\ Executions' = Executions
        /\ \A p : Unsent(p)' = Unsent(p) /\ RowsFor(p)' = RowsFor(p)
                  /\ MessagesFor(p)' = MessagesFor(p)
    BY <2>1 DEF Spare, Executions, Unsent, RowsFor, MessagesFor
  <2> QED  BY <2>1, <2>2 DEF RowsInv
<1>3. CASE Reads
  <2>1. ScansGrown
    <3>1. CASE ReadStep
      <4>1. UNCHANGED tables
        BY <3>1
        DEF ReadStep, StartWalk, ListRows, CountRows, ListPackages, ReadPackage,
            ReadLatestScan, CountVersions, CountFindings
      <4> QED  BY <4>1, TableTypes DEF tables, ScansGrown
    <3>2. CASE WriteStep
      BY <3>2, TablesKept DEF WriteStep, TablesGrown
    <3> QED  BY <1>3, <3>1, <3>2 DEF Reads
  <2> QED  BY <1>1, <1>3, <2>1 DEF Reads
<1>4. CASE StartTask
  <2>1. /\ batch = "asked" /\ origin = "task" /\ batch' \in {"loading", "unsettled"}
        /\ deliveries' = deliveries + 1 /\ deliveries \in Nat
        /\ UNCHANGED <<recorded, sent, origin, scans>>
    BY <1>4 DEF StartTask, tables, RowsInv
  <2>2. Spare = 0 /\ Spare' \in {0, 1} /\ \A p : Unsent(p)' = 0 /\ Unsent(p) = 0
    BY <2>1 DEF Spare, Unsent
  <2>3. /\ deliveries' \in Nat /\ deliveries <= deliveries'
        /\ origin # "route"
    BY <2>1
  <2>6. Spare' + deliveries <= Spare + deliveries'
    <3>1. \A a, b \in Nat : b \in {0, 1} => b + a <= 0 + (a + 1)
      OBVIOUS
    <3>2. Spare' \in Nat /\ Spare' \in {0, 1} /\ deliveries \in Nat
      BY <2>1, <2>2
    <3>3. Spare' + deliveries <= 0 + (deliveries + 1)
      BY <3>1, <3>2
    <3> QED  BY <2>1, <2>2, <3>3
  <2>4. \A p \in Packages : Unsent(p)' <= Unsent(p)
    BY <2>2
  <2>5. UNCHANGED scans
    BY <2>1
  <2> QED  BY <2>1, <2>3, <2>4, <2>5, <2>6, RowsLeft
<1>5. CASE StartRoute \/ LoadNames \/ LoadFails \/ SkipName \/ RecordFails
           \/ PublishFails \/ RecordPublishFailure \/ EndLoop
           \/ Settle(TRUE) \/ Settle(FALSE) \/ ProcessDies
  <2>1. /\ UNCHANGED <<recorded, sent, origin, deliveries, scans>>
        /\ deliveries \in Nat
    BY <1>5
    DEF StartRoute, LoadNames, LoadFails, SkipName, RecordFails, PublishFails,
        RecordPublishFailure, EndLoop, Settle, ProcessDies, job, tables, RowsInv
  <2>2. batch' # "publish" /\ (origin = "route" => batch' \notin {"unsettled", "asked"})
    <3>1. CASE StartRoute \/ LoadNames \/ LoadFails \/ SkipName \/ RecordFails
               \/ PublishFails \/ RecordPublishFailure \/ EndLoop
      BY <3>1
      DEF StartRoute, LoadNames, LoadFails, SkipName, RecordFails, PublishFails,
          RecordPublishFailure, EndLoop, AtName
    <3>2. CASE Settle(TRUE)
      BY <3>2 DEF Settle, RowsInv
    <3>3. CASE Settle(FALSE)
      BY <3>3 DEF Settle, RowsInv
    <3>4. CASE ProcessDies
      BY <3>4 DEF ProcessDies, RowsInv
    <3> QED  BY <1>5, <3>1, <3>2, <3>3, <3>4
  <2>3. batch' \in {"loading", "loop", "completing"} => Spare = 1
    BY <1>5
    DEF StartRoute, LoadNames, LoadFails, SkipName, RecordFails, PublishFails,
        RecordPublishFailure, EndLoop, Settle, ProcessDies, AtName, Spare
  <2>4. Spare' <= Spare /\ Spare \in Nat /\ Spare' \in Nat
    BY <2>1, <2>2, <2>3 DEF Spare
  <2>5. \A p : Unsent(p)' <= Unsent(p)
    BY <2>2 DEF Unsent
  <2>6. deliveries' \in Nat /\ deliveries <= deliveries'
    BY <2>1
  <2>7. Spare' + deliveries <= Spare + deliveries'
    <3>1. \A a, b, c \in Nat : b <= c => b + a <= c + a
      OBVIOUS
    <3> QED  BY <2>1, <2>4, <3>1
  <2> QED  BY <2>1, <2>2, <2>4, <2>5, <2>6, <2>7, RowsLeft
<1> QED
  BY <1>2, <1>3, <1>4, <1>5, RowOfBatch, MessageOfBatch
  DEF Next, Batches, BatchStep, AtRest

(* Nothing is published without a row of its own to claim, and every       *)
(* execution leaves at most one row unpublished: for every list, limit,    *)
(* failure and number of deliveries.                                       *)
THEOREM MessagesMatch == Spec => []MessagesMatchRows
<1> DEFINE I == ServiceInv /\ LoopInv /\ RowsInv
<1>1. Init => I
  BY ServiceStarts, LoopStart, RowsStart DEF Init
<1>2. I /\ [Next]_vars => I'
  BY ServiceKept, LoopKept, RowsKept DEF ServiceInv
<1>3. I => MessagesMatchRows
  <2> SUFFICES ASSUME I PROVE MessagesMatchRows
    OBVIOUS
  <2>1. CatalogueInv /\ RowsInv
    BY DEF ServiceInv
  <2>2. ASSUME NEW p \in Packages
        PROVE  Cardinality(MessagesFor(p)) <= Cardinality(RowsFor(p))
    <3>1. /\ Cardinality(MessagesFor(p)) + Unsent(p) <= Cardinality(RowsFor(p))
          /\ Unsent(p) \in Nat
      BY <2>1 DEF RowsInv, Unsent
    <3>2. Cardinality(MessagesFor(p)) \in Nat /\ Cardinality(RowsFor(p)) \in Nat
      BY <2>1, CountsTyped
    <3> QED  BY <3>1, <3>2
  <2>3. Cardinality(recorded) <= Len(sent) + Executions
    <3>1. Cardinality(recorded) + Spare <= Len(sent) + Executions /\ Spare \in Nat
      BY <2>1 DEF RowsInv, Spare
    <3>2. Cardinality(recorded) \in Nat /\ Len(sent) \in Nat /\ Executions \in Nat
      BY <2>1, CountsTyped
    <3> QED  BY <3>1, <3>2
  <2> QED  BY <2>2, <2>3 DEF MessagesMatchRows
<1> QED  BY <1>1, <1>2, <1>3, PTL DEF Spec

-----------------------------------------------------------------------------
(* Types *)

BatchControl ==
    /\ batch \in {"asked", "loading", "loop", "publish", "record_failure",
                  "completing", "failing"} \cup Ended
    /\ ownId \in BOOLEAN
    /\ deliveries \in 0 .. MaxDeliveries

LEMMA ControlKept ==
    ASSUME BatchControl, [Next]_vars
    PROVE  BatchControl'
<1>1. CASE UNCHANGED <<batch, job>>
  BY <1>1 DEF BatchControl, job
<1>2. CASE StartTask
  BY <1>2, BatchAssumption DEF BatchControl, StartTask, Ended
<1>3. CASE BatchStep /\ ~StartTask
  <2>1. UNCHANGED <<ownId, deliveries>>
    BY <1>3
    DEF BatchStep, StartRoute, LoadNames, LoadFails, SkipName, RecordName,
        RecordFails, PublishName, PublishFails, RecordPublishFailure, EndLoop,
        Settle, ProcessDies, job, loop
  <2>2. batch' \in {"asked", "loading", "loop", "publish", "record_failure",
                    "completing", "failing"} \cup Ended
    BY <1>3
    DEF BatchStep, StartRoute, LoadNames, LoadFails, SkipName, RecordName,
        RecordFails, PublishName, PublishFails, RecordPublishFailure, EndLoop,
        Settle, ProcessDies, AtName, Ended
  <2> QED  BY <2>1, <2>2 DEF BatchControl
<1> QED  BY <1>1, <1>2, <1>3 DEF Next, Reads, Batches, AtRest, vars, batchVars

(* The tables, the client and the batch have their types, for any number   *)
(* of packages, versions, rows, pages, names and deliveries.               *)
THEOREM ServiceTypes == Spec => []TypeOK
<1> DEFINE I == /\ ServiceInv /\ LoopInv /\ RowsInv
                /\ JobsInv /\ BatchControl
<1>1. Init => I
  <2>1. Init => BatchControl
    BY BatchAssumption DEF Init, BatchInit, BatchControl
  <2> QED  BY <2>1, ServiceStarts, LoopStart, RowsStart, JobsStart DEF Init
<1>2. I /\ [Next]_vars => I'
  BY ServiceKept, LoopKept, RowsKept, JobsKept, ControlKept DEF ServiceInv
<1>3. I => TypeOK
  <2> SUFFICES ASSUME I PROVE TypeOK
    OBVIOUS
  <2>1. CatalogueTypeOK /\ ReadApiTypeOK
    BY DEF ServiceInv, CatalogueInv, ReadInv
  <2>2. Len(names) \in Nat /\ Len(sentNow) \in Nat
    BY LenProperties DEF LoopInv, DistinctNames
  <2>3. BatchTypeOK
    BY <2>2 DEF LoopInv, RowsInv, JobsInv, OneRow, BatchControl, BatchTypeOK,
                DistinctNames, Names
  <2> QED  BY <2>1, <2>3 DEF TypeOK
<1> QED  BY <1>1, <1>2, <1>3, PTL DEF Spec
=============================================================================
