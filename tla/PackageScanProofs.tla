------------------------- MODULE PackageScanProofs -------------------------
(***************************************************************************)
(* What one scan attempt promises between its transactions, for every      *)
(* limit, document, archive and tree: the file of a download, the version  *)
(* compared with, the archives accepted, the reasons that are retried and  *)
(* the score of what is found.                                             *)
(***************************************************************************)
EXTENDS PackageScan, LoopTheorems, FiniteSetTheorems

-----------------------------------------------------------------------------
(* One download, for every limit and every set of chunk sizes.  Neither of *)
(* its invariants is inductive: what the file holds has to be tied to the  *)
(* bytes counted while the body is streamed, and to the absence of a file  *)
(* before.                                                                 *)

BeforeBody == pc \in {"idle", "requested"} =>
                 received = 0 /\ hashed = 0 /\ disk = NoFile

BodyCounted == pc = "streaming" =>
                  disk = received /\ received <= MaxBytes /\ (digest => hashed = received)

DownloadInv ==
    DownloadTypeOK /\ BeforeBody /\ BodyCounted /\ DiskWithinLimit /\ WholeFileOrNone

(* An exception in the body of the `try` either leaves no file or leaves   *)
(* the one there was, and then says that removing it failed.               *)
LEMMA Discarded ==
    ASSUME DownloadInv, NEW why \in DownloadReasons \ {"unlink"}, Discard(why)
    PROVE  DownloadInv'
<1>1. pc' = "failed" /\ UNCHANGED <<digest, received, hashed>>
  BY DEF Discard
<1>2. \/ disk' = NoFile /\ reason' = why
      \/ disk' = disk /\ reason' = "unlink"
  BY DEF Discard
<1>3. DownloadTypeOK'
  BY <1>1, <1>2 DEF DownloadInv, DownloadTypeOK, FileTypeOK, DownloadReasons
<1>4. BeforeBody' /\ BodyCounted'
  BY <1>1 DEF BeforeBody, BodyCounted
<1>5. DiskWithinLimit'
  BY <1>2, DownloadAssumption DEF DownloadInv, DiskWithinLimit, NoFile
<1>6. WholeFileOrNone'
  BY <1>1, <1>2 DEF WholeFileOrNone
<1> QED  BY <1>3, <1>4, <1>5, <1>6 DEF DownloadInv

LEMMA ChunkWritten ==
    ASSUME DownloadInv, NEW n \in ChunkSizes, WriteChunk(n)
    PROVE  DownloadInv'
  BY DownloadAssumption
  DEF DownloadInv, DownloadTypeOK, FileTypeOK, BeforeBody, BodyCounted,
      DiskWithinLimit, WholeFileOrNone, WriteChunk, FedToDigest, NoFile

LEMMA DownloadInvStarts == DownloadInit => DownloadInv
<1> SUFFICES ASSUME DownloadInit PROVE DownloadInv
  OBVIOUS
<1>1. /\ pc = "idle" /\ digest = FALSE /\ received = 0 /\ hashed = 0
      /\ disk = NoFile /\ reason = "none"
  BY DEF DownloadInit
<1>2. DownloadTypeOK
  BY <1>1 DEF DownloadTypeOK, FileTypeOK
<1>3. BeforeBody /\ BodyCounted /\ WholeFileOrNone
  BY <1>1 DEF BeforeBody, BodyCounted, WholeFileOrNone
<1>4. DiskWithinLimit
  BY <1>1, DownloadAssumption DEF DiskWithinLimit, NoFile
<1> QED  BY <1>2, <1>3, <1>4 DEF DownloadInv

LEMMA DownloadInvKept ==
    ASSUME DownloadInv, [DownloadStep]_downloadVars
    PROVE  DownloadInv'
<1> USE DEF DownloadInv, DownloadTypeOK, FileTypeOK, BeforeBody, BodyCounted,
            DiskWithinLimit, WholeFileOrNone, NoFile
<1>1. CASE Refuse
  BY <1>1, DownloadAssumption DEF Refuse, DownloadReasons
<1>2. CASE Request
  BY <1>2, DownloadAssumption DEF Request
<1>3. CASE StreamRefused
  BY <1>3, DownloadAssumption DEF StreamRefused, DownloadReasons
<1>4. CASE OpenFile
  BY <1>4, DownloadAssumption DEF OpenFile
<1>5. CASE Finish
  BY <1>5, DownloadAssumption DEF Finish
<1>6. CASE DigestDiffers \/ TimesOut \/ TransportFails \/ WriteFails
  <2>1. PICK why \in DownloadReasons \ {"unlink"} : Discard(why)
    BY <1>6 DEF DigestDiffers, TimesOut, TransportFails, WriteFails, DownloadReasons
  <2> QED  BY <2>1, Discarded
<1>7. ASSUME NEW n \in ChunkSizes, WriteChunk(n)
      PROVE  DownloadInv'
  BY <1>7, ChunkWritten
<1>8. ASSUME NEW n \in ChunkSizes, ChunkOverLimit(n)
      PROVE  DownloadInv'
  BY <1>8, Discarded DEF ChunkOverLimit, DownloadReasons
<1>9. CASE UNCHANGED downloadVars
  BY <1>9 DEF downloadVars
<1> QED
  BY <1>1, <1>2, <1>3, <1>4, <1>5, <1>6, <1>7, <1>8, <1>9 DEF DownloadStep

(* Whatever the server sends and whatever fails, the conjuncts hold        *)
(* together in every state of a download.                                  *)
THEOREM DownloadInvariant == DownloadSpec => []DownloadInv
  BY DownloadInvStarts, DownloadInvKept, PTL DEF DownloadSpec

(* The file never exceeds tarball_max_bytes, for any chunk sizes.          *)
THEOREM DiskStaysWithinLimit == DownloadSpec => []DiskWithinLimit
<1>1. DownloadInv => DiskWithinLimit
  BY DEF DownloadInv
<1> QED  BY <1>1, DownloadInvariant, PTL

(* A path is returned for a whole, hashed file only, and an exception      *)
(* leaves no partial file that could be removed.                           *)
THEOREM WholeFilesOnly == DownloadSpec => []WholeFileOrNone
<1>1. DownloadInv => WholeFileOrNone
  BY DEF DownloadInv
<1> QED  BY <1>1, DownloadInvariant, PTL

-----------------------------------------------------------------------------
(* The two downloads of a scan, between whatever fetches, extractions and  *)
(* analyses fail around them.                                              *)

(* A reason is given by the step that fails the scan and by no other, so   *)
(* that a download always starts without one.                              *)
ReasonFails ==
    /\ stage # "failed" => reason = "none"
    /\ pc = "failed" => stage = "failed"

FileInv ==
    FileTypeOK /\ BeforeBody /\ BodyCounted /\ DiskWithinLimit /\ WholeFileOrNone

ScanInv == FileInv /\ ReasonFails

LEMMA ScanStarts == Init => ScanInv
  BY DownloadInvStarts
  DEF Init, DownloadInit, DownloadInv, DownloadTypeOK, ScanInv, FileInv, ReasonFails

LEMMA DownloadStepKeeps ==
    ASSUME ScanInv, Download
    PROVE  ScanInv'
<1>1. DownloadInv
  BY DEF Download, ScanInv, FileInv, ReasonFails, DownloadInv, DownloadTypeOK
<1>2. DownloadInv'
  BY <1>1, DownloadInvKept DEF Download
<1>3. FileInv'
  BY <1>2 DEF DownloadInv, DownloadTypeOK, FileInv
<1>4. pc' # "failed" => reason' = reason
  BY DEF Download, DownloadStep, Refuse, Request, StreamRefused, OpenFile, Finish,
         DigestDiffers, TimesOut, TransportFails, WriteFails, WriteChunk,
         ChunkOverLimit, Discard
<1>5. ReasonFails'
  BY <1>4 DEF Download, ScanInv, ReasonFails
<1> QED  BY <1>3, <1>5 DEF ScanInv

(* The steps that leave the download as it is.                             *)
LEMMA OtherStepKeeps ==
    ASSUME ScanInv, NoDownload, stage # "failed",
           stage' # "failed" => reason' = reason
    PROVE  ScanInv'
<1>1. pc # "failed" /\ pc' = pc /\ UNCHANGED <<digest, received, hashed, disk>>
  BY DEF ScanInv, ReasonFails, NoDownload
<1>2. FileInv'
  BY <1>1 DEF ScanInv, FileInv, FileTypeOK, BeforeBody, BodyCounted, DiskWithinLimit,
              WholeFileOrNone
<1>3. ReasonFails'
  BY <1>1 DEF ScanInv, ReasonFails
<1> QED  BY <1>2, <1>3 DEF ScanInv

LEMMA DownloadInvStartsNext == (DownloadInit => DownloadInv)'
  BY DownloadInvStarts, PTL

LEMMA ContinueKeeps ==
    ASSUME ScanInv, Continue
    PROVE  ScanInv'
<1>1. DownloadInit'
  BY DEF Continue, NextDownload, DownloadInit
<1>2. stage' # "failed"
  BY DEF Continue
<1>3. FileInv'
  BY <1>1, DownloadInvStartsNext DEF DownloadInv, DownloadTypeOK, FileInv
<1> QED  BY <1>1, <1>2, <1>3 DEF ScanInv, ReasonFails, DownloadInit

LEMMA ScanKept ==
    ASSUME ScanInv, [Next]_vars
    PROVE  ScanInv'
<1>1. CASE FetchFails \/ FetchMetadata \/ StoreFails \/ ExtractFails \/ Extract
           \/ ReadFails \/ RunAnalyzer
  BY <1>1, OtherStepKeeps
  DEF FetchFails, FetchMetadata, StoreFails, ExtractFails, Extract, ReadFails,
      RunAnalyzer, Fail
<1>2. CASE StoreVersions \/ ReadScripts \/ Save
  BY <1>2, OtherStepKeeps DEF StoreVersions, ReadScripts, Save, NoDownload, downloadVars
<1>3. CASE UNCHANGED vars
  <2>1. UNCHANGED <<pc, digest, received, hashed, disk, reason, stage>>
    BY <1>3 DEF vars, downloadVars
  <2> QED
    BY <2>1 DEF ScanInv, ReasonFails, FileInv, FileTypeOK, BeforeBody, BodyCounted,
                DiskWithinLimit, WholeFileOrNone
<1> QED
  BY <1>1, <1>2, <1>3, DownloadStepKeeps, ContinueKeeps DEF Next, Step, Ended

(* Types, counted bytes and reasons, in every state of a scan.             *)
THEOREM ScanInvariant == Spec => []ScanInv
  BY ScanStarts, ScanKept, PTL DEF Spec

(* Neither download of a scan ever exceeds the limit on the disk.          *)
THEOREM ScanDiskWithinLimit == Spec => []DiskWithinLimit
<1>1. ScanInv => DiskWithinLimit
  BY DEF ScanInv, FileInv
<1> QED  BY <1>1, ScanInvariant, PTL

(* Each hands over a whole file, or leaves none behind.                    *)
THEOREM ScanWholeFiles == Spec => []WholeFileOrNone
<1>1. ScanInv => WholeFileOrNone
  BY DEF ScanInv, FileInv
<1> QED  BY <1>1, ScanInvariant, PTL

-----------------------------------------------------------------------------
(* The version compared with *)

(* What the loop over the published versions keeps after each of them.     *)
LEMMA BestCandidateDefined ==
    ASSUME NEW doc \in Document
    PROVE  /\ BestCandidate(doc) \in [0 .. DocVersions -> Entries \cup {NoEntry}]
           /\ BestCandidate(doc)[0] = NoEntry
           /\ \A n \in Entries :
                 LET b == BestCandidate(doc)[n - 1]
                 IN  BestCandidate(doc)[n] =
                        IF Earlier(doc, n) /\ (b = NoEntry \/ doc.published[n] > doc.published[b])
                        THEN n ELSE b
<1> DEFINE V == Entries \cup {NoEntry}
           Better(n, b) ==
              IF Earlier(doc, n) /\ (b = NoEntry \/ doc.published[n] > doc.published[b])
              THEN n ELSE b
           turn == [n \in Entries |-> [b \in V |-> Better(n, b)]]
           IsBest(f) == f = [n \in 0 .. DocVersions |->
                        IF n = 0 THEN NoEntry
                        ELSE IF /\ Earlier(doc, n)
                                /\ \/ f[n - 1] = NoEntry
                                   \/ doc.published[n] > doc.published[f[n - 1]]
                             THEN n
                             ELSE f[n - 1]]
<1>1. turn \in [1 .. DocVersions -> [V -> V]] /\ NoEntry \in V
  BY DEF Entries
<1>2. PICK f : IsLoop(f, DocVersions, V, NoEntry, turn)
  <2> HIDE DEF V, turn
  <2> QED  BY <1>1, LoopExists, RegistryAssumption
<1>f. /\ f \in [0 .. DocVersions -> V]
      /\ \A n \in 0 .. DocVersions : f[n] = IF n = 0 THEN NoEntry ELSE turn[n][f[n - 1]]
  <2> HIDE DEF V, turn
  <2> QED  BY <1>2 DEF IsLoop
<1>3. ASSUME NEW n \in 0 .. DocVersions, n # 0
      PROVE  f[n] = Better(n, f[n - 1])
  <2>1. n \in Entries /\ n - 1 \in 0 .. DocVersions /\ f[n - 1] \in V
    BY <1>f, <1>3, RegistryAssumption DEF Entries
  <2>2. f[n] = turn[n][f[n - 1]]
    <3> HIDE DEF turn, V
    <3> QED  BY <1>f, <1>3
  <2> QED  BY <2>1, <2>2
<1>4. IsBest(f)
  <2>1. f[0] = NoEntry
    <3> HIDE DEF turn, V
    <3> QED BY <1>f, RegistryAssumption
  <2>2. \A n \in 0 .. DocVersions : f[n] = IF n = 0 THEN NoEntry ELSE Better(n, f[n - 1])
    <3> HIDE DEF Better
    <3> QED  BY <1>3, <2>1
  <2>3. f = [n \in 0 .. DocVersions |-> f[n]]
    <3> HIDE DEF turn, V
    <3> QED  BY <1>f
  <2> QED  BY <2>2, <2>3
<1>5. BestCandidate(doc) = CHOOSE g : IsBest(g)
  BY DEF BestCandidate
<1> DEFINE best == BestCandidate(doc)
<1>6. IsBest(best)
  <2> HIDE DEF IsBest
  <2> QED  BY <1>4, <1>5
<1> HIDE DEF best
<1>7. \A n \in 0 .. DocVersions : best[n] = IF n = 0 THEN NoEntry ELSE Better(n, best[n - 1])
  BY <1>6
<1>8. \A n \in 0 .. DocVersions : best[n] \in V
  <2> DEFINE S == {n \in 0 .. DocVersions : best[n] \in V}
  <2>1. 0 \in S
    BY <1>7, RegistryAssumption
  <2>2. ASSUME NEW k \in 0 .. DocVersions, k # DocVersions, k \in S
        PROVE  k + 1 \in S
    <3>1. k + 1 \in 0 .. DocVersions /\ k + 1 # 0 /\ (k + 1) - 1 = k /\ k + 1 \in Entries
      BY <2>2, RegistryAssumption DEF Entries
    <3> QED  BY <3>1, <2>2, <1>7
  <2> HIDE DEF S
  <2>3. \A n \in 0 .. DocVersions : n \in S
    BY <2>1, <2>2, CountingUp, RegistryAssumption
  <2> QED  BY <2>3 DEF S
<1>9. best \in [0 .. DocVersions -> V]
  BY <1>6, <1>8
<1>10. 0 \in 0 .. DocVersions /\ \A n \in Entries : n \in 0 .. DocVersions /\ n # 0
  BY RegistryAssumption DEF Entries
<1> QED  BY <1>7, <1>9, <1>10 DEF best

(* The entry the loop has after n turns is the last published of those     *)
(* published before the latest among the first n.                          *)
LEMMA BestIsLast ==
    ASSUME NEW doc \in Document, doc.latest \in Entries
    PROVE  IsPredecessor(doc, PreviousVersion(doc), doc.latest)
<1> DEFINE best == BestCandidate(doc)
           published == doc.published
           Before == {u \in Entries : published[u] < published[doc.latest]}
           Ok(n) == IF best[n] = NoEntry THEN \A u \in 1 .. n : u \notin Before
                    ELSE best[n] \in Before /\ \A u \in Before : u <= n => published[u] <= published[best[n]]
           S == {n \in 0 .. DocVersions : Ok(n)}
<1>1. published \in [Entries -> 0 .. Instants]
  BY DEF Document
<1>2. \A u \in Entries : published[u] \in Int
  BY <1>1, RegistryAssumption
<1>3. \A u \in Entries : Earlier(doc, u) <=> u \in Before
  BY <1>2 DEF Earlier
<1>4. /\ best \in [0 .. DocVersions -> Entries \cup {NoEntry}]
      /\ best[0] = NoEntry
      /\ \A n \in Entries :
            best[n] = IF /\ Earlier(doc, n)
                         /\ best[n - 1] = NoEntry \/ published[n] > published[best[n - 1]]
                      THEN n ELSE best[n - 1]
  BY BestCandidateDefined
<1> HIDE DEF best, published, Before
<1>5. 0 \in S
  BY <1>4, RegistryAssumption
<1>6. ASSUME NEW k \in 0 .. DocVersions, k # DocVersions, k \in S
      PROVE  k + 1 \in S
  <2>1. k \in Nat /\ k + 1 \in Entries /\ k + 1 \in 0 .. DocVersions /\ (k + 1) - 1 = k
    BY <1>6, RegistryAssumption DEF Entries
  <2>2. Ok(k) /\ best[k] \in Entries \cup {NoEntry}
    BY <1>4, <1>6
  <2>3. Before \subseteq Entries /\ Entries \subseteq Nat /\ NoEntry \notin Entries
    BY RegistryAssumption DEF Before, Entries, NoEntry
  <2>4. best[k + 1] = IF /\ k + 1 \in Before
                         /\ best[k] = NoEntry \/ published[k + 1] > published[best[k]]
                      THEN k + 1 ELSE best[k]
    BY <1>3, <1>4, <2>1
  <2>5. \A u \in Before : u <= k + 1 => u <= k \/ u = k + 1
    BY <2>1, <2>3
  <2>6. Ok(k + 1)
    <3>1. CASE best[k] = NoEntry /\ k + 1 \in Before
      <4>1. best[k + 1] = k + 1 /\ k + 1 # NoEntry
        BY <2>1, <2>3, <2>4, <3>1
      <4>2. \A u \in Before : u <= k => FALSE
        <5>1. \A u \in Before : u <= k => u \in 1 .. k
          BY <2>1, <2>3 DEF Entries
        <5> QED  BY <2>2, <3>1, <5>1
      <4>3. \A u \in Before : u <= k + 1 => published[u] <= published[k + 1]
        BY <1>2, <2>1, <2>3, <2>5, <4>2
      <4> QED  BY <3>1, <4>1, <4>3
    <3>2. CASE best[k] = NoEntry /\ k + 1 \notin Before
      <4>1. best[k + 1] = NoEntry
        BY <2>4, <3>2
      <4>2. \A u \in 1 .. k + 1 : u \in 1 .. k \/ u = k + 1
        BY <2>1
      <4> QED  BY <2>2, <3>2, <4>1, <4>2
    <3>3. CASE best[k] # NoEntry
      <4>1. best[k] \in Before /\ best[k] \in Entries
            /\ \A u \in Before : u <= k => published[u] <= published[best[k]]
        BY <2>2, <3>3
      <4>2. CASE k + 1 \in Before /\ published[k + 1] > published[best[k]]
        <5>1. best[k + 1] = k + 1 /\ k + 1 # NoEntry
          BY <2>1, <2>3, <2>4, <4>2
        <5>2. ASSUME NEW u \in Before, u <= k + 1
              PROVE  published[u] <= published[k + 1]
          <6>1. published[u] \in Int /\ published[k + 1] \in Int /\ published[best[k]] \in Int
            BY <1>2, <2>1, <2>3, <4>1
          <6>2. u = k + 1 \/ published[u] <= published[best[k]]
            BY <2>5, <4>1, <5>2
          <6> QED  BY <4>2, <6>1, <6>2
        <5> QED  BY <4>2, <5>1, <5>2
      <4>3. CASE ~(k + 1 \in Before /\ published[k + 1] > published[best[k]])
        <5>1. best[k + 1] = best[k]
          BY <2>4, <3>3, <4>3
        <5>2. ASSUME NEW u \in Before, u <= k + 1
              PROVE  published[u] <= published[best[k]]
          <6>1. published[k + 1] \in Int /\ published[best[k]] \in Int
            BY <1>2, <2>1, <4>1
          <6>2. u = k + 1 \/ published[u] <= published[best[k]]
            BY <2>5, <4>1, <5>2
          <6> QED  BY <4>3, <6>1, <6>2
        <5> QED  BY <3>3, <4>1, <5>1, <5>2
      <4> QED  BY <4>2, <4>3
    <3> QED  BY <3>1, <3>2, <3>3
  <2> QED  BY <2>1, <2>6
<1>7. Ok(DocVersions)
  <2> HIDE DEF Ok
  <2>1. \A n \in 0 .. DocVersions : n \in S
    <3> HIDE DEF S
    <3> QED  BY <1>5, <1>6, CountingUp, RegistryAssumption
  <2> QED  BY <2>1, RegistryAssumption
<1>8. Before \subseteq 1 .. DocVersions
  BY DEF Before, Entries
<1>9. PreviousVersion(doc) = best[DocVersions]
  BY DEF PreviousVersion, best
<1>10. IF best[DocVersions] = NoEntry THEN Before = {}
       ELSE best[DocVersions] \in Before
            /\ \A u \in Before : published[u] <= published[best[DocVersions]]
  BY <1>7, <1>8, RegistryAssumption
<1> QED  BY <1>9, <1>10 DEF IsPredecessor, Before, published

-----------------------------------------------------------------------------
LoopState == [verdict : {"accepted", "unsafe member", "archive limit"}, total : Nat]

LEMMA AddedType ==
    ASSUME NEW s \in LoopState, NEW m \in Member
    PROVE  Added(s, m) \in LoopState
<1>1. MemberVerdict(m) \in {"accepted", "unsafe member", "archive limit"}
  BY DEF MemberVerdict
<1>2. Bytes(m) \in Nat
  BY DEF Bytes, Member
<1>3. s = [verdict |-> s.verdict, total |-> s.total] /\ s.total \in Nat
      /\ s.verdict \in {"accepted", "unsafe member", "archive limit"}
  BY DEF LoopState
<1>4. Added(s, m) \in {s, [verdict |-> MemberVerdict(m), total |-> s.total],
                       [verdict |-> "archive limit", total |-> s.total],
                       [verdict |-> s.verdict, total |-> s.total + Bytes(m)]}
  BY <1>3 DEF Added
<1>5. ASSUME NEW v \in {"accepted", "unsafe member", "archive limit"}, NEW n \in Nat
      PROVE  [verdict |-> v, total |-> n] \in LoopState
  BY DEF LoopState
<1> HIDE DEF LoopState
<1>6. s.total + Bytes(m) \in Nat
  <2>1. s.total \in Nat
    BY <1>3
  <2> QED  BY <1>2, <2>1
<1> QED  BY <1>1, <1>3, <1>4, <1>5, <1>6

LEMMA AfterMembersDefined ==
    ASSUME NEW members \in Seq(Member)
    PROVE  LET after == AfterMembers(members)
           IN  /\ after \in [0 .. Len(members) -> LoopState]
               /\ after[0] = [verdict |-> "accepted", total |-> 0]
               /\ \A n \in 1 .. Len(members) : after[n] = Added(after[n - 1], members[n])
<1> DEFINE N == Len(members)
           start == [verdict |-> "accepted", total |-> 0]
           turn == [n \in 1 .. N |-> [s \in LoopState |-> Added(s, members[n])]]
           Defined(f) == f = [n \in 0 .. N |-> IF n = 0 THEN start ELSE Added(f[n - 1], members[n])]
<1>1. N \in Nat /\ start \in LoopState
  BY DEF LoopState
<1>2. turn \in [1 .. N -> [LoopState -> LoopState]]
  <2>1. \A n \in 1 .. N : members[n] \in Member
    OBVIOUS
  <2> HIDE DEF N
  <2> QED  BY <2>1, AddedType
<1> HIDE DEF N, start
<1>3. PICK f : IsLoop(f, N, LoopState, start, turn)
  <2> HIDE DEF turn
  <2> QED  BY <1>1, <1>2, LoopExists
<1>4. /\ f \in [0 .. N -> LoopState]
      /\ \A n \in 0 .. N : f[n] = IF n = 0 THEN start ELSE turn[n][f[n - 1]]
  <2> HIDE DEF turn
  <2> QED  BY <1>3 DEF IsLoop
<1>5. ASSUME NEW n \in 0 .. N, n # 0
      PROVE  f[n] = Added(f[n - 1], members[n])
  <2>1. n \in 1 .. N /\ f[n - 1] \in LoopState
    BY <1>1, <1>4, <1>5
  <2>2. f[n] = turn[n][f[n - 1]]
    <3> HIDE DEF turn
    <3> QED  BY <1>4, <1>5
  <2> QED  BY <2>1, <2>2
<1>6. Defined(f)
  <2>1. f[0] = start
    <3> HIDE DEF turn
    <3>1. 0 \in 0 .. N
      BY <1>1
    <3> QED  BY <1>4, <3>1
  <2>2. f = [n \in 0 .. N |-> f[n]]
    <3> HIDE DEF turn
    <3> QED  BY <1>4
  <2> QED  BY <1>5, <2>1, <2>2
<1>7. AfterMembers(members) = CHOOSE g : Defined(g)
  BY DEF AfterMembers, N, start
<1> DEFINE after == AfterMembers(members)
<1>8. Defined(after)
  <2> HIDE DEF Defined
  <2> QED  BY <1>6, <1>7
<1> HIDE DEF after
<1>9. \A n \in 0 .. N : after[n] = IF n = 0 THEN start ELSE Added(after[n - 1], members[n])
  BY <1>8
<1>10. \A n \in 0 .. N : after[n] \in LoopState
  <2> DEFINE S == {n \in 0 .. N : after[n] \in LoopState}
  <2>1. 0 \in S
    BY <1>1, <1>9
  <2>2. ASSUME NEW k \in 0 .. N, k # N, k \in S
        PROVE  k + 1 \in S
    <3>1. k + 1 \in 0 .. N /\ k + 1 # 0 /\ (k + 1) - 1 = k /\ members[k + 1] \in Member
      BY <1>1, <2>2 DEF N
    <3> QED  BY <3>1, <2>2, <1>9, AddedType
  <2> HIDE DEF S
  <2>3. \A n \in 0 .. N : n \in S
    BY <1>1, <2>1, <2>2, CountingUp
  <2> QED  BY <2>3 DEF S
<1>11. after \in [0 .. N -> LoopState]
  BY <1>8, <1>10
<1>12. 0 \in 0 .. N /\ \A n \in 1 .. N : n \in 0 .. N /\ n # 0
  BY <1>1
<1> QED  BY <1>9, <1>11, <1>12 DEF after, N, start

LEMMA TotalBytesDefined ==
    ASSUME NEW members \in Seq(Member)
    PROVE  LET bytes == TotalBytes(members)
           IN  /\ bytes \in [0 .. Len(members) -> Nat]
               /\ bytes[0] = 0
               /\ \A n \in 1 .. Len(members) : bytes[n] = bytes[n - 1] + Bytes(members[n])
<1> DEFINE N == Len(members)
           turn == [n \in 1 .. N |-> [s \in Nat |-> s + Bytes(members[n])]]
           Defined(f) == f = [n \in 0 .. N |-> IF n = 0 THEN 0 ELSE f[n - 1] + Bytes(members[n])]
<1>1. N \in Nat
  OBVIOUS
<1>a. \A n \in 1 .. N : Bytes(members[n]) \in Nat
  <2>1. \A n \in 1 .. N : members[n] \in Member
    OBVIOUS
  <2>2. \A m \in Member : Bytes(m) \in Nat
    BY DEF Bytes, Member
  <2> QED  BY <2>1, <2>2
<1> HIDE DEF N
<1>2. turn \in [1 .. N -> [Nat -> Nat]]
  BY <1>a
<1>3. PICK f : IsLoop(f, N, Nat, 0, turn)
  <2> HIDE DEF turn
  <2> QED  BY <1>1, <1>2, LoopExists
<1>4. /\ f \in [0 .. N -> Nat]
      /\ \A n \in 0 .. N : f[n] = IF n = 0 THEN 0 ELSE turn[n][f[n - 1]]
  <2> HIDE DEF turn
  <2> QED  BY <1>3 DEF IsLoop
<1>5. ASSUME NEW n \in 0 .. N, n # 0
      PROVE  f[n] = f[n - 1] + Bytes(members[n])
  <2>1. n \in 1 .. N /\ f[n - 1] \in Nat
    BY <1>1, <1>4, <1>5
  <2>2. f[n] = turn[n][f[n - 1]]
    <3> HIDE DEF turn
    <3> QED  BY <1>4, <1>5
  <2> QED  BY <2>1, <2>2
<1>6. Defined(f)
  <2>1. f[0] = 0 /\ f = [n \in 0 .. N |-> f[n]]
    <3> HIDE DEF turn
    <3> QED  BY <1>1, <1>4
  <2> QED  BY <1>5, <2>1
<1>7. TotalBytes(members) = CHOOSE g : Defined(g)
  BY DEF TotalBytes, N
<1> DEFINE bytes == TotalBytes(members)
<1>8. Defined(bytes)
  <2> HIDE DEF Defined
  <2> QED  BY <1>6, <1>7
<1> HIDE DEF bytes
<1>9. \A n \in 0 .. N : bytes[n] = IF n = 0 THEN 0 ELSE bytes[n - 1] + Bytes(members[n])
  BY <1>8
<1>10. \A n \in 0 .. N : bytes[n] \in Nat
  <2> DEFINE S == {n \in 0 .. N : bytes[n] \in Nat}
  <2>1. 0 \in S
    BY <1>1, <1>9
  <2>2. ASSUME NEW k \in 0 .. N, k # N, k \in S
        PROVE  k + 1 \in S
    <3>1. k + 1 \in 0 .. N /\ k + 1 # 0 /\ (k + 1) - 1 = k /\ k + 1 \in 1 .. N
      BY <1>1, <2>2
    <3> QED  BY <3>1, <2>2, <1>9, <1>a
  <2> HIDE DEF S
  <2>3. \A n \in 0 .. N : n \in S
    BY <1>1, <2>1, <2>2, CountingUp
  <2> QED  BY <2>3 DEF S
<1>11. bytes \in [0 .. N -> Nat]
  BY <1>8, <1>10
<1>12. 0 \in 0 .. N /\ \A n \in 1 .. N : n \in 0 .. N /\ n # 0
  BY <1>1
<1> QED  BY <1>9, <1>11, <1>12 DEF bytes, N

LEMMA MemberVerdictExact ==
    ASSUME NEW m \in Member
    PROVE  MemberVerdict(m) = "accepted" <=> MemberInBounds(m)
<1>1. MaxDepth \in Nat /\ MaxFile \in Nat
  BY ExtractionAssumption
<1>2. m.depth \in Nat /\ m.size \in Nat /\ m.named \in BOOLEAN /\ m.inside \in BOOLEAN
      /\ m.target \in BOOLEAN
  BY DEF Member
<1> QED  BY <1>1, <1>2 DEF MemberVerdict, MemberInBounds

LEMMA TurnExact ==
    ASSUME NEW s \in LoopState, NEW m \in Member
    PROVE  LET t == Added(s, m) IN
           /\ t.verdict = "accepted" <=>
                /\ s.verdict = "accepted"
                /\ MemberInBounds(m)
                /\ s.total + Bytes(m) <= MaxTotal
           /\ t.verdict = "accepted" => t.total = s.total + Bytes(m)
<1>1. s = [verdict |-> s.verdict, total |-> s.total] /\ s.total \in Nat
  BY DEF LoopState
<1>2. Bytes(m) \in Nat /\ MaxTotal \in Nat
  BY ExtractionAssumption DEF Bytes, Member
<1>3. CASE s.verdict # "accepted"
  BY <1>3 DEF Added
<1>4. CASE s.verdict = "accepted" /\ ~MemberInBounds(m)
  BY <1>1, <1>4, MemberVerdictExact DEF Added
<1>5. CASE s.verdict = "accepted" /\ MemberInBounds(m)
  BY <1>1, <1>2, <1>5, MemberVerdictExact DEF Added
<1> QED  BY <1>3, <1>4, <1>5

(* The loop accepts exactly the archives within all bounds.                *)
LEMMA VerdictExact ==
    ASSUME NEW members \in Seq(Member)
    PROVE  /\ ArchiveVerdict(members) \in {"accepted", "unsafe member", "archive limit"}
           /\ ArchiveVerdict(members) = "accepted" <=> WithinBounds(members)
<1> DEFINE N == Len(members)
           after == AfterMembers(members)
           bytes == TotalBytes(members)
           Ok(n) ==
             /\ after[n].verdict = "accepted" <=>
                   (\A i \in 1 .. n : MemberInBounds(members[i])) /\ bytes[n] <= MaxTotal
             /\ after[n].verdict = "accepted" => after[n].total = bytes[n]
           S == {n \in 0 .. N : Ok(n)}
<1>1. N \in Nat /\ MaxTotal \in Nat /\ \A n \in 1 .. N : members[n] \in Member
  BY ExtractionAssumption
<1>2. /\ after \in [0 .. N -> LoopState]
      /\ after[0] = [verdict |-> "accepted", total |-> 0]
      /\ \A n \in 1 .. N : after[n] = Added(after[n - 1], members[n])
  BY AfterMembersDefined
<1>3. /\ bytes \in [0 .. N -> Nat]
      /\ bytes[0] = 0
      /\ \A n \in 1 .. N : bytes[n] = bytes[n - 1] + Bytes(members[n])
  BY TotalBytesDefined
<1> HIDE DEF N, after, bytes
<1>4. 0 \in S
  BY <1>1, <1>2, <1>3
<1>5. ASSUME NEW k \in 0 .. N, k # N, k \in S
      PROVE  k + 1 \in S
  <2>1. k \in Nat /\ k + 1 \in 1 .. N /\ k + 1 \in 0 .. N /\ (k + 1) - 1 = k
    BY <1>1, <1>5
  <2>2. members[k + 1] \in Member /\ after[k] \in LoopState /\ bytes[k] \in Nat
    BY <1>1, <1>2, <1>3, <2>1
  <2>3. after[k + 1] = Added(after[k], members[k + 1])
    BY <1>2, <2>1
  <2>4. bytes[k + 1] = bytes[k] + Bytes(members[k + 1]) /\ Bytes(members[k + 1]) \in Nat
    BY <1>3, <2>1, <2>2 DEF Bytes, Member
  <2>5. Ok(k)
    BY <1>5
  <2>6. (\A i \in 1 .. k + 1 : MemberInBounds(members[i]))
          <=> (\A i \in 1 .. k : MemberInBounds(members[i])) /\ MemberInBounds(members[k + 1])
    BY <2>1
  <2>7. /\ after[k + 1].verdict = "accepted" <=>
              /\ after[k].verdict = "accepted"
              /\ MemberInBounds(members[k + 1])
              /\ after[k].total + Bytes(members[k + 1]) <= MaxTotal
        /\ after[k + 1].verdict = "accepted" =>
              after[k + 1].total = after[k].total + Bytes(members[k + 1])
    BY <2>2, <2>3, TurnExact
  <2>8. bytes[k + 1] <= MaxTotal => bytes[k] <= MaxTotal
    BY <1>1, <2>2, <2>4
  <2>9. Ok(k + 1)
    BY <2>4, <2>5, <2>6, <2>7, <2>8
  <2> HIDE DEF Ok
  <2> QED  BY <2>1, <2>9
<1>6. Ok(N)
  <2> HIDE DEF Ok
  <2>1. \A n \in 0 .. N : n \in S
    <3> HIDE DEF S
    <3> QED  BY <1>1, <1>4, <1>5, CountingUp
  <2> QED  BY <1>1, <2>1
<1>7. DOMAIN members = 1 .. N
  BY DEF N
<1>8. after[N].verdict \in {"accepted", "unsafe member", "archive limit"}
  <2>1. after[N] \in LoopState
    BY <1>1, <1>2
  <2> QED  BY <2>1 DEF LoopState
<1>9. MaxMembers \in Nat
  BY ExtractionAssumption
<1>10. ArchiveVerdict(members) =
          IF N > MaxMembers THEN "archive limit" ELSE after[N].verdict
  BY DEF ArchiveVerdict, N, after
<1>11. WithinBounds(members) <=>
          /\ N <= MaxMembers
          /\ \A i \in 1 .. N : MemberInBounds(members[i])
          /\ bytes[N] <= MaxTotal
  BY <1>7 DEF WithinBounds, N, bytes
<1>12. N > MaxMembers <=> ~(N <= MaxMembers)
  BY <1>1, <1>9
<1>13. after[N].verdict = "accepted" <=>
          (\A i \in 1 .. N : MemberInBounds(members[i])) /\ bytes[N] <= MaxTotal
  BY <1>6
<1> QED  BY <1>8, <1>10, <1>11, <1>12, <1>13

-----------------------------------------------------------------------------
FinalReasons ==
    DocumentReasons \cup ArchiveReasons \cup AnalysisReasons
    \cup {"package not found", "not JSON", "unstorable", "malformed url", "invalid url",
          "integrity metadata", "size", "digest"}

(* What Celery does with the exception of each reason.                     *)
LEMMA RetriesAreTransient ==
    /\ \A why \in FinalReasons : ~Retried(why)
    /\ Retried("registry timeout") /\ Retried("timeout")
<1>1. ~Retried("package not found") /\ ~Retried("not JSON") /\ ~Retried("malformed document")
  BY DEF Retried, Classes, DontRetry
<1>2. ~Retried("naive timestamp") /\ ~Retried("unstorable") /\ ~Retried("undecodable")
  BY DEF Retried, Classes, AutoRetry
<1>3. ~Retried("size") /\ ~Retried("integrity metadata") /\ ~Retried("digest")
  BY DEF Retried, Classes, DontRetry
<1>4. ~Retried("no archive") /\ ~Retried("unsafe member") /\ ~Retried("archive limit")
      /\ ~Retried("too many files")
  BY DEF Retried, Classes, DontRetry
<1>5. ~Retried("malformed url") /\ ~Retried("invalid url") /\ ~Retried("broken stream")
  BY DEF Retried, Classes, AutoRetry
<1>6. Retried("registry timeout") /\ Retried("timeout")
  BY DEF Retried, Classes, AutoRetry, DontRetry
<1> QED
  BY <1>1, <1>2, <1>3, <1>4, <1>5, <1>6
  DEF FinalReasons, DocumentReasons, ArchiveReasons, AnalysisReasons

LEMMA RejectionsFinal == RejectionsAreFinal
  BY RetriesAreTransient DEF RejectionsAreFinal, FinalReasons
-----------------------------------------------------------------------------
(* Counting the findings *)

LEMMA Split ==
    ASSUME NEW S, IsFiniteSet(S), NEW T \in SUBSET S
    PROVE  /\ IsFiniteSet(T) /\ IsFiniteSet(S \ T)
           /\ Cardinality(T) \in Nat /\ Cardinality(S \ T) \in Nat
           /\ Cardinality(S) = Cardinality(T) + Cardinality(S \ T)
<1>1. IsFiniteSet(T) /\ IsFiniteSet(S \ T) /\ Cardinality(S \ T) = Cardinality(S) - Cardinality(S \cap T)
  BY FS_Subset, FS_Difference
<1>2. S \cap T = T
  OBVIOUS
<1>3. Cardinality(S) \in Nat /\ Cardinality(T) \in Nat /\ Cardinality(S \ T) \in Nat
  BY <1>1, FS_CardinalityType
<1>4. Cardinality(S \ T) = Cardinality(S) - Cardinality(T)
  BY <1>1, <1>2
<1>5. Cardinality(S) = Cardinality(T) + Cardinality(S \ T)
  BY <1>3, <1>4
<1> QED  BY <1>1, <1>3, <1>5

Typed(fs) == IsFiniteSet(fs) /\ \A f \in fs : f.type \in FindingType

Count(fs, type) == Cardinality(OfType(fs, type))

LEMMA CountsAreNumbers ==
    ASSUME NEW fs, IsFiniteSet(fs), NEW type
    PROVE  Count(fs, type) \in Nat
  BY FS_Subset, FS_CardinalityType DEF Count, OfType

LEMMA SplitType ==
    ASSUME NEW fs, IsFiniteSet(fs), NEW type
    PROVE  LET rest == {f \in fs : f.type # type} IN
           /\ IsFiniteSet(rest)
           /\ Cardinality(fs) = Count(fs, type) + Cardinality(rest)
           /\ Count(fs, type) \in Nat /\ Cardinality(rest) \in Nat
           /\ \A t : t # type => Count(rest, t) = Count(fs, t)
<1> DEFINE rest == {f \in fs : f.type # type}
<1>1. rest = fs \ OfType(fs, type)
  BY DEF OfType
<1>2. OfType(fs, type) \in SUBSET fs
  BY DEF OfType
<1>3. ASSUME NEW t, t # type
      PROVE  OfType(rest, t) = OfType(fs, t)
  BY <1>3 DEF OfType
<1> HIDE DEF rest
<1>4. \A t : t # type => Count(rest, t) = Count(fs, t)
  BY <1>3 DEF Count
<1>5. /\ IsFiniteSet(rest)
      /\ Cardinality(fs) = Count(fs, type) + Cardinality(rest)
      /\ Count(fs, type) \in Nat /\ Cardinality(rest) \in Nat
  BY <1>1, <1>2, Split DEF Count
<1> QED  BY <1>4, <1>5 DEF rest

(* Every finding is counted once.                                          *)
LEMMA CountsAddUp ==
    ASSUME NEW fs, Typed(fs)
    PROVE  Cardinality(fs) =
              Count(fs, "EXECUTABLE_BINARY") + Count(fs, "INSTALL_HOOK_ADDED")
              + Count(fs, "COMMAND_EXECUTION_PATTERN") + Count(fs, "OBFUSCATED_CODE")
              + Count(fs, "SIZE_INCREASE_HIGH") + Count(fs, "SIZE_INCREASE_MEDIUM")
              + Count(fs, "INSTALL_HOOK_PRESENT") + Count(fs, "INSTALL_HOOK_REMOVED")
<1> DEFINE a == {f \in fs : f.type # "EXECUTABLE_BINARY"}
           b == {f \in a : f.type # "INSTALL_HOOK_ADDED"}
           c == {f \in b : f.type # "COMMAND_EXECUTION_PATTERN"}
           d == {f \in c : f.type # "OBFUSCATED_CODE"}
           e == {f \in d : f.type # "SIZE_INCREASE_HIGH"}
           g == {f \in e : f.type # "SIZE_INCREASE_MEDIUM"}
           h == {f \in g : f.type # "INSTALL_HOOK_PRESENT"}
           i == {f \in h : f.type # "INSTALL_HOOK_REMOVED"}
<1>1. i = {}
  BY DEF Typed, FindingType
<1>2. IsFiniteSet(fs)
  BY DEF Typed
<1> HIDE DEF i
<1>10. /\ IsFiniteSet(a) /\ Cardinality(fs) = Count(fs, "EXECUTABLE_BINARY") + Cardinality(a)
       /\ \A t : t # "EXECUTABLE_BINARY" => Count(a, t) = Count(fs, t)
  BY <1>2, SplitType
<1> HIDE DEF a
<1>11. /\ IsFiniteSet(b) /\ Cardinality(a) = Count(a, "INSTALL_HOOK_ADDED") + Cardinality(b)
       /\ \A t : t # "INSTALL_HOOK_ADDED" => Count(b, t) = Count(a, t)
  BY <1>10, SplitType
<1> HIDE DEF b
<1>12. /\ IsFiniteSet(c) /\ Cardinality(b) = Count(b, "COMMAND_EXECUTION_PATTERN") + Cardinality(c)
       /\ \A t : t # "COMMAND_EXECUTION_PATTERN" => Count(c, t) = Count(b, t)
  BY <1>11, SplitType
<1> HIDE DEF c
<1>13. /\ IsFiniteSet(d) /\ Cardinality(c) = Count(c, "OBFUSCATED_CODE") + Cardinality(d)
       /\ \A t : t # "OBFUSCATED_CODE" => Count(d, t) = Count(c, t)
  BY <1>12, SplitType
<1> HIDE DEF d
<1>14. /\ IsFiniteSet(e) /\ Cardinality(d) = Count(d, "SIZE_INCREASE_HIGH") + Cardinality(e)
       /\ \A t : t # "SIZE_INCREASE_HIGH" => Count(e, t) = Count(d, t)
  BY <1>13, SplitType
<1> HIDE DEF e
<1>15. /\ IsFiniteSet(g) /\ Cardinality(e) = Count(e, "SIZE_INCREASE_MEDIUM") + Cardinality(g)
       /\ \A t : t # "SIZE_INCREASE_MEDIUM" => Count(g, t) = Count(e, t)
  BY <1>14, SplitType
<1> HIDE DEF g
<1>16. /\ IsFiniteSet(h) /\ Cardinality(g) = Count(g, "INSTALL_HOOK_PRESENT") + Cardinality(h)
       /\ \A t : t # "INSTALL_HOOK_PRESENT" => Count(h, t) = Count(g, t)
  BY <1>15, SplitType
<1> HIDE DEF h
<1>17. IsFiniteSet(i) /\ Cardinality(h) = Count(h, "INSTALL_HOOK_REMOVED") + Cardinality(i)
  BY <1>16, SplitType DEF i
<1>18. Cardinality(i) = 0
  BY <1>1, FS_EmptySet
<1>20. \A t : Count(fs, t) \in Nat
  BY <1>2, CountsAreNumbers
<1>21. Count(a, "INSTALL_HOOK_ADDED") = Count(fs, "INSTALL_HOOK_ADDED")
  BY <1>10
<1>22. Count(b, "COMMAND_EXECUTION_PATTERN") = Count(fs, "COMMAND_EXECUTION_PATTERN")
  BY <1>10, <1>11
<1>23. Count(c, "OBFUSCATED_CODE") = Count(fs, "OBFUSCATED_CODE")
  BY <1>10, <1>11, <1>12
<1>24. Count(d, "SIZE_INCREASE_HIGH") = Count(fs, "SIZE_INCREASE_HIGH")
  BY <1>10, <1>11, <1>12, <1>13
<1>25. Count(e, "SIZE_INCREASE_MEDIUM") = Count(fs, "SIZE_INCREASE_MEDIUM")
  BY <1>10, <1>11, <1>12, <1>13, <1>14
<1>26. Count(g, "INSTALL_HOOK_PRESENT") = Count(fs, "INSTALL_HOOK_PRESENT")
  BY <1>10, <1>11, <1>12, <1>13, <1>14, <1>15
<1>27. Count(h, "INSTALL_HOOK_REMOVED") = Count(fs, "INSTALL_HOOK_REMOVED")
  BY <1>10, <1>11, <1>12, <1>13, <1>14, <1>15, <1>16
<1> QED
  BY <1>10, <1>11, <1>12, <1>13, <1>14, <1>15, <1>16, <1>17, <1>18, <1>20, <1>21, <1>22,
     <1>23, <1>24, <1>25, <1>26, <1>27

(* The score as a sum of the counts, and what it tells of them.            *)
RawScore(fs) ==
    1 + 25 * Count(fs, "EXECUTABLE_BINARY") + 20 * Count(fs, "INSTALL_HOOK_ADDED")
      + 15 * Count(fs, "COMMAND_EXECUTION_PATTERN") + 15 * Count(fs, "OBFUSCATED_CODE")
      + 10 * Count(fs, "SIZE_INCREASE_HIGH") + 5 * Count(fs, "SIZE_INCREASE_MEDIUM")
      + 5 * Count(fs, "INSTALL_HOOK_PRESENT")

LEMMA ScoreOfCounts ==
    ASSUME NEW fs, IsFiniteSet(fs)
    PROVE  /\ RawScore(fs) \in Nat
           /\ CalculateScore(fs) = IF RawScore(fs) > 100 THEN 100 ELSE RawScore(fs)
           /\ CalculateScore(fs) \in 1 .. 100
<1>1. \A t : Count(fs, t) \in Nat
  BY CountsAreNumbers
<1>2. RawScore(fs) \in Nat /\ RawScore(fs) >= 1
  BY <1>1 DEF RawScore
<1>3. /\ Points(fs, "EXECUTABLE_BINARY") = 25 * Count(fs, "EXECUTABLE_BINARY")
      /\ Points(fs, "INSTALL_HOOK_ADDED") = 20 * Count(fs, "INSTALL_HOOK_ADDED")
  BY DEF Points, ScoreDelta, Count
<1>4. /\ Points(fs, "COMMAND_EXECUTION_PATTERN") = 15 * Count(fs, "COMMAND_EXECUTION_PATTERN")
      /\ Points(fs, "OBFUSCATED_CODE") = 15 * Count(fs, "OBFUSCATED_CODE")
  BY DEF Points, ScoreDelta, Count
<1>5. /\ Points(fs, "SIZE_INCREASE_HIGH") = 10 * Count(fs, "SIZE_INCREASE_HIGH")
      /\ Points(fs, "SIZE_INCREASE_MEDIUM") = 5 * Count(fs, "SIZE_INCREASE_MEDIUM")
  BY DEF Points, ScoreDelta, Count
<1>6. /\ Points(fs, "INSTALL_HOOK_PRESENT") = 5 * Count(fs, "INSTALL_HOOK_PRESENT")
      /\ Points(fs, "INSTALL_HOOK_REMOVED") = 0
  BY <1>1 DEF Points, ScoreDelta, Count
<1>7. CalculateScore(fs) = ClampScore(RawScore(fs))
  BY <1>1, <1>3, <1>4, <1>5, <1>6 DEF CalculateScore, RawScore, BaseScore
<1> QED  BY <1>2, <1>7 DEF ClampScore, BaseScore, MaxScore

-----------------------------------------------------------------------------
SuspiciousIn(fs) == {f \in fs : f.type \in {"EXECUTABLE_BINARY", "INSTALL_HOOK_ADDED",
                                            "COMMAND_EXECUTION_PATTERN", "OBFUSCATED_CODE"}}

(* The weights against the thresholds.                                     *)
LEMMA Calibrated ==
    ASSUME NEW fs, Typed(fs)
    PROVE  LET level == CalculateRiskLevel(CalculateScore(fs)) IN
           /\ Cardinality(fs) <= 1 => level = "low"
           /\ Cardinality(SuspiciousIn(fs)) >= 2 => level # "low"
           /\ Cardinality(fs) <= 2 => level # "high"
           /\ level \in {"low", "medium", "high"}
<1> DEFINE s == SuspiciousIn(fs)
<1>1. \A t : Count(fs, t) \in Nat /\ Count(s, t) \in Nat
  <2>1. IsFiniteSet(s)
    BY FS_Subset DEF Typed, SuspiciousIn
  <2> QED  BY <2>1, CountsAreNumbers DEF Typed
<1>2. Typed(s)
  BY FS_Subset DEF Typed, SuspiciousIn
<1>3. /\ Count(s, "EXECUTABLE_BINARY") = Count(fs, "EXECUTABLE_BINARY")
      /\ Count(s, "INSTALL_HOOK_ADDED") = Count(fs, "INSTALL_HOOK_ADDED")
      /\ Count(s, "COMMAND_EXECUTION_PATTERN") = Count(fs, "COMMAND_EXECUTION_PATTERN")
      /\ Count(s, "OBFUSCATED_CODE") = Count(fs, "OBFUSCATED_CODE")
  <2>1. ASSUME NEW t \in {"EXECUTABLE_BINARY", "INSTALL_HOOK_ADDED",
                          "COMMAND_EXECUTION_PATTERN", "OBFUSCATED_CODE"}
        PROVE  OfType(s, t) = OfType(fs, t)
    BY DEF OfType, SuspiciousIn
  <2> HIDE DEF s
  <2> QED  BY <2>1 DEF Count
<1>4. /\ Count(s, "SIZE_INCREASE_HIGH") = 0 /\ Count(s, "SIZE_INCREASE_MEDIUM") = 0
      /\ Count(s, "INSTALL_HOOK_PRESENT") = 0 /\ Count(s, "INSTALL_HOOK_REMOVED") = 0
  <2>1. ASSUME NEW t \in {"SIZE_INCREASE_HIGH", "SIZE_INCREASE_MEDIUM",
                          "INSTALL_HOOK_PRESENT", "INSTALL_HOOK_REMOVED"}
        PROVE  OfType(s, t) = {}
    BY DEF OfType, SuspiciousIn
  <2> HIDE DEF s
  <2> QED  BY <2>1, FS_EmptySet DEF Count
<1> HIDE DEF s
<1>5. Cardinality(s) = Count(fs, "EXECUTABLE_BINARY") + Count(fs, "INSTALL_HOOK_ADDED")
        + Count(fs, "COMMAND_EXECUTION_PATTERN") + Count(fs, "OBFUSCATED_CODE")
  BY <1>1, <1>2, <1>3, <1>4, CountsAddUp
<1>6. RawScore(fs) \in Nat /\ CalculateScore(fs) = IF RawScore(fs) > 100 THEN 100 ELSE RawScore(fs)
  BY ScoreOfCounts DEF Typed
<1>7. CalculateScore(fs) \in 1 .. 100
  BY ScoreOfCounts DEF Typed
<1>8. ClampScore(CalculateScore(fs)) = CalculateScore(fs)
  BY <1>7 DEF ClampScore, BaseScore, MaxScore
<1>9. Cardinality(fs) <= 1 => RawScore(fs) <= 26
  BY <1>1, CountsAddUp DEF RawScore
<1>10. Cardinality(fs) <= 2 => RawScore(fs) <= 51
  BY <1>1, CountsAddUp DEF RawScore
<1>11. Cardinality(s) >= 2 => RawScore(fs) >= 31
  BY <1>1, <1>5 DEF RawScore
<1>12. CalculateRiskLevel(CalculateScore(fs)) =
          IF CalculateScore(fs) <= 30 THEN "low"
          ELSE IF CalculateScore(fs) <= 70 THEN "medium" ELSE "high"
  BY <1>8 DEF CalculateRiskLevel
<1> QED  BY <1>6, <1>9, <1>10, <1>11, <1>12 DEF s

-----------------------------------------------------------------------------
(* What a detector reports of each member of a finite set is finite.       *)
LEMMA Images ==
    ASSUME NEW S, IsFiniteSet(S), NEW f, f = [x \in S |-> f[x]]
    PROVE  /\ IsFiniteSet({f[x] : x \in S})
           /\ Cardinality({f[x] : x \in S}) <= Cardinality(S)
<1>1. f \in Surjection(S, {f[x] : x \in S})
  BY DEF Surjection
<1> QED  BY <1>1, FS_Surjection

LEMMA HooksAreFinite ==
    ASSUME NEW S \in SUBSET Hooks
    PROVE  IsFiniteSet(S)
<1>1. IsFiniteSet(Hooks)
  BY FS_Union, DetectorsAssumption DEF Hooks
<1> QED  BY <1>1, FS_Subset

HookSet(type, required, optional, S) ==
    {Finding(type, HookSeverity(h, required, optional), h) : h \in S}

LEMMA HookSetIsFinite ==
    ASSUME NEW S \in SUBSET Hooks, NEW type, NEW required, NEW optional
    PROVE  IsFiniteSet(HookSet(type, required, optional, S))
<1> DEFINE f == [h \in S |-> Finding(type, HookSeverity(h, required, optional), h)]
<1>1. HookSet(type, required, optional, S) = {f[h] : h \in S}
  BY DEF HookSet
<1>2. f = [h \in S |-> f[h]]
  OBVIOUS
<1> HIDE DEF f
<1> QED  BY <1>1, <1>2, Images, HooksAreFinite

FileSet(type, severity, S) == {Finding(type, severity, i) : i \in S}

LEMMA FileSetIsFinite ==
    ASSUME NEW files \in Seq(File), NEW S \in SUBSET DOMAIN files, NEW type, NEW severity
    PROVE  IsFiniteSet(FileSet(type, severity, S))
<1> DEFINE f == [i \in S |-> Finding(type, severity, i)]
<1>1. FileSet(type, severity, S) = {f[i] : i \in S}
  BY DEF FileSet
<1>2. f = [i \in S |-> f[i]]
  OBVIOUS
<1>3. DOMAIN files = 1 .. Len(files) /\ Len(files) \in Nat
  OBVIOUS
<1>4. IsFiniteSet(S)
  <2>1. IsFiniteSet(1 .. Len(files))
    BY <1>3, FS_Interval
  <2> QED  BY <1>3, <2>1, FS_Subset
<1> HIDE DEF f
<1> QED  BY <1>1, <1>2, <1>4, Images

(* The findings by detector, and each with its type.                       *)
AddedHooks(latest, previous) == IF previous = {} THEN {} ELSE latest \ (UNION previous)

IsAnalysis(found, files, present, added) ==
    /\ Typed(found)
    /\ OfType(found, "INSTALL_HOOK_ADDED") = HookSet("INSTALL_HOOK_ADDED", "high", "medium", added)
    /\ OfType(found, "INSTALL_HOOK_PRESENT") = HookSet("INSTALL_HOOK_PRESENT", "medium", "low", present)
    /\ OfType(found, "EXECUTABLE_BINARY") =
          FileSet("EXECUTABLE_BINARY", "high", {i \in DOMAIN files : IsExecutable(files[i])})
    /\ OfType(found, "OBFUSCATED_CODE") =
          FileSet("OBFUSCATED_CODE", "medium", {i \in DOMAIN files : IsObfuscated(files[i])})
    /\ OfType(found, "COMMAND_EXECUTION_PATTERN") =
          FileSet("COMMAND_EXECUTION_PATTERN", "high", {i \in DOMAIN files : ExecutesCommands(files[i])})

LEMMA AnalyzeParts ==
    ASSUME NEW files \in Seq(File), NEW latest \in SUBSET Hooks,
           NEW previous \in SUBSET SUBSET Hooks, NEW size, NEW previousSize
    PROVE  IsAnalysis(Analyze(files, latest, size, previous, previousSize), files,
                      latest \ AddedHooks(latest, previous), AddedHooks(latest, previous))
<1> DEFINE added == AddedHooks(latest, previous)
           removed == (UNION previous) \ latest
           found == Analyze(files, latest, size, previous, previousSize)
           A == HookSet("INSTALL_HOOK_ADDED", "high", "medium", added)
           R == {Finding("INSTALL_HOOK_REMOVED", "low", h) : h \in removed}
           P == HookSet("INSTALL_HOOK_PRESENT", "medium", "low", latest \ added)
           Z == DetectSizeIncrease(size, previousSize)
           E == FileSet("EXECUTABLE_BINARY", "high", {i \in DOMAIN files : IsExecutable(files[i])})
           O == FileSet("OBFUSCATED_CODE", "medium", {i \in DOMAIN files : IsObfuscated(files[i])})
           C == FileSet("COMMAND_EXECUTION_PATTERN", "high", {i \in DOMAIN files : ExecutesCommands(files[i])})
<1>1. found = A \cup R \cup P \cup Z \cup E \cup O \cup C
  <2>1. DetectInstallHooks(latest, previous) = A \cup R \cup P
    <3>1. DetectInstallHooks(latest, previous) = HookFindings(added, removed, latest \ added)
      BY DEF DetectInstallHooks, AddedHooks
    <3>2. HookFindings(added, removed, latest \ added) = A \cup R \cup P
      <4> HIDE DEF added, removed
      <4> QED  BY DEF HookFindings, HookSet
    <3> QED  BY <3>1, <3>2
  <2>2. /\ Matching(files, IsExecutable, "EXECUTABLE_BINARY", "high") = E
        /\ Matching(files, IsObfuscated, "OBFUSCATED_CODE", "medium") = O
        /\ Matching(files, ExecutesCommands, "COMMAND_EXECUTION_PATTERN", "high") = C
    BY DEF Matching, FileSet
  <2> HIDE DEF A, R, P, Z, E, O, C
  <2> QED  BY <2>1, <2>2 DEF Analyze, Z
<1>2. /\ \A f \in A : f.type = "INSTALL_HOOK_ADDED"
      /\ \A f \in P : f.type = "INSTALL_HOOK_PRESENT"
      /\ \A f \in R : f.type = "INSTALL_HOOK_REMOVED"
  BY DEF HookSet, Finding
<1>3. /\ \A f \in E : f.type = "EXECUTABLE_BINARY"
      /\ \A f \in O : f.type = "OBFUSCATED_CODE"
      /\ \A f \in C : f.type = "COMMAND_EXECUTION_PATTERN"
  BY DEF FileSet, Finding
<1>4. Z \in {{}, {Finding("SIZE_INCREASE_HIGH", "high", "size")},
                 {Finding("SIZE_INCREASE_MEDIUM", "medium", "size")}}
  BY DEF DetectSizeIncrease
<1>5. \A f \in Z : f.type \in {"SIZE_INCREASE_HIGH", "SIZE_INCREASE_MEDIUM"}
  <2> HIDE DEF Z
  <2> QED  BY <1>4 DEF Finding
<1>6. IsFiniteSet(Z)
  <2>1. IsFiniteSet({})
    BY FS_EmptySet
  <2>2. \A x : IsFiniteSet({x})
    BY FS_Singleton
  <2> HIDE DEF Z
  <2> QED  BY <1>4, <2>1, <2>2
<1>7. IsFiniteSet(A) /\ IsFiniteSet(P)
  BY HookSetIsFinite DEF AddedHooks
<1>8. IsFiniteSet(R)
  <2>1. R = HookSet("INSTALL_HOOK_REMOVED", "low", "low", removed)
    BY DEF HookSet, HookSeverity
  <2>2. removed \in SUBSET Hooks
    OBVIOUS
  <2> HIDE DEF R, removed
  <2> QED  BY <2>1, <2>2, HookSetIsFinite
<1>9. IsFiniteSet(E) /\ IsFiniteSet(O) /\ IsFiniteSet(C)
  BY FileSetIsFinite
<1> HIDE DEF added, removed, found, A, R, P, Z, E, O, C
<1>10. IsFiniteSet(found)
  <2>1. \A S, T : IsFiniteSet(S) /\ IsFiniteSet(T) => IsFiniteSet(S \cup T)
    BY FS_Union
  <2> QED  BY <1>1, <1>6, <1>7, <1>8, <1>9, <2>1
<1>11. Typed(found)
  BY <1>1, <1>2, <1>3, <1>5, <1>10 DEF Typed, FindingType
<1>12. OfType(found, "INSTALL_HOOK_ADDED") = A /\ OfType(found, "INSTALL_HOOK_PRESENT") = P
  BY <1>1, <1>2, <1>3, <1>5 DEF OfType
<1>13. OfType(found, "EXECUTABLE_BINARY") = E /\ OfType(found, "OBFUSCATED_CODE") = O
       /\ OfType(found, "COMMAND_EXECUTION_PATTERN") = C
  BY <1>1, <1>2, <1>3, <1>5 DEF OfType
<1> QED  BY <1>11, <1>12, <1>13 DEF IsAnalysis, added, found, A, P, E, O, C

LEMMA RawScoresCompare ==
    ASSUME NEW F, IsFiniteSet(F), NEW G, IsFiniteSet(G),
           Count(F, "EXECUTABLE_BINARY") = Count(G, "EXECUTABLE_BINARY"),
           Count(F, "OBFUSCATED_CODE") = Count(G, "OBFUSCATED_CODE"),
           Count(F, "COMMAND_EXECUTION_PATTERN") = Count(G, "COMMAND_EXECUTION_PATTERN"),
           Count(G, "INSTALL_HOOK_ADDED") = 0,
           Count(G, "SIZE_INCREASE_HIGH") = 0, Count(G, "SIZE_INCREASE_MEDIUM") = 0,
           Count(G, "INSTALL_HOOK_PRESENT")
             <= Count(F, "INSTALL_HOOK_ADDED") + Count(F, "INSTALL_HOOK_PRESENT")
    PROVE  RawScore(F) >= RawScore(G)
<1>1. \A t : Count(F, t) \in Nat
  BY CountsAreNumbers
<1>2. \A t : Count(G, t) \in Nat
  BY CountsAreNumbers
<1>3. RawScore(G) = 1 + 25 * Count(G, "EXECUTABLE_BINARY")
         + 15 * Count(G, "COMMAND_EXECUTION_PATTERN") + 15 * Count(G, "OBFUSCATED_CODE")
         + 5 * Count(G, "INSTALL_HOOK_PRESENT")
  BY <1>2 DEF RawScore
<1>4. RawScore(F) >= 1 + 25 * Count(F, "EXECUTABLE_BINARY")
         + 15 * Count(F, "COMMAND_EXECUTION_PATTERN") + 15 * Count(F, "OBFUSCATED_CODE")
         + 5 * Count(F, "INSTALL_HOOK_ADDED") + 5 * Count(F, "INSTALL_HOOK_PRESENT")
  BY <1>1 DEF RawScore
<1>5. RawScore(F) \in Int
  BY <1>1 DEF RawScore
<1> QED  BY <1>1, <1>2, <1>3, <1>4, <1>5

(* Comparing never lowers the score.                                       *)
LEMMA ComparingAdds ==
    ASSUME NEW files \in Seq(File), NEW latest \in SUBSET Hooks,
           NEW previous \in SUBSET SUBSET Hooks, NEW size, NEW previousSize
    PROVE  CalculateScore(Analyze(files, latest, size, previous, previousSize))
             >= CalculateScore(Analyze(files, latest, size, {}, NoSize))
<1> DEFINE F == Analyze(files, latest, size, previous, previousSize)
           G == Analyze(files, latest, size, {}, NoSize)
           added == AddedHooks(latest, previous)
           A == HookSet("INSTALL_HOOK_ADDED", "high", "medium", added)
           P == HookSet("INSTALL_HOOK_PRESENT", "medium", "low", latest \ added)
           Q == HookSet("INSTALL_HOOK_PRESENT", "medium", "low", added)
           L == HookSet("INSTALL_HOOK_PRESENT", "medium", "low", latest)
<1>a. IsAnalysis(F, files, latest \ added, added)
  BY AnalyzeParts
<1>1. Typed(F) /\ OfType(F, "INSTALL_HOOK_ADDED") = A /\ OfType(F, "INSTALL_HOOK_PRESENT") = P
  BY <1>a DEF IsAnalysis
<1>2. {} \in SUBSET SUBSET Hooks /\ AddedHooks(latest, {}) = {} /\ latest \ {} = latest
  BY DEF AddedHooks
<1>b. IsAnalysis(G, files, latest, {})
  <2>1. IsAnalysis(G, files, latest \ AddedHooks(latest, {}), AddedHooks(latest, {}))
    BY <1>2, AnalyzeParts
  <2> QED  BY <1>2, <2>1
<1>3. Typed(G) /\ OfType(G, "INSTALL_HOOK_PRESENT") = L
      /\ OfType(G, "INSTALL_HOOK_ADDED") = HookSet("INSTALL_HOOK_ADDED", "high", "medium", {})
  BY <1>b DEF IsAnalysis
<1>4. OfType(G, "INSTALL_HOOK_ADDED") = {}
  BY <1>3 DEF HookSet
<1>5. /\ OfType(F, "EXECUTABLE_BINARY") = OfType(G, "EXECUTABLE_BINARY")
      /\ OfType(F, "OBFUSCATED_CODE") = OfType(G, "OBFUSCATED_CODE")
      /\ OfType(F, "COMMAND_EXECUTION_PATTERN") = OfType(G, "COMMAND_EXECUTION_PATTERN")
  BY <1>a, <1>b DEF IsAnalysis
<1>6. OfType(G, "SIZE_INCREASE_HIGH") = {} /\ OfType(G, "SIZE_INCREASE_MEDIUM") = {}
  <2>1. DetectSizeIncrease(size, NoSize) = {}
    BY DEF DetectSizeIncrease
  <2>2. \A f \in G : f.type \notin {"SIZE_INCREASE_HIGH", "SIZE_INCREASE_MEDIUM"}
    BY <2>1 DEF Analyze, DetectInstallHooks, HookFindings, Matching, Finding
  <2> HIDE DEF G
  <2> QED  BY <2>2 DEF OfType
<1>7. added \in SUBSET latest /\ added \in SUBSET Hooks /\ latest \ added \in SUBSET Hooks
  BY DEF AddedHooks
<1> HIDE DEF F, G, added
<1>8. L = P \cup Q
  BY <1>7 DEF HookSet
<1>9. IsFiniteSet(A) /\ IsFiniteSet(P) /\ IsFiniteSet(Q)
  BY <1>7, HookSetIsFinite
<1>10. Cardinality(Q) <= Cardinality(A)
  <2> DEFINE g == [x \in A |-> Finding("INSTALL_HOOK_PRESENT", HookSeverity(x.where, "medium", "low"), x.where)]
  <2>1. Q = {g[x] : x \in A}
    <3>1. \A x \in A : x.where \in added
      BY DEF HookSet, Finding
    <3>2. \A h \in added : \E x \in A : x.where = h
      <4>1. ASSUME NEW h \in added
            PROVE  Finding("INSTALL_HOOK_ADDED", HookSeverity(h, "high", "medium"), h) \in A
        BY DEF HookSet
      <4>2. \A t, v, h : Finding(t, v, h).where = h
        BY DEF Finding
      <4> HIDE DEF A
      <4> QED  BY <4>1, <4>2
    <3>3. Q = {Finding("INSTALL_HOOK_PRESENT", HookSeverity(h, "medium", "low"), h) : h \in added}
      BY DEF HookSet
    <3>4. \A x \in A : g[x] = Finding("INSTALL_HOOK_PRESENT", HookSeverity(x.where, "medium", "low"), x.where)
      OBVIOUS
    <3> HIDE DEF g, A, Q
    <3> QED  BY <3>1, <3>2, <3>3, <3>4
  <2>2. g = [x \in A |-> g[x]]
    OBVIOUS
  <2> HIDE DEF g, Q, A
  <2> QED  BY <1>9, <2>1, <2>2, Images
<1> HIDE DEF A, P, Q, L
<1>11. Cardinality(L) <= Cardinality(P) + Cardinality(Q)
  <2>1. Cardinality(P \cup Q) = Cardinality(P) + Cardinality(Q) - Cardinality(P \cap Q)
    BY <1>9, FS_Union
  <2>2. Cardinality(P \cap Q) \in Nat /\ Cardinality(P) \in Nat /\ Cardinality(Q) \in Nat
    BY <1>9, FS_Intersection, FS_CardinalityType
  <2> QED  BY <1>8, <2>1, <2>2
<1>12. Cardinality(A) \in Nat /\ Cardinality(P) \in Nat /\ Cardinality(Q) \in Nat /\ Cardinality(L) \in Nat
  BY <1>8, <1>9, FS_Union, FS_CardinalityType
<1>14. /\ Count(F, "INSTALL_HOOK_ADDED") = Cardinality(A) /\ Count(F, "INSTALL_HOOK_PRESENT") = Cardinality(P)
       /\ Count(G, "INSTALL_HOOK_PRESENT") = Cardinality(L)
  BY <1>1, <1>3 DEF Count
<1>15. /\ Count(G, "INSTALL_HOOK_ADDED") = 0
       /\ Count(G, "SIZE_INCREASE_HIGH") = 0 /\ Count(G, "SIZE_INCREASE_MEDIUM") = 0
  BY <1>4, <1>6, FS_EmptySet DEF Count
<1>16. /\ Count(F, "EXECUTABLE_BINARY") = Count(G, "EXECUTABLE_BINARY")
       /\ Count(F, "OBFUSCATED_CODE") = Count(G, "OBFUSCATED_CODE")
       /\ Count(F, "COMMAND_EXECUTION_PATTERN") = Count(G, "COMMAND_EXECUTION_PATTERN")
  BY <1>5 DEF Count
<1>17. Cardinality(L) <= Cardinality(A) + Cardinality(P)
  BY <1>10, <1>11, <1>12
<1>18. RawScore(F) >= RawScore(G)
  BY <1>1, <1>3, <1>14, <1>15, <1>16, <1>17, RawScoresCompare DEF Typed
<1>19. /\ RawScore(F) \in Nat /\ RawScore(G) \in Nat
       /\ CalculateScore(F) = IF RawScore(F) > 100 THEN 100 ELSE RawScore(F)
       /\ CalculateScore(G) = IF RawScore(G) > 100 THEN 100 ELSE RawScore(G)
  BY <1>1, <1>3, ScoreOfCounts DEF Typed
<1> QED  BY <1>18, <1>19 DEF F, G

-----------------------------------------------------------------------------
(* The invariants of an attempt.  They hold at one stage each, so that     *)
(* what the inductive invariant adds is where the values they speak of     *)
(* come from: the verdict and the version of the document fetched, the     *)
(* verdict on the archive opened, the analysis of the input.               *)

DocumentUsed ==
    stage = "store" =>
        /\ document \in Document /\ document.latest \in Entries
        /\ versions.latest = document.latest
        /\ versions.previous = PreviousVersion(document)

ArchiveJudged ==
    /\ stage = "extracted" => ArchiveVerdict(archive) = "accepted"
    /\ reason \in {"unsafe member", "archive limit"} => ArchiveVerdict(archive) = reason

AnalysisScored ==
    stage = "analyzed" =>
        /\ findings = Findings(input.files, input.size, input.previousSize)
        /\ score = CalculateScore(findings)
        /\ riskLevel = CalculateRiskLevel(score)

AttemptInv == ScanInv /\ TypeOK /\ DocumentUsed /\ ArchiveJudged /\ AnalysisScored

LEMMA PreviousVersionType ==
    ASSUME NEW doc \in Document
    PROVE  PreviousVersion(doc) \in Entries \cup {NoEntry}
<1>1. BestCandidate(doc) \in [0 .. DocVersions -> Entries \cup {NoEntry}]
  BY BestCandidateDefined
<1>2. DocVersions \in 0 .. DocVersions
  BY RegistryAssumption
<1> QED  BY <1>1, <1>2 DEF PreviousVersion

LEMMA VerdictType ==
    ASSUME NEW doc
    PROVE  /\ Verdict(doc) \in DocumentReasons \cup {"accepted"}
           /\ Verdict(doc) = "accepted" => doc.latest # NoEntry
  BY DEF Verdict, DocumentReasons

LEMMA BothVersions ==
    ASSUME NEW a \in Entries \cup {NoEntry}, NEW b \in Entries \cup {NoEntry},
           NEW v, v = [latest |-> a, previous |-> b]
    PROVE  v \in [{"latest", "previous"} -> Entries \cup {NoEntry}]
  OBVIOUS

LEMMA AttemptStarts == Init => AttemptInv
<1> SUFFICES ASSUME Init PROVE AttemptInv
  OBVIOUS
<1>1. ScanInv
  BY ScanStarts
<1>2. /\ stage = "fetch" /\ target = "latest" /\ reason = "none"
      /\ document = NoDocument /\ versions = NoVersions /\ compares = FALSE
      /\ archive = <<>> /\ scripts = [t \in {"latest", "previous"} |-> {}]
      /\ input = NoInput /\ findings = {} /\ score = 0 /\ riskLevel = "unknown"
  BY DEF Init, DownloadInit
<1>3. TypeOK
  <2>1. FileTypeOK
    BY <1>1 DEF ScanInv, FileInv
  <2>2. versions \in [{"latest", "previous"} -> Entries \cup {NoEntry}]
    BY <1>2 DEF NoVersions
  <2>3. archive \in Archives /\ input \in [files : Trees, size : Sizes, previousSize : Sizes]
    BY <1>2, PackageScanAssumption DEF NoInput
  <2>4. scripts \in [{"latest", "previous"} -> SUBSET SUBSET Hooks]
    BY <1>2
  <2>5. findings = {} /\ score \in 0 .. MaxScore
    BY <1>2 DEF MaxScore
  <2>6. /\ stage \in {"fetch", "store", "download", "extract", "extracted",
                     "read", "analyze", "analyzed", "saved", "failed"}
        /\ target \in {"latest", "previous"} /\ reason \in Reasons \cup {"none"}
        /\ document \in Documents \cup {NoDocument} /\ compares \in BOOLEAN
        /\ riskLevel \in {"unknown", "low", "medium", "high"}
    BY <1>2
  <2> QED  BY <2>1, <2>2, <2>3, <2>4, <2>5, <2>6 DEF TypeOK
<1>4. DocumentUsed /\ ArchiveJudged /\ AnalysisScored
  BY <1>2 DEF DocumentUsed, ArchiveJudged, AnalysisScored
<1> QED  BY <1>1, <1>3, <1>4 DEF AttemptInv

(* Steps that only fail, and clear what they hold.                         *)
LEMMA FailureKeeps ==
    ASSUME AttemptInv, ScanInv', stage' = "failed",
           reason' \in Reasons \cup {"none"},
           reason' \in {"unsafe member", "archive limit"} => ArchiveVerdict(archive') = reason',
           target' = target, compares' = compares, scripts' = scripts,
           document' \in {document, NoDocument}, versions' \in {versions, NoVersions},
           archive' \in Archives,
           input' \in [files : Trees, size : Sizes, previousSize : Sizes],
           UNCHANGED <<findings, score, riskLevel>>
    PROVE  AttemptInv'
<1>1. FileTypeOK'
  BY DEF ScanInv, FileInv
<1>2. versions' \in [{"latest", "previous"} -> Entries \cup {NoEntry}]
  <2>1. NoVersions \in [{"latest", "previous"} -> Entries \cup {NoEntry}]
    BY BothVersions DEF NoVersions
  <2>2. versions \in [{"latest", "previous"} -> Entries \cup {NoEntry}]
    BY DEF AttemptInv, TypeOK
  <2> QED  BY <2>1, <2>2
<1>3. document' \in Documents \cup {NoDocument}
  BY DEF AttemptInv, TypeOK
<1>4. TypeOK'
  BY <1>1, <1>2, <1>3 DEF AttemptInv, TypeOK
<1>5. DocumentUsed' /\ ArchiveJudged' /\ AnalysisScored'
  BY DEF DocumentUsed, ArchiveJudged, AnalysisScored
<1> QED  BY <1>4, <1>5 DEF AttemptInv

LEMMA FetchKeeps ==
    ASSUME AttemptInv, ScanInv', FetchMetadata
    PROVE  AttemptInv'
<1>1. document' \in Documents /\ document' \in Document
  BY PackageScanAssumption DEF FetchMetadata
<1>2. UNCHANGED <<target, compares, archive, scripts, input, findings, score, riskLevel>>
  BY DEF FetchMetadata, analysis
<1>3. CASE Verdict(document') = "accepted"
  <2>1. /\ stage' = "store" /\ reason' = reason
        /\ versions' = [latest |-> document'.latest, previous |-> PreviousVersion(document')]
    BY <1>3 DEF FetchMetadata
  <2>2. document'.latest \in Entries
    BY <1>1, <1>3, VerdictType DEF Document
  <2>3. PreviousVersion(document') \in Entries \cup {NoEntry}
    BY <1>1, PreviousVersionType
  <2>4. versions' \in [{"latest", "previous"} -> Entries \cup {NoEntry}]
    BY <2>1, <2>2, <2>3, BothVersions
  <2>5. reason = "none"
    BY DEF AttemptInv, ScanInv, ReasonFails, FetchMetadata
  <2>6. FileTypeOK'
    BY DEF ScanInv, FileInv
  <2>7. TypeOK'
    BY <1>1, <1>2, <2>1, <2>4, <2>5, <2>6 DEF AttemptInv, TypeOK
  <2>8. DocumentUsed'
    BY <1>1, <2>1, <2>2 DEF DocumentUsed
  <2>9. ArchiveJudged' /\ AnalysisScored'
    BY <2>1, <2>5 DEF ArchiveJudged, AnalysisScored
  <2> QED  BY <2>7, <2>8, <2>9 DEF AttemptInv
<1>4. CASE Verdict(document') # "accepted"
  <2>1. stage' = "failed" /\ reason' = Verdict(document') /\ versions' = versions
    BY <1>4 DEF FetchMetadata, Fail
  <2>2. reason' \in DocumentReasons
    BY <1>4, <2>1, VerdictType
  <2>3. FileTypeOK'
    BY DEF ScanInv, FileInv
  <2>4. TypeOK'
    BY <1>1, <1>2, <2>1, <2>2, <2>3 DEF AttemptInv, TypeOK, Reasons
  <2>5. DocumentUsed' /\ ArchiveJudged' /\ AnalysisScored'
    BY <2>1, <2>2 DEF DocumentUsed, ArchiveJudged, AnalysisScored, DocumentReasons
  <2> QED  BY <2>4, <2>5 DEF AttemptInv
<1> QED  BY <1>3, <1>4

(* Steps that hand over to a stage nothing is promised of.                 *)
LEMMA HandOverKeeps ==
    ASSUME AttemptInv, ScanInv',
           stage' \in {"download", "extract", "read", "analyze", "saved"},
           reason' = "none",
           target' \in {"latest", "previous"},
           document' \in {document, NoDocument}, versions' \in {versions, NoVersions},
           compares' \in BOOLEAN, archive' \in Archives,
           scripts' \in [{"latest", "previous"} -> SUBSET SUBSET Hooks],
           input' \in [files : Trees, size : Sizes, previousSize : Sizes],
           UNCHANGED <<findings, score, riskLevel>>
    PROVE  AttemptInv'
<1>1. FileTypeOK'
  BY DEF ScanInv, FileInv
<1>2. versions' \in [{"latest", "previous"} -> Entries \cup {NoEntry}]
  <2>1. NoVersions \in [{"latest", "previous"} -> Entries \cup {NoEntry}]
    BY BothVersions DEF NoVersions
  <2>2. versions \in [{"latest", "previous"} -> Entries \cup {NoEntry}]
    BY DEF AttemptInv, TypeOK
  <2> QED  BY <2>1, <2>2
<1>3. document' \in Documents \cup {NoDocument}
  BY DEF AttemptInv, TypeOK
<1>4. TypeOK'
  BY <1>1, <1>2, <1>3 DEF AttemptInv, TypeOK
<1>5. DocumentUsed' /\ ArchiveJudged' /\ AnalysisScored'
  BY DEF DocumentUsed, ArchiveJudged, AnalysisScored
<1> QED  BY <1>4, <1>5 DEF AttemptInv

LEMMA InputTypes ==
    /\ NoInput \in [files : Trees, size : Sizes, previousSize : Sizes]
    /\ <<>> \in Archives
    /\ [t \in {"latest", "previous"} |-> {}] \in [{"latest", "previous"} -> SUBSET SUBSET Hooks]
  BY PackageScanAssumption DEF NoInput

LEMMA StoreKeeps ==
    ASSUME AttemptInv, ScanInv', StoreVersions
    PROVE  AttemptInv'
<1>1. /\ stage' = "download" /\ reason' = reason /\ reason = "none"
      /\ document' = NoDocument /\ versions' = NoVersions /\ compares' \in BOOLEAN
      /\ UNCHANGED <<target, archive, scripts, input, findings, score, riskLevel>>
  BY DEF StoreVersions, downloadVars, analysis, AttemptInv, ScanInv, ReasonFails
<1>2. /\ target \in {"latest", "previous"} /\ archive \in Archives
      /\ scripts \in [{"latest", "previous"} -> SUBSET SUBSET Hooks]
      /\ input \in [files : Trees, size : Sizes, previousSize : Sizes]
  BY DEF AttemptInv, TypeOK
<1> QED  BY <1>1, <1>2, HandOverKeeps

LEMMA DownloadKeeps ==
    ASSUME AttemptInv, ScanInv', Download
    PROVE  AttemptInv'
<1>1. /\ target \in {"latest", "previous"} /\ archive \in Archives /\ compares \in BOOLEAN
      /\ scripts \in [{"latest", "previous"} -> SUBSET SUBSET Hooks]
      /\ input \in [files : Trees, size : Sizes, previousSize : Sizes]
      /\ stage = "download" /\ reason = "none"
  BY DEF AttemptInv, TypeOK, Download, ScanInv, ReasonFails
<1>2. UNCHANGED <<target, document, versions, compares, archive, scripts, input,
                  findings, score, riskLevel>>
  BY DEF Download, fetched, analysis
<1>3. reason' \in DownloadReasons \cup {"none"}
  BY <1>1 DEF Download, DownloadStep, Refuse, Request, StreamRefused, OpenFile, Finish,
         DigestDiffers, TimesOut, TransportFails, WriteFails, WriteChunk,
         ChunkOverLimit, Discard, DownloadReasons
<1>4. stage' \in {"download", "extract", "failed"}
  BY DEF Download
<1>5. CASE stage' = "failed"
  BY <1>1, <1>2, <1>3, <1>5, FailureKeeps DEF Reasons, DownloadReasons
<1>6. CASE stage' # "failed"
  <2>1. reason' = "none"
    BY <1>6 DEF ScanInv, ReasonFails
  <2> QED  BY <1>1, <1>2, <1>4, <1>6, <2>1, HandOverKeeps
<1> QED  BY <1>5, <1>6

LEMMA ExtractKeeps ==
    ASSUME AttemptInv, ScanInv', Extract
    PROVE  AttemptInv'
<1>1. /\ archive' \in Archives /\ archive' \in Seq(Member)
      /\ UNCHANGED <<target, document, versions, compares, scripts, input,
                     findings, score, riskLevel>>
  BY PackageScanAssumption DEF Extract, fetched, analysis
<1>2. /\ target \in {"latest", "previous"} /\ compares \in BOOLEAN
      /\ scripts \in [{"latest", "previous"} -> SUBSET SUBSET Hooks]
      /\ input \in [files : Trees, size : Sizes, previousSize : Sizes]
      /\ stage = "extract" /\ reason = "none"
  BY DEF AttemptInv, TypeOK, Extract, ScanInv, ReasonFails
<1>3. CASE ArchiveVerdict(archive') = "accepted"
  <2>1. stage' = "extracted" /\ reason' = reason
    BY <1>3 DEF Extract
  <2>2. FileTypeOK'
    BY DEF ScanInv, FileInv
  <2>3. TypeOK'
    BY <1>1, <1>2, <2>1, <2>2 DEF AttemptInv, TypeOK
  <2>4. DocumentUsed' /\ ArchiveJudged' /\ AnalysisScored'
    BY <1>2, <1>3, <2>1 DEF DocumentUsed, ArchiveJudged, AnalysisScored
  <2> QED  BY <2>3, <2>4 DEF AttemptInv
<1>4. CASE ArchiveVerdict(archive') # "accepted"
  <2>1. stage' = "failed" /\ reason' = ArchiveVerdict(archive')
    BY <1>4 DEF Extract, Fail
  <2>2. reason' \in Reasons
    BY <1>1, <1>4, <2>1, VerdictExact DEF Reasons, ArchiveReasons
  <2> QED  BY <1>1, <1>2, <2>1, <2>2, FailureKeeps
<1> QED  BY <1>3, <1>4

LEMMA ContinueKeepsAttempt ==
    ASSUME AttemptInv, ScanInv', Continue
    PROVE  AttemptInv'
<1>1. /\ stage' \in {"download", "read"} /\ target' \in {"latest", "previous"}
      /\ archive' = <<>> /\ reason' = "none"
      /\ UNCHANGED <<document, versions, compares, scripts, input, findings, score, riskLevel>>
  BY DEF Continue, NextDownload, fetched, analysis
<1>2. /\ compares \in BOOLEAN
      /\ scripts \in [{"latest", "previous"} -> SUBSET SUBSET Hooks]
      /\ input \in [files : Trees, size : Sizes, previousSize : Sizes]
  BY DEF AttemptInv, TypeOK
<1> QED  BY <1>1, <1>2, InputTypes, HandOverKeeps

LEMMA ReadKeeps ==
    ASSUME AttemptInv, ScanInv', ReadScripts
    PROVE  AttemptInv'
<1>1. PICK registry \in ScriptSource, packageJson \in ScriptSource :
         scripts' = [scripts EXCEPT ![target] = {ResolveScripts(registry, packageJson)}]
  BY DEF ReadScripts
<1>2. ResolveScripts(registry, packageJson) \in SUBSET Hooks
  BY DEF ResolveScripts, ScriptSource
<1>3. /\ target \in {"latest", "previous"} /\ compares \in BOOLEAN /\ archive \in Archives
      /\ scripts \in [{"latest", "previous"} -> SUBSET SUBSET Hooks]
      /\ input \in [files : Trees, size : Sizes, previousSize : Sizes]
      /\ reason = "none" /\ stage = "read"
  BY DEF AttemptInv, TypeOK, ReadScripts, ScanInv, ReasonFails
<1>4. scripts' \in [{"latest", "previous"} -> SUBSET SUBSET Hooks]
  BY <1>1, <1>2, <1>3
<1>5. /\ stage' \in {"read", "analyze"} /\ target' \in {"latest", "previous"}
      /\ UNCHANGED <<reason, document, versions, compares, archive, input,
                     findings, score, riskLevel>>
  BY <1>3 DEF ReadScripts, downloadVars, fetched
<1> QED  BY <1>3, <1>4, <1>5, HandOverKeeps

LEMMA SaveKeeps ==
    ASSUME AttemptInv, ScanInv', Save
    PROVE  AttemptInv'
<1>1. /\ stage' = "saved" /\ input' = NoInput
      /\ scripts' = [t \in {"latest", "previous"} |-> {}]
      /\ UNCHANGED <<reason, target, document, versions, compares, archive,
                     findings, score, riskLevel>>
  BY DEF Save, downloadVars, fetched
<1>2. /\ target \in {"latest", "previous"} /\ compares \in BOOLEAN /\ archive \in Archives
      /\ reason = "none"
  BY DEF AttemptInv, TypeOK, Save, ScanInv, ReasonFails
<1> QED  BY <1>1, <1>2, InputTypes, HandOverKeeps

LEMMA AnalyzerKeeps ==
    ASSUME AttemptInv, ScanInv', RunAnalyzer
    PROVE  AttemptInv'
<1>1. PICK files \in Trees, size \in Sizes, previousSize \in Sizes :
         /\ input' = [files |-> files, size |-> size, previousSize |-> previousSize]
         /\ IF TooManyFiles(files)
            THEN /\ Fail("too many files")
                 /\ UNCHANGED <<findings, score, riskLevel>>
            ELSE /\ stage' = "analyzed"
                 /\ findings' = Findings(files, size, previousSize)
                 /\ score' = CalculateScore(findings')
                 /\ riskLevel' = CalculateRiskLevel(score')
                 /\ UNCHANGED reason
  BY DEF RunAnalyzer
<1>2. /\ UNCHANGED <<target, document, versions, compares, archive, scripts>>
      /\ stage = "analyze" /\ reason = "none"
  BY DEF RunAnalyzer, fetched, AttemptInv, ScanInv, ReasonFails
<1>3. /\ target \in {"latest", "previous"} /\ compares \in BOOLEAN /\ archive \in Archives
      /\ scripts \in [{"latest", "previous"} -> SUBSET SUBSET Hooks]
  BY DEF AttemptInv, TypeOK
<1>4. input' \in [files : Trees, size : Sizes, previousSize : Sizes]
  BY <1>1
<1>5. CASE TooManyFiles(files)
  <2>1. stage' = "failed" /\ reason' = "too many files" /\ UNCHANGED <<findings, score, riskLevel>>
    BY <1>1, <1>5 DEF Fail
  <2> QED  BY <1>2, <1>3, <1>4, <2>1, FailureKeeps DEF Reasons, AnalysisReasons
<1>6. CASE ~TooManyFiles(files)
  <2>1. /\ stage' = "analyzed" /\ reason' = reason
        /\ findings' = Findings(files, size, previousSize)
        /\ score' = CalculateScore(findings') /\ riskLevel' = CalculateRiskLevel(score')
    BY <1>1, <1>6
  <2>2. Typed(findings')
    <3>1. UNION scripts["latest"] \in SUBSET Hooks /\ scripts["previous"] \in SUBSET SUBSET Hooks
      BY <1>3
    <3>2. files \in Seq(File)
      BY PackageScanAssumption
    <3> QED  BY <2>1, <3>1, <3>2, AnalyzeParts DEF Findings, IsAnalysis
  <2>3. score' \in 0 .. MaxScore
    <3>1. score' \in 1 .. 100
      BY <2>1, <2>2, ScoreOfCounts DEF Typed
    <3> QED  BY <3>1 DEF MaxScore
  <2>4. riskLevel' \in {"low", "medium", "high"}
    BY <2>1, <2>2, Calibrated
  <2>5. FileTypeOK'
    BY DEF ScanInv, FileInv
  <2>6. TypeOK'
    BY <1>2, <1>4, <2>1, <2>2, <2>3, <2>4, <2>5 DEF AttemptInv, TypeOK, Typed
  <2>7. DocumentUsed' /\ ArchiveJudged'
    BY <1>2, <2>1 DEF DocumentUsed, ArchiveJudged
  <2>8. AnalysisScored'
    <3>1. input'.files = files /\ input'.size = size /\ input'.previousSize = previousSize
      BY <1>1
    <3> QED  BY <1>2, <2>1, <3>1 DEF AnalysisScored, Findings
  <2> QED  BY <2>6, <2>7, <2>8 DEF AttemptInv
<1> QED  BY <1>5, <1>6

LEMMA OtherFailuresKeep ==
    ASSUME AttemptInv, ScanInv', FetchFails \/ StoreFails \/ ExtractFails \/ ReadFails
    PROVE  AttemptInv'
<1>1. stage' = "failed"
  BY DEF FetchFails, StoreFails, ExtractFails, ReadFails, Fail
<1>2. reason' \in RegistryReasons \cup {"unstorable", "directory", "no archive",
                                       "broken stream", "undecodable"}
  BY DEF FetchFails, StoreFails, ExtractFails, ReadFails, Fail
<1>3. reason' \in Reasons /\ reason' \notin {"unsafe member", "archive limit"}
  BY <1>2 DEF Reasons, RegistryReasons, DownloadReasons, ArchiveReasons, AnalysisReasons
<1>4. /\ UNCHANGED <<target, compares, archive, scripts, input, findings, score, riskLevel>>
      /\ document' \in {document, NoDocument} /\ versions' \in {versions, NoVersions}
  BY DEF FetchFails, StoreFails, ExtractFails, ReadFails, fetched, analysis
<1>5. archive \in Archives /\ input \in [files : Trees, size : Sizes, previousSize : Sizes]
  BY DEF AttemptInv, TypeOK
<1> QED  BY <1>1, <1>3, <1>4, <1>5, FailureKeeps

LEMMA AttemptKept ==
    ASSUME AttemptInv, [Next]_vars
    PROVE  AttemptInv'
<1>1. ScanInv'
  BY ScanKept DEF AttemptInv
<1>2. CASE FetchFails \/ StoreFails \/ ExtractFails \/ ReadFails
  BY <1>1, <1>2, OtherFailuresKeep
<1>3. CASE FetchMetadata \/ StoreVersions
  BY <1>1, <1>3, FetchKeeps, StoreKeeps
<1>4. CASE Download \/ Extract \/ Continue
  BY <1>1, <1>4, DownloadKeeps, ExtractKeeps, ContinueKeepsAttempt
<1>5. CASE ReadScripts \/ RunAnalyzer \/ Save
  BY <1>1, <1>5, ReadKeeps, AnalyzerKeeps, SaveKeeps
<1>6. CASE UNCHANGED vars
  <2>1. UNCHANGED <<stage, target, document, versions, compares, archive, scripts, input,
                    findings, score, riskLevel, pc, digest, received, hashed, disk, reason>>
    BY <1>6 DEF vars, fetched, analysis, downloadVars
  <2>2. TypeOK'
    BY <2>1 DEF AttemptInv, TypeOK, FileTypeOK
  <2>3. DocumentUsed' /\ ArchiveJudged'
    BY <2>1 DEF AttemptInv, DocumentUsed, ArchiveJudged
  <2>4. AnalysisScored'
    BY <2>1 DEF AttemptInv, AnalysisScored, Findings
  <2> QED  BY <1>1, <2>2, <2>3, <2>4 DEF AttemptInv
<1> QED
  BY <1>2, <1>3, <1>4, <1>5, <1>6 DEF Next, Step, Ended

THEOREM AttemptInvariant == Spec => []AttemptInv
  BY AttemptStarts, AttemptKept, PTL DEF Spec

(* Every reason is one that Classes knows, every finding of a known type,  *)
(* and every score between the bounds.                                     *)
THEOREM AttemptTypes == Spec => []TypeOK
<1>1. AttemptInv => TypeOK
  BY DEF AttemptInv
<1> QED  BY <1>1, AttemptInvariant, PTL

(* Whatever the order of the versions map and however many there are, the  *)
(* loop finds the version published just before the latest.                *)
THEOREM PreviousVersionIsPredecessor == Spec => []PreviousIsPredecessor
<1>1. AttemptInv => PreviousIsPredecessor
  BY BestIsLast DEF AttemptInv, DocumentUsed, PreviousIsPredecessor
<1> QED  BY <1>1, AttemptInvariant, PTL

(* The running checks of the extractor accept and refuse exactly what the  *)
(* limits say, for archives of any length and for any limits.              *)
THEOREM ArchivesCheckedExactly == Spec => []ArchiveChecksExact
<1>1. AttemptInv => ArchiveChecksExact
  <2> SUFFICES ASSUME AttemptInv PROVE ArchiveChecksExact
    OBVIOUS
  <2>1. archive \in Seq(Member)
    BY PackageScanAssumption DEF AttemptInv, TypeOK
  <2>2. ArchiveVerdict(archive) = "accepted" <=> WithinBounds(archive)
    BY <2>1, VerdictExact
  <2> QED  BY <2>2 DEF AttemptInv, ArchiveJudged, ArchiveChecksExact
<1> QED  BY <1>1, AttemptInvariant, PTL

(* No rejection of what was sent is retried, and every timeout is.         *)
THEOREM RejectionsStayFinal == Spec => []RejectionsAreFinal
  BY RejectionsFinal, PTL

(* With any files, hooks and sizes, the comparison never lowers the score. *)
THEOREM ComparingNeverLowersScore == Spec => []BaselineNeverLowersScore
<1>1. AttemptInv => BaselineNeverLowersScore
  <2> SUFFICES ASSUME AttemptInv, stage = "analyzed"
               PROVE  score >= CalculateScore(Analyze(input.files, UNION scripts["latest"],
                                                      input.size, {}, NoSize))
    BY DEF BaselineNeverLowersScore
  <2>1. input \in [files : Trees, size : Sizes, previousSize : Sizes]
        /\ scripts \in [{"latest", "previous"} -> SUBSET SUBSET Hooks]
    BY DEF AttemptInv, TypeOK
  <2>2. input.files \in Seq(File)
    BY <2>1, PackageScanAssumption
  <2>3. UNION scripts["latest"] \in SUBSET Hooks /\ scripts["previous"] \in SUBSET SUBSET Hooks
    BY <2>1
  <2>4. score = CalculateScore(Analyze(input.files, UNION scripts["latest"], input.size,
                                       scripts["previous"], input.previousSize))
    BY DEF AttemptInv, AnalysisScored, Findings
  <2> QED  BY <2>2, <2>3, <2>4, ComparingAdds
<1> QED  BY <1>1, AttemptInvariant, PTL

(* One finding never leaves low, two suspicious ones always do, and two    *)
(* never reach high, whatever is scanned.                                  *)
THEOREM RiskIsCalibrated == Spec => []RiskCalibration
<1>1. AttemptInv => RiskCalibration
  <2> SUFFICES ASSUME AttemptInv, stage = "analyzed"
               PROVE  /\ Cardinality(findings) <= 1 => riskLevel = "low"
                      /\ Cardinality(Suspicious) >= 2 => riskLevel # "low"
                      /\ Cardinality(findings) <= 2 => riskLevel # "high"
    BY DEF RiskCalibration
  <2>1. input \in [files : Trees, size : Sizes, previousSize : Sizes]
        /\ scripts \in [{"latest", "previous"} -> SUBSET SUBSET Hooks]
    BY DEF AttemptInv, TypeOK
  <2>2. input.files \in Seq(File)
    BY <2>1, PackageScanAssumption
  <2>3. UNION scripts["latest"] \in SUBSET Hooks /\ scripts["previous"] \in SUBSET SUBSET Hooks
    BY <2>1
  <2>4. /\ findings = Analyze(input.files, UNION scripts["latest"], input.size,
                              scripts["previous"], input.previousSize)
        /\ riskLevel = CalculateRiskLevel(CalculateScore(findings))
    BY DEF AttemptInv, AnalysisScored, Findings
  <2>5. Typed(findings)
    BY <2>2, <2>3, <2>4, AnalyzeParts DEF IsAnalysis
  <2>6. Suspicious = SuspiciousIn(findings)
    BY DEF Suspicious, SuspiciousIn
  <2> QED  BY <2>4, <2>5, <2>6, Calibrated
<1> QED  BY <1>1, AttemptInvariant, PTL
=============================================================================
