------------------------------ MODULE Registry ------------------------------
(***************************************************************************)
(* NpmRegistryClient.fetch_metadata: what the client makes of the document *)
(* the registry answers with.  A document is reduced to what decides the   *)
(* answer: for each version, in the order of the versions map, when it was *)
(* published, whether that timestamp has a time zone, and whether the rest *)
(* of its entry is well formed; and the version dist-tags.latest names.    *)
(***************************************************************************)
EXTENDS Naturals

CONSTANTS DocVersions,  \* entries of the versions map, 1 .. DocVersions
          Instants      \* publish times are 1 .. Instants

ASSUME RegistryAssumption == DocVersions \in Nat /\ Instants \in Nat

Entries == 1 .. DocVersions
NoEntry == 0

(* A timestamp that is missing or does not parse.                          *)
NoInstant == 0

Document == [published : [Entries -> 0 .. Instants],
             zoned     : SUBSET Entries,
             wellFormed : SUBSET Entries,
             latest    : Entries \cup {NoEntry}]

(* Comparing a datetime that has a time zone with one that has none raises *)
(* TypeError; both forms parse.                                            *)
Comparable(doc, v, w) == v \in doc.zoned <=> w \in doc.zoned

(* Mutant: a version published with the latest counts as earlier.          *)
EarlierOrSame(doc, v) ==
    v # doc.latest /\ doc.published[v] <= doc.published[doc.latest]

Earlier(doc, v) ==
    v # doc.latest /\ doc.published[v] < doc.published[doc.latest]

(* The loop of _resolve_previous_version_name: the best candidate among    *)
(* the first n entries.  Only a strictly later one replaces it.            *)
BestCandidate(doc) ==
    LET best[n \in 0 .. DocVersions] ==
          IF n = 0 THEN NoEntry
          ELSE IF /\ Earlier(doc, n)
                  /\ \/ best[n - 1] = NoEntry
                     \/ doc.published[n] > doc.published[best[n - 1]]
               THEN n
               ELSE best[n - 1]
    IN  best

PreviousVersion(doc) == BestCandidate(doc)[DocVersions]

(* _build_version_metadata *)
Buildable(doc, v) == v \in doc.wellFormed /\ doc.published[v] # NoInstant

(* The verdict on a document: the timestamp of every version is read, but  *)
(* only the entries of the two versions compared are.  The first unusable  *)
(* timestamp in the order of the map decides between the two exceptions.   *)
Verdict(doc) ==
    LET Unusable == {v \in Entries : \/ doc.published[v] = NoInstant
                                     \/ ~Comparable(doc, v, doc.latest)}
        First == CHOOSE v \in Unusable : \A w \in Unusable : v <= w
    IN  IF doc.latest = NoEntry THEN "malformed document"
        ELSE IF ~Buildable(doc, doc.latest) THEN "malformed document"
        ELSE IF Unusable # {}
        THEN IF doc.published[First] = NoInstant
             THEN "malformed document" ELSE "naive timestamp"
        ELSE IF PreviousVersion(doc) \notin {NoEntry} \cup doc.wellFormed
        THEN "malformed document"
        ELSE "accepted"
-----------------------------------------------------------------------------
(* The reference: w is the version published last before v, and NoEntry    *)
(* when v is the first.                                                    *)
IsPredecessor(doc, w, v) ==
    LET Before == {u \in Entries : doc.published[u] < doc.published[v]}
    IN  IF w = NoEntry THEN Before = {}
        ELSE w \in Before /\ \A u \in Before : doc.published[u] <= doc.published[w]
=============================================================================
