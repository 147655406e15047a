----------------------------- MODULE Extraction -----------------------------
(***************************************************************************)
(* SafeExtractor: every member of the archive is checked before the first  *)
(* one is written.  A member is reduced to what the checks read.           *)
(***************************************************************************)
EXTENDS Naturals, Sequences

CONSTANTS MaxMembers,   \* max_members
          MaxTotal,     \* max_total_uncompressed_bytes
          MaxFile,      \* max_file_bytes
          MaxDepth      \* max_path_depth

ASSUME ExtractionAssumption ==
    {MaxMembers, MaxTotal, MaxFile, MaxDepth} \subseteq Nat

(* `named` is a relative, non-empty path; `inside` says that the resolved  *)
(* path is under the destination, `target` that a link's target is.        *)
Member == [kind   : {"file", "directory", "link", "special"},
           size   : Nat,
           depth  : Nat,
           named  : BOOLEAN,
           inside : BOOLEAN,
           target : BOOLEAN]

(* _validate_member, its checks in order.                                  *)
MemberVerdict(m) ==
    IF ~m.named THEN "unsafe member"
    ELSE IF m.depth > MaxDepth THEN "archive limit"
    ELSE IF ~m.inside \/ m.kind = "special" THEN "unsafe member"
    ELSE IF m.kind = "file" /\ m.size > MaxFile THEN "archive limit"
    ELSE IF m.kind = "link" /\ ~m.target THEN "unsafe member"
    ELSE "accepted"

Bytes(m) == IF m.kind = "file" THEN m.size ELSE 0

(* Mutant: the total is compared before the member is added to it.         *)
AddedAfterCheck(state, m) ==
    IF state.verdict # "accepted" THEN state
    ELSE IF MemberVerdict(m) # "accepted"
    THEN [state EXCEPT !.verdict = MemberVerdict(m)]
    ELSE IF state.total > MaxTotal
    THEN [state EXCEPT !.verdict = "archive limit"]
    ELSE [state EXCEPT !.total = @ + Bytes(m)]

(* One turn of the loop of _validate_archive; an exception ends the loop.  *)
Added(state, m) ==
    IF state.verdict # "accepted" THEN state
    ELSE IF MemberVerdict(m) # "accepted"
    THEN [state EXCEPT !.verdict = MemberVerdict(m)]
    ELSE IF state.total + Bytes(m) > MaxTotal
    THEN [state EXCEPT !.verdict = "archive limit"]
    ELSE [state EXCEPT !.total = @ + Bytes(m)]

(* The loop after its first n turns.                                       *)
AfterMembers(members) ==
    LET after[n \in 0 .. Len(members)] ==
          IF n = 0 THEN [verdict |-> "accepted", total |-> 0]
          ELSE Added(after[n - 1], members[n])
    IN  after

ArchiveVerdict(members) ==
    IF Len(members) > MaxMembers THEN "archive limit"
    ELSE AfterMembers(members)[Len(members)].verdict
-----------------------------------------------------------------------------
(* The reference: an archive whose every member and whose whole is within  *)
(* bounds.                                                                 *)
MemberInBounds(m) ==
    /\ m.named /\ m.inside
    /\ m.depth <= MaxDepth
    /\ m.kind # "special"
    /\ m.kind = "file" => m.size <= MaxFile
    /\ m.kind = "link" => m.target

TotalBytes(members) ==
    LET bytes[n \in 0 .. Len(members)] ==
          IF n = 0 THEN 0 ELSE bytes[n - 1] + Bytes(members[n])
    IN  bytes

WithinBounds(members) ==
    /\ Len(members) <= MaxMembers
    /\ \A i \in DOMAIN members : MemberInBounds(members[i])
    /\ TotalBytes(members)[Len(members)] <= MaxTotal
=============================================================================
