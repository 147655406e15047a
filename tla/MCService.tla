----------------------------- MODULE MCService -----------------------------
(***************************************************************************)
(* A small instance of Service for TLC: two packages, and lists that hold  *)
(* names twice, invalid names, blank entries or nothing.                   *)
(***************************************************************************)
EXTENDS Service

CONSTANTS p, q, invalid

SomeContents == UNION {[1 .. n -> Entries] : n \in 0 .. 3}

AllRequests == {"scans", "findings", "versions", "detail", "packages"}
=============================================================================
