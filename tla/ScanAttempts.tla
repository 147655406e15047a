---------------------------- MODULE ScanAttempts ----------------------------
(***************************************************************************)
(* What the scan pipeline promises a reader of its tables, free of         *)
(* processes, messages and transactions: the history of scan attempts.     *)
(* An attempt is recorded queued or already running, runs once, and ends   *)
(* completed with the version it analysed or failed with no result.  A     *)
(* completion and the package's latest scanned version are one event.      *)
(* ScanLifecycle implements this when neither publish nor database faults  *)
(* happen.                                                                 *)
(***************************************************************************)
EXTENDS Naturals, Sequences

CONSTANTS Packages, Versions, NoVersion

VARIABLES attempts,  \* attempts in the order they were recorded
          latest     \* the version each package was last scanned at

avars == <<attempts, latest>>

Attempt(p, status) == [pkg |-> p, status |-> status, result |-> NoVersion]

Queued(p) ==
    {i \in DOMAIN attempts : attempts[i].pkg = p /\ attempts[i].status = "queued"}

Init ==
    /\ attempts = <<>>
    /\ latest = [p \in Packages |-> NoVersion]

Request(p) ==
    /\ attempts' = Append(attempts, Attempt(p, "queued"))
    /\ UNCHANGED latest

(* The oldest queued attempt of the package starts ...                     *)
Start(i) ==
    /\ i \in Queued(attempts[i].pkg)
    /\ \A j \in Queued(attempts[i].pkg) : i <= j
    /\ attempts' = [attempts EXCEPT ![i].status = "running"]
    /\ UNCHANGED latest

(* ... or, when none is queued, one that nobody requested (a retry or a    *)
(* duplicate delivery).                                                    *)
StartUnrequested(p) ==
    /\ Queued(p) = {}
    /\ attempts' = Append(attempts, Attempt(p, "running"))
    /\ UNCHANGED latest

Complete(i, v) ==
    /\ attempts[i].status = "running"
    /\ attempts' = [attempts EXCEPT ![i] = [@ EXCEPT !.status = "completed", !.result = v]]
    /\ latest' = [latest EXCEPT ![attempts[i].pkg] = v]

Fail(i) ==
    /\ attempts[i].status = "running"
    /\ attempts' = [attempts EXCEPT ![i].status = "failed"]
    /\ UNCHANGED latest

Next ==
    \/ \E p \in Packages : Request(p) \/ StartUnrequested(p)
    \/ \E i \in DOMAIN attempts :
          Start(i) \/ Fail(i) \/ \E v \in Versions : Complete(i, v)

Spec == Init /\ [][Next]_avars
=============================================================================
