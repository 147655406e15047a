------------------------------ MODULE Service ------------------------------
(***************************************************************************)
(* The traffic of the API over the tables: a client that reads while scans *)
(* are requested and carried out, or a batch of requests.  A batch reads   *)
(* nothing that scans or clients write, so that the two are not taken      *)
(* together.                                                               *)
(***************************************************************************)
EXTENDS ReadApi, Batch

VARIABLE traffic    \* "reads" or "batch"

vars == <<traffic, tables, client, batchVars>>

TypeOK == CatalogueTypeOK /\ ReadApiTypeOK /\ BatchTypeOK

Init ==
    /\ traffic \in {"reads", "batch"}
    /\ CatalogueInit /\ ReadApiInit /\ BatchInit
    /\ traffic = "reads" => origin = "route" /\ ~ownId
    /\ traffic = "batch" => subject = CHOOSE p \in Packages : TRUE

Reads == /\ traffic = "reads"
         /\ ReadStep \/ WriteStep
         /\ UNCHANGED <<traffic, batchVars>>

Batches == /\ traffic = "batch"
           /\ BatchStep
           /\ UNCHANGED <<traffic, client>>

(* The client has its answer, or the batch has come to its end.            *)
AtRest == (Answered \/ batch \in Ended) /\ UNCHANGED vars

Next == Reads \/ Batches \/ AtRest

Spec == Init /\ [][Next]_vars
-----------------------------------------------------------------------------
AttemptsSeen ==
    [i \in DOMAIN scans |-> [pkg    |-> scans[i].pkg,
                             status |-> scans[i].status,
                             result |-> scans[i].findings]]

Attempts == INSTANCE ScanAttempts WITH attempts <- AttemptsSeen,
                                       latest   <- scanned

(* Batches, enqueue requests and scans, as Catalogue has them, change the  *)
(* tables that clients read in no way that the history of attempts does    *)
(* not allow, and reading changes nothing.  ScanLifecycle implements the   *)
(* same history; that Catalogue allows all that ScanLifecycle does is not  *)
(* said.                                                                   *)
TablesAreScanAttempts == Attempts!Spec
=============================================================================
