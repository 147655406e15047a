----------------------------- MODULE MCMonitor -----------------------------
(* Small instances of UpdateMonitor for TLC.                               *)
EXTENDS UpdateMonitor

CONSTANTS p1, p2
=============================================================================
