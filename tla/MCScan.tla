------------------------------- MODULE MCScan -------------------------------
(***************************************************************************)
(* Small instances of ScanLifecycle for TLC.                               *)
(***************************************************************************)
EXTENDS ScanProperties, TLC

CONSTANTS t1, t2, p1, w1, w2

OnePackage == [t \in Tasks |-> p1]

(* With one package, tasks and workers are interchangeable.                *)
Symmetry == Permutations(Workers) \cup Permutations(Tasks)
=============================================================================
