--------------------------- MODULE MCInferenceQueue ---------------------------
(* Small instances of InferenceQueue for TLC. *)
EXTENDS InferenceQueue, TLC

CONSTANTS r1, r2, r3

(* Requests of one priority are interchangeable. *)
Symmetry == Permutations(HighRequests) \cup Permutations(Requests \ HighRequests)
=============================================================================
