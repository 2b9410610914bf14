---------------------------- MODULE MCLlamaEngine ----------------------------
(* Small instances of LlamaEngine for TLC. *)
EXTENDS LlamaEngine, TLC

CONSTANTS t1, t2, a, b

(* Threads are interchangeable, and so are message contents. *)
Symmetry == Permutations(Callers) \cup Permutations(Tokens)
=============================================================================
