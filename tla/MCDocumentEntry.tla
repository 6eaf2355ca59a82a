--------------------------- MODULE MCDocumentEntry ---------------------------
(* Instances of DocumentEntry for TLC. *)
EXTENDS DocumentEntry, TLC

(* Threads, coroutines and objects are interchangeable. *)
Symmetry == Permutations(Callers) \cup Permutations(Jobs) \cup Permutations(Objects)
=============================================================================
