-------------------------- MODULE MCDirectoryListing --------------------------
(* Instances of DirectoryListing for TLC. *)
EXTENDS DirectoryListing, TLC

(* Clients, names and coroutines are interchangeable in safety properties. *)
Symmetry == Permutations(Readers) \cup Permutations(Files) \cup Permutations(Jobs)
=============================================================================
