-------------------------- MODULE MCMessageBridge --------------------------
(* Instances of MessageBridge for TLC. *)
EXTENDS MessageBridge, TLC

(* Threads, holders and values are interchangeable in every safety property. *)
Symmetry == Permutations(Clients) \cup Permutations(Holders) \cup Permutations(Values)
=============================================================================
