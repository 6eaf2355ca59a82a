---------------------------- MODULE MCShareMounts ----------------------------
(* Instances of ShareMounts for TLC. *)
EXTENDS ShareMounts, TLC

(* Threads, shares and credentials are interchangeable. *)
Symmetry ==
  Permutations(Users) \cup Permutations(Browsers)
    \cup Permutations(Shares) \cup Permutations(Creds)
=============================================================================
