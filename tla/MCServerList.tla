----------------------------- MODULE MCServerList -----------------------------
(* Instances of ServerList, and so of ShareMounts, for TLC. *)
EXTENDS ServerList, TLC

(* Threads, shares and credentials are interchangeable. *)
Symmetry ==
  Permutations(Users) \cup Permutations(Browsers)
    \cup Permutations(Shares) \cup Permutations(Creds)
=============================================================================
