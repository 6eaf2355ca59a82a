----------------------------- MODULE SavedShares -----------------------------
(***************************************************************************)
(* What saving the shares promises, with nothing of keys, vectors and      *)
(* files: a start finds the shares as some earlier state of the last run   *)
(* had them, whole, and never older than what was saved before.            *)
(***************************************************************************)
EXTENDS Naturals, Sequences

CONSTANTS None, Shares, Contents

VARIABLES
  up,      \* whether the process has started
  shares,  \* what it knows
  pending, \* what it knew since the last save, oldest first
  saved    \* what the next start will find

vars == <<up, shares, pending, saved>>

Maps == [Shares -> Contents \cup {None}]
Nothing == [s \in Shares |-> None]

Init ==
  /\ up = FALSE
  /\ shares = Nothing
  /\ pending = <<>>
  /\ saved = Nothing

Start ==
  /\ ~ up
  /\ up' = TRUE
  /\ shares' = saved
  /\ UNCHANGED <<pending, saved>>

Change ==
  /\ up
  /\ shares' \in Maps
  /\ pending' = Append(pending, shares')
  /\ UNCHANGED <<up, saved>>

Save ==
  /\ pending # <<>>
  /\ saved' = Head(pending)
  /\ pending' = Tail(pending)
  /\ UNCHANGED <<up, shares>>

Skip ==
  /\ pending # <<>>
  /\ pending' = Tail(pending)
  /\ UNCHANGED <<up, shares, saved>>

Stop ==
  /\ up
  /\ up' = FALSE
  /\ shares' = Nothing
  /\ pending' = <<>>
  /\ UNCHANGED saved

Next == Start \/ Change \/ Save \/ Skip \/ Stop

Spec == Init /\ [][Next]_vars
=============================================================================
