------------------------------- MODULE SmbRpc -------------------------------
(***************************************************************************)
(* What the native facade promises the threads that use it: a call to      *)
(* SmbFacade, SmbDir, SmbFile or CredentialCache is executed exactly once  *)
(* on the Samba thread, and the call returns the outcome of that execution *)
(* and of no other.  The module says nothing of how a request travels to   *)
(* the Samba thread; MessageBridge does, and implements this one.          *)
(***************************************************************************)
EXTENDS SmbReply

CONSTANT Clients   \* the threads that call the facade

VARIABLES
  phase,    \* phase[c]: "idle", or c has "called", or its call is "executed"
  kind,     \* kind[c]: the kind of c's latest call
  outcome,  \* outcome[c]: what executing c's latest call gave, or None
  got       \* got[c]: what c's latest call returned, None before it returns

vars == <<phase, kind, outcome, got>>

Init ==
  /\ phase = [c \in Clients |-> "idle"]
  /\ kind = [c \in Clients |-> "ignore"]
  /\ outcome = [c \in Clients |-> None]
  /\ got = [c \in Clients |-> None]

Call(c, k) ==
  /\ phase[c] = "idle"
  /\ phase' = [phase EXCEPT ![c] = "called"]
  /\ kind' = [kind EXCEPT ![c] = k]
  /\ outcome' = [outcome EXCEPT ![c] = None]
  /\ got' = [got EXCEPT ![c] = None]

Execute(c, o) ==
  /\ phase[c] = "called"
  /\ phase' = [phase EXCEPT ![c] = "executed"]
  /\ outcome' = [outcome EXCEPT ![c] = o]
  /\ UNCHANGED <<kind, got>>

Return(c) ==
  /\ phase[c] = "executed"
  /\ phase' = [phase EXCEPT ![c] = "idle"]
  /\ got' = [got EXCEPT ![c] = Seen(kind[c], outcome[c])]
  /\ UNCHANGED <<kind, outcome>>

ExecuteAny(c) == \E o \in Outcomes(kind[c]) : Execute(c, o)

Next ==
  \E c \in Clients :
    \/ \E k \in Kinds : Call(c, k)
    \/ ExecuteAny(c)
    \/ Return(c)

(* A thread may never call again, but a call that is made is served. *)
Fairness ==
  \A c \in Clients : WF_vars(ExecuteAny(c)) /\ WF_vars(Return(c))

Safe == Init /\ [][Next]_vars

Spec == Safe /\ Fairness
=============================================================================
