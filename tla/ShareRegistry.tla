---------------------------- MODULE ShareRegistry ----------------------------
(***************************************************************************)
(* What ShareManager promises: a registry of shares whose operations take  *)
(* effect at one moment between their call and their return, all or        *)
(* nothing, whatever the checks, the saving and the crashes in between.    *)
(***************************************************************************)
EXTENDS CredentialCache

CONSTANT Users   \* the activities and binder threads that use the registry

(* What is kept of a share. *)
Tuples == [cred : Credentials, mounted : BOOLEAN]

(* addServer(share, cred, mount, updateExisting) and unmountServer(share). *)
AddOps == [type : {"add"}, share : Shares, tuple : Tuples, update : BOOLEAN]
Unmount(s) == [type |-> "unmount", share |-> s]
Ops == AddOps \cup {Unmount(s) : s \in Shares}

Results == {"ok", "failed", "illegal", None}

VARIABLES
  registry,  \* registry[s]: the tuple of share s, or None
  saved,     \* what of it a crash would leave
  phase,     \* phase[u]: "idle", or u's operation is "called", or "done"
  op,        \* op[u]: the operation of u, or None
  result     \* result[u]: how it ended

vars == <<registry, saved, phase, op, result>>

Init ==
  /\ registry = [s \in Shares |-> None]
  /\ saved = registry
  /\ phase = [u \in Users |-> "idle"]
  /\ op = [u \in Users |-> None]
  /\ result = [u \in Users |-> None]

Call(u, o) ==
  /\ phase[u] = "idle"
  /\ phase' = [phase EXCEPT ![u] = "called"]
  /\ op' = [op EXCEPT ![u] = o]
  /\ UNCHANGED <<registry, saved, result>>

Done(u, r) ==
  /\ phase[u] = "called"
  /\ phase' = [phase EXCEPT ![u] = "done"]
  /\ result' = [result EXCEPT ![u] = r]
  /\ UNCHANGED <<saved, op>>

IsMounted(s) == registry[s] # None /\ registry[s].mounted

(* Only a mounted share can be updated, and only another one added. *)
Allowed(o) == o.update <=> IsMounted(o.share)

Add(u) ==
  /\ Done(u, "ok")
  /\ op[u] \in AddOps
  /\ Allowed(op[u])
  /\ registry' = [registry EXCEPT ![op[u].share] = op[u].tuple]

Refuse(u) ==
  /\ Done(u, "illegal")
  /\ op[u] \in AddOps
  /\ ~ Allowed(op[u])
  /\ UNCHANGED registry

Fail(u) ==
  /\ Done(u, "failed")
  /\ op[u] \in AddOps
  /\ Allowed(op[u])
  /\ UNCHANGED registry

Drop(u) ==
  /\ Done(u, "ok")
  /\ op[u] = Unmount(op[u].share)
  /\ registry' = [registry EXCEPT ![op[u].share] = None]

Return(u) ==
  /\ phase[u] = "done"
  /\ phase' = [phase EXCEPT ![u] = "idle"]
  /\ op' = [op EXCEPT ![u] = None]
  /\ result' = [result EXCEPT ![u] = None]
  /\ UNCHANGED <<registry, saved>>

(* Whoever cancels an addition, before or after it took effect, drops it;  *)
(* one that has failed is over.                                            *)
Cancel(u) ==
  /\ phase[u] \in {"called", "done"}
  /\ op[u] \in AddOps
  /\ result[u] \in {None, "ok"}
  /\ phase' = [phase EXCEPT ![u] = "called"]
  /\ op' = [op EXCEPT ![u] = Unmount(op[u].share)]
  /\ result' = [result EXCEPT ![u] = None]
  /\ UNCHANGED <<registry, saved>>

Save ==
  /\ saved' = registry
  /\ UNCHANGED <<registry, phase, op, result>>

Crash ==
  /\ registry' = saved
  /\ phase' = [u \in Users |-> "idle"]
  /\ op' = [u \in Users |-> None]
  /\ result' = [u \in Users |-> None]
  /\ UNCHANGED saved

Next ==
  \/ \E u \in Users :
       \/ \E o \in Ops : Call(u, o)
       \/ Add(u) \/ Refuse(u) \/ Fail(u) \/ Drop(u)
       \/ Return(u)
       \/ Cancel(u)
  \/ Save
  \/ Crash

Spec == Init /\ [][Next]_vars
=============================================================================
