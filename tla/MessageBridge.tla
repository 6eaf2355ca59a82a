--------------------------- MODULE MessageBridge ---------------------------
(***************************************************************************)
(* The bridge between the threads of the app and the one thread that may   *)
(* use libsmbclient (nativefacade/): a caller obtains a MessageValues from *)
(* a pool, sends a message that carries it to the looper of                *)
(* SambaMessageLooper, waits on its monitor, reads the reply out of it and *)
(* recycles it.  Java monitors are modelled as such: wait() releases the   *)
(* monitor, notify() makes the waiter runnable, and the waiter has to take *)
(* the monitor again before it goes on.                                    *)
(***************************************************************************)
EXTENDS SmbReply, Naturals, Sequences, FiniteSets

CONSTANTS
  Clients,          \* the threads that call the facade
  Calls,            \* the kinds of calls they make
  Holders,          \* the MessageValues instances there can be
  PoolSize,         \* the capacity of MessageValues.POOL (20 in the code)
  SpuriousWakeups   \* bound: how often wait() returns without a notify()

Looper == "SambaMessageLooper"

ASSUME BridgeAssumption ==
  /\ Calls \subseteq Kinds
  /\ IsFiniteSet(Clients) /\ IsFiniteSet(Holders)
  /\ PoolSize \in Nat
  /\ SpuriousWakeups \in Nat
  /\ Cardinality(Holders) > Cardinality(Clients) + SpuriousWakeups
  /\ None \notin Holders \cup Clients
  /\ Looper \notin Clients

VARIABLES
  pc,       \* pc[c]: where c is in its call
  kind,     \* kind[c]: how c consumes the reply of its call
  held,     \* held[c]: the MessageValues of c's call, or None
  fields,   \* fields[m]: the reply m carries (arguments are not modelled)
  pool,     \* MessageValues.POOL
  monitor,  \* monitor[m]: the thread in synchronized(m), or None
  queue,    \* the looper's MessageQueue
  looper,   \* [at, msg]: where the looper is, and the message it handles
  outcome,  \* history: what the native operation of c's latest call gave
  got,      \* got[c]: what c's latest call returned or threw, None before
  spurious  \* how often wait() has returned without a notify()

vars == <<pc, kind, held, fields, pool, monitor, queue, looper, outcome, got,
          spurious>>

Empty == [obj |-> None, exception |-> FALSE, runtimeException |-> FALSE]

NoMessage == [client |-> None, obj |-> None, kind |-> "ignore"]

ClientStates == {"idle", "obtained", "locked", "sent", "waiting", "notified",
                 "resumed", "read", "cleared"}

LooperStates == {"next", "dispatch", "locked", "processed", "notified"}

Message == [client : Clients, obj : Holders, kind : Kinds]

TypeOK ==
  /\ pc \in [Clients -> ClientStates]
  /\ kind \in [Clients -> Kinds]
  /\ held \in [Clients -> Holders \cup {None}]
  /\ fields \in [Holders -> [obj : Values \cup {None},
                             exception : BOOLEAN,
                             runtimeException : BOOLEAN]]
  /\ pool \in SUBSET Holders
  /\ monitor \in [Holders -> Clients \cup {Looper, None}]
  /\ queue \in Seq(Message)
  /\ looper \in [at : LooperStates, msg : Message \cup {NoMessage}]
  /\ outcome \in [Clients -> Values \cup Exceptions \cup {"done", None}]
  /\ got \in [Clients -> Values \cup Exceptions \cup {"done", None}]
  /\ spurious \in 0 .. SpuriousWakeups
  /\ \A c \in Clients : pc[c] = "idle" <=> held[c] = None
  /\ looper.at = "next" <=> looper.msg = NoMessage

Init ==
  /\ pc = [c \in Clients |-> "idle"]
  /\ kind = [c \in Clients |-> "ignore"]
  /\ held = [c \in Clients |-> None]
  /\ fields = [m \in Holders |-> Empty]
  /\ pool = {}
  /\ monitor = [m \in Holders |-> None]
  /\ queue = <<>>
  /\ looper = [at |-> "next", msg |-> NoMessage]
  /\ outcome = [c \in Clients |-> None]
  /\ got = [c \in Clients |-> None]
  /\ spurious = 0

-----------------------------------------------------------------------------
(* MessageValues *)

(* The instances somebody still refers to; any other has been collected. *)
Referenced ==
  pool \cup {held[c] : c \in Clients}
       \cup {queue[i].obj : i \in DOMAIN queue} \cup {looper.msg.obj}

(* What setObj, setInt, setLong, setException or setRuntimeException stores. *)
SetOutcome(values, o) ==
  CASE o \in Values             -> [values EXCEPT !.obj = o]
    [] o = "IOException"        -> [values EXCEPT !.exception = TRUE]
    [] o = "RuntimeException"   -> [values EXCEPT !.runtimeException = TRUE]
    [] OTHER                    -> values

(* Mutant: a getter that does not call checkException. *)
ReplyUnchecked(k, values) == IF k = "value" THEN values.obj ELSE "done"

(* What a caller that consumes the reply as k gets: checkException first. *)
Reply(k, values) ==
  IF k = "ignore" THEN "done"
  ELSE IF values.exception THEN "IOException"
  ELSE IF values.runtimeException THEN "RuntimeException"
  ELSE IF k = "value" THEN values.obj ELSE "done"

(***************************************************************************)
(* A call begins: MessageValues.obtain() takes an instance from the pool,  *)
(* or makes one when the pool is empty.                                    *)
(***************************************************************************)
Obtain(c, k) ==
  /\ pc[c] = "idle"
  /\ \E m \in IF pool # {} THEN pool ELSE Holders \ Referenced :
       /\ held' = [held EXCEPT ![c] = m]
       /\ fields' = IF m \in pool THEN fields ELSE [fields EXCEPT ![m] = Empty]
       /\ pool' = pool \ {m}
  /\ pc' = [pc EXCEPT ![c] = "obtained"]
  /\ kind' = [kind EXCEPT ![c] = k]
  /\ outcome' = [outcome EXCEPT ![c] = None]
  /\ got' = [got EXCEPT ![c] = None]
  /\ UNCHANGED <<monitor, queue, looper, spurious>>

(* Mutant: close() forgets one of the fields. *)
ClearKeepsException(c) ==
  /\ pc[c] = "read"
  /\ fields' = [fields EXCEPT ![held[c]].obj = None, ![held[c]].exception = FALSE]
  /\ pc' = [pc EXCEPT ![c] = "cleared"]
  /\ UNCHANGED <<kind, held, pool, monitor, queue, looper, outcome, got, spurious>>

(* close(), first part: every field is cleared. *)
Clear(c) ==
  /\ pc[c] = "read"
  /\ fields' = [fields EXCEPT ![held[c]] = Empty]
  /\ pc' = [pc EXCEPT ![c] = "cleared"]
  /\ UNCHANGED <<kind, held, pool, monitor, queue, looper, outcome, got, spurious>>

(* Mutant: the caller still refers to what it has recycled. *)
ReleaseKeepsHeld(c) ==
  /\ pc[c] = "cleared"
  /\ pool' = IF Cardinality(pool) < PoolSize THEN pool \cup {held[c]} ELSE pool
  /\ pc' = [pc EXCEPT ![c] = "idle"]
  /\ UNCHANGED <<kind, held, fields, monitor, queue, looper, outcome, got, spurious>>

(* close(), last line: POOL.release keeps the instance unless it is full. *)
Release(c) ==
  /\ pc[c] = "cleared"
  /\ pool' = IF Cardinality(pool) < PoolSize THEN pool \cup {held[c]} ELSE pool
  /\ held' = [held EXCEPT ![c] = None]
  /\ pc' = [pc EXCEPT ![c] = "idle"]
  /\ UNCHANGED <<kind, fields, monitor, queue, looper, outcome, got, spurious>>

-----------------------------------------------------------------------------
(* BaseClient.enqueue *)

(* Mutant: the message is sent outside synchronized(messageValues). *)
EnterNoMonitor(c) ==
  /\ pc[c] = "obtained"
  /\ pc' = [pc EXCEPT ![c] = "locked"]
  /\ UNCHANGED <<kind, held, fields, pool, monitor, queue, looper, outcome, got, spurious>>

EnterMonitor(c) ==
  /\ pc[c] = "obtained"
  /\ monitor[held[c]] = None
  /\ monitor' = [monitor EXCEPT ![held[c]] = c]
  /\ pc' = [pc EXCEPT ![c] = "locked"]
  /\ UNCHANGED <<kind, held, fields, pool, queue, looper, outcome, got, spurious>>

SendMessage(c) ==
  /\ pc[c] = "locked"
  /\ queue' = Append(queue, [client |-> c, obj |-> held[c], kind |-> kind[c]])
  /\ pc' = [pc EXCEPT ![c] = "sent"]
  /\ UNCHANGED <<kind, held, fields, pool, monitor, looper, outcome, got, spurious>>

(* Mutant: enqueue does not wait for the answer. *)
DoNotWait(c) ==
  /\ pc[c] = "sent"
  /\ monitor' = [monitor EXCEPT ![held[c]] = None]
  /\ pc' = [pc EXCEPT ![c] = "resumed"]
  /\ UNCHANGED <<kind, held, fields, pool, queue, looper, outcome, got, spurious>>

Wait(c) ==
  /\ pc[c] = "sent"
  /\ monitor' = [monitor EXCEPT ![held[c]] = None]
  /\ pc' = [pc EXCEPT ![c] = "waiting"]
  /\ UNCHANGED <<kind, held, fields, pool, queue, looper, outcome, got, spurious>>

(* The platform lets wait() return for no reason; enqueue does not check. *)
WakeSpuriously(c) ==
  /\ spurious < SpuriousWakeups
  /\ pc[c] = "waiting"
  /\ spurious' = spurious + 1
  /\ pc' = [pc EXCEPT ![c] = "notified"]
  /\ UNCHANGED <<kind, held, fields, pool, monitor, queue, looper, outcome, got>>

(* wait() returns with the monitor, and enqueue leaves it at once.  It throws *)
(* InterruptedException only when the thread is interrupted, which enqueue    *)
(* says should never happen: no code of the application interrupts a thread.  *)
Resume(c) ==
  /\ pc[c] = "notified"
  /\ monitor[held[c]] = None
  /\ pc' = [pc EXCEPT ![c] = "resumed"]
  /\ UNCHANGED <<kind, held, fields, pool, monitor, queue, looper, outcome, got, spurious>>

(* getObj, getInt, getLong or checkException, or none of them. *)
ReadReply(c) ==
  /\ pc[c] = "resumed"
  /\ got' = [got EXCEPT ![c] = Reply(kind[c], fields[held[c]])]
  /\ pc' = [pc EXCEPT ![c] = "read"]
  /\ UNCHANGED <<kind, held, fields, pool, monitor, queue, looper, outcome, spurious>>

-----------------------------------------------------------------------------
(* The looper and BaseHandler.handleMessage *)

(* Looper.loop takes the oldest message. *)
Dispatch ==
  /\ looper.at = "next"
  /\ queue # <<>>
  /\ looper' = [at |-> "dispatch", msg |-> Head(queue)]
  /\ queue' = Tail(queue)
  /\ UNCHANGED <<pc, kind, held, fields, pool, monitor, outcome, got, spurious>>

HandlerEnterMonitor ==
  /\ looper.at = "dispatch"
  /\ monitor[looper.msg.obj] = None
  /\ monitor' = [monitor EXCEPT ![looper.msg.obj] = Looper]
  /\ looper' = [looper EXCEPT !.at = "locked"]
  /\ UNCHANGED <<pc, kind, held, fields, pool, queue, outcome, got, spurious>>

(* processMessage runs the native operation and stores what it gave. *)
ProcessMessage ==
  /\ looper.at = "locked"
  /\ \E o \in Outcomes(looper.msg.kind) :
       /\ fields' = [fields EXCEPT ![looper.msg.obj] = SetOutcome(@, o)]
       /\ outcome' = [outcome EXCEPT ![looper.msg.client] = o]
  /\ looper' = [looper EXCEPT !.at = "processed"]
  /\ UNCHANGED <<pc, kind, held, pool, monitor, queue, got, spurious>>

(* The threads in wait() on m. *)
WaitersOn(m) == {c \in Clients : pc[c] = "waiting" /\ held[c] = m}

(* Mutant: handleMessage does not notify. *)
DoNotNotify ==
  /\ looper.at = "processed"
  /\ looper' = [looper EXCEPT !.at = "notified"]
  /\ UNCHANGED <<pc, kind, held, fields, pool, monitor, queue, outcome, got, spurious>>

(* notify() wakes one thread that waits on the holder, if there is one. *)
Notify ==
  /\ looper.at = "processed"
  /\ IF WaitersOn(looper.msg.obj) = {}
     THEN pc' = pc
     ELSE \E c \in WaitersOn(looper.msg.obj) : pc' = [pc EXCEPT ![c] = "notified"]
  /\ looper' = [looper EXCEPT !.at = "notified"]
  /\ UNCHANGED <<kind, held, fields, pool, monitor, queue, outcome, got, spurious>>

HandlerLeaveMonitor ==
  /\ looper.at = "notified"
  /\ monitor' = [monitor EXCEPT ![looper.msg.obj] = None]
  /\ looper' = [at |-> "next", msg |-> NoMessage]
  /\ UNCHANGED <<pc, kind, held, fields, pool, queue, outcome, got, spurious>>

-----------------------------------------------------------------------------
LooperStep ==
  \/ Dispatch
  \/ HandlerEnterMonitor
  \/ ProcessMessage
  \/ Notify
  \/ HandlerLeaveMonitor

(* The steps that finish a call once it has begun. *)
CallStep(c) ==
  \/ EnterMonitor(c)
  \/ SendMessage(c)
  \/ Wait(c)
  \/ Resume(c)
  \/ ReadReply(c)
  \/ Clear(c)
  \/ Release(c)

Next ==
  \/ \E c \in Clients :
       \/ \E k \in Calls : Obtain(c, k)
       \/ CallStep(c)
       \/ WakeSpuriously(c)
  \/ LooperStep

(***************************************************************************)
(* Threads that can run do run, and a native operation returns.  Nothing   *)
(* makes a thread call the facade again.                                   *)
(***************************************************************************)
Fairness ==
  /\ WF_vars(LooperStep)
  /\ \A c \in Clients : WF_vars(CallStep(c))

Safe == Init /\ [][Next]_vars

Spec == Safe /\ Fairness

-----------------------------------------------------------------------------
(***************************************************************************)
(* A MessageValues serves one call at a time: no two threads hold the same *)
(* one, and one that has been recycled is neither held nor referred to by  *)
(* a message that is queued or being handled.  enqueue and close() keep    *)
(* this although the pool never checks who still uses an instance.         *)
(***************************************************************************)
HolderExclusive ==
  /\ \A c, d \in Clients : held[c] = held[d] => c = d \/ held[c] = None
  /\ \A c \in Clients : held[c] \notin pool
  /\ \A i \in DOMAIN queue : queue[i].obj \notin pool
  /\ looper.msg.obj \notin pool

(***************************************************************************)
(* A call starts with a MessageValues that carries nothing: close() has    *)
(* cleared the reply and the exceptions of the call that used it before.   *)
(***************************************************************************)
StartsClean ==
  /\ \A m \in pool : fields[m] = Empty
  /\ \A c \in Clients :
       pc[c] \in {"obtained", "locked"} => fields[held[c]] = Empty

(* The message of c's present call, which the looper has yet to answer. *)
InFlight(c) ==
  \/ \E i \in DOMAIN queue : queue[i].client = c /\ queue[i].obj = held[c]
  \/ /\ looper.msg.client = c /\ looper.msg.obj = held[c]
     /\ looper.at \in {"dispatch", "locked", "processed"}

(***************************************************************************)
(* No wakeup is lost: whoever is in wait() has sent a message, with the    *)
(* MessageValues on whose monitor it waits, that the looper has still to   *)
(* answer with a notify().  This is why enqueue sends inside the monitor.  *)
(***************************************************************************)
NoLostWakeup == \A c \in Clients : pc[c] = "waiting" => InFlight(c)

(***************************************************************************)
(* A call returns, or throws, what its own execution on the Samba thread   *)
(* gave, whatever the other threads did with the pool in the meantime.     *)
(***************************************************************************)
OwnReply ==
  \A c \in Clients :
    pc[c] \in {"read", "cleared"} => got[c] = Seen(kind[c], outcome[c])

(***************************************************************************)
(* A call that is made ends, even when wait() returns before its time and  *)
(* the MessageValues of a message still queued is already in other hands.  *)
(***************************************************************************)
CallsReturn == \A c \in Clients : pc[c] # "idle" ~> pc[c] = "idle"

(* Where the abstract facade sees c: a call ends when its reply is read. *)
Phase(c) ==
  IF pc[c] \in {"idle", "read", "cleared"} THEN "idle"
  ELSE IF outcome[c] # None THEN "executed" ELSE "called"

Rpc == INSTANCE SmbRpc WITH phase <- [c \in Clients |-> Phase(c)]

(***************************************************************************)
(* The bridge is a facade whose calls are executed exactly once and return *)
(* their own outcome, and every call that is made returns.                 *)
(***************************************************************************)
ImplementsRpc == Rpc!Spec
=============================================================================
