------------------------ MODULE MessageBridgeProofs ------------------------
(***************************************************************************)
(* What holds of MessageBridge for any number of threads, any pool size    *)
(* and any values.  TypeOK and NoLostWakeup hold however often wait()      *)
(* returns for no reason; the other invariants need that it returns only   *)
(* when it has been notified.                                              *)
(***************************************************************************)
EXTENDS MessageBridge, SequenceTheorems, TLAPS

-----------------------------------------------------------------------------
(* The inductive invariant. *)

(* The MessageValues of a thread in a call is its own. *)
Holding ==
  /\ \A c, d \in Clients : held[c] = held[d] => c = d \/ held[c] = None
  /\ \A c \in Clients : held[c] \notin pool

(* Who is in synchronized(m). *)
Monitors ==
  /\ \A c \in Clients : pc[c] \in {"locked", "sent"} => monitor[held[c]] = c
  /\ \A m \in Holders, c \in Clients :
       monitor[m] = c => pc[c] \in {"locked", "sent"} /\ held[c] = m
  /\ looper.at \in {"locked", "processed", "notified"} =>
       monitor[looper.msg.obj] = Looper

(* Who has sent a message and was not woken has that message under way. *)
Sent == \A c \in Clients : pc[c] \in {"sent", "waiting"} => InFlight(c)

(***************************************************************************)
(* What no early return of wait() disturbs: then messages of calls that    *)
(* have ended are still under way, with holders that others have obtained, *)
(* but their notify() wakes a thread only as its own would.                *)
(***************************************************************************)
Waking == TypeOK /\ Holding /\ Monitors /\ Sent

(* m is the message of a thread that has sent it and not been answered. *)
Pending(m) ==
  /\ pc[m.client] \in {"sent", "waiting"}
  /\ held[m.client] = m.obj
  /\ kind[m.client] = m.kind

(* Every queued message is pending, and a thread has one message at most. *)
Queued ==
  /\ \A i \in DOMAIN queue :
       Pending(queue[i]) /\ queue[i].client # looper.msg.client
  /\ \A i, j \in DOMAIN queue : queue[i].client = queue[j].client => i = j

(* The message being handled: its thread waits until it is notified. *)
Handled ==
  /\ looper.at = "dispatch" => Pending(looper.msg)
  /\ looper.at \in {"locked", "processed"} =>
       Pending(looper.msg) /\ pc[looper.msg.client] = "waiting"
  /\ looper.at = "notified" =>
       /\ pc[looper.msg.client] = "notified"
       /\ held[looper.msg.client] = looper.msg.obj

(* The native operation of c's call has run. *)
Executed(c) ==
  \/ pc[c] \in {"notified", "resumed", "read"}
  \/ pc[c] = "waiting" /\ looper.msg.client = c /\ looper.at = "processed"

(* A holder carries nothing before its operation, and its outcome after. *)
Carried ==
  /\ \A m \in pool : fields[m] = Empty
  /\ \A c \in Clients :
       IF Executed(c)
       THEN /\ outcome[c] \in Outcomes(kind[c])
            /\ fields[held[c]] = SetOutcome(Empty, outcome[c])
       ELSE /\ held[c] # None => fields[held[c]] = Empty
            /\ pc[c] \in {"obtained", "locked", "sent", "waiting"} =>
                 outcome[c] = None
  /\ OwnReply

IInv == Waking /\ Queued /\ Handled /\ Carried

-----------------------------------------------------------------------------
(* Type correctness. *)

LEMMA TypeInit == Init => TypeOK
  <1>1. <<>> \in Seq(Message)
    OBVIOUS
  <1> QED
    BY <1>1, BridgeAssumption
       DEF Init, TypeOK, ClientStates, LooperStates, Kinds, Empty

LEMMA SetOutcomeType ==
  ASSUME NEW v \in [obj : Values \cup {None}, exception : BOOLEAN,
                    runtimeException : BOOLEAN],
         NEW o
  PROVE  SetOutcome(v, o) \in [obj : Values \cup {None}, exception : BOOLEAN,
                               runtimeException : BOOLEAN]
  BY DEF SetOutcome

LEMMA ReplyType ==
  ASSUME NEW k,
         NEW v \in [obj : Values \cup {None}, exception : BOOLEAN,
                    runtimeException : BOOLEAN]
  PROVE  Reply(k, v) \in Values \cup Exceptions \cup {"done", None}
  BY DEF Reply, Exceptions

LEMMA TypeNext == TypeOK /\ [Next]_vars => TypeOK'
  <1> SUFFICES ASSUME TypeOK, [Next]_vars
               PROVE  TypeOK'
    OBVIOUS
  <1> USE DEF TypeOK, ClientStates, LooperStates
  <1>1. ASSUME NEW c \in Clients, NEW k \in Kinds, Obtain(c, k)
        PROVE  TypeOK'
    <2>1. PICK m \in Holders :
             /\ held' = [held EXCEPT ![c] = m]
             /\ fields' = IF m \in pool THEN fields
                                        ELSE [fields EXCEPT ![m] = Empty]
             /\ pool' = pool \ {m}
      BY <1>1 DEF Obtain
    <2>2. Empty \in [obj : Values \cup {None}, exception : BOOLEAN,
                    runtimeException : BOOLEAN]
      BY DEF Empty
    <2> QED
      BY <1>1, <2>1, <2>2, BridgeAssumption DEF Obtain
  <1>2. ASSUME NEW c \in Clients, Clear(c)
        PROVE  TypeOK'
    BY <1>2 DEF Clear, Empty
  <1>3. ASSUME NEW c \in Clients, Release(c)
        PROVE  TypeOK'
    BY <1>3 DEF Release
  <1>4. ASSUME NEW c \in Clients, EnterMonitor(c)
        PROVE  TypeOK'
    BY <1>4 DEF EnterMonitor
  <1>5. ASSUME NEW c \in Clients, SendMessage(c)
        PROVE  TypeOK'
    BY <1>5 DEF SendMessage, Message
  <1>6. ASSUME NEW c \in Clients, Wait(c)
        PROVE  TypeOK'
    BY <1>6 DEF Wait
  <1>7. ASSUME NEW c \in Clients, WakeSpuriously(c)
        PROVE  TypeOK'
    BY <1>7, BridgeAssumption DEF WakeSpuriously
  <1>8. ASSUME NEW c \in Clients, Resume(c)
        PROVE  TypeOK'
    BY <1>8 DEF Resume
  <1>9. ASSUME NEW c \in Clients, ReadReply(c)
        PROVE  TypeOK'
    BY <1>9, ReplyType DEF ReadReply
  <1>10. CASE Dispatch
    <2>1. Head(queue) \in Message /\ Tail(queue) \in Seq(Message)
      BY <1>10 DEF Dispatch
    <2>2. Head(queue) # NoMessage
      BY <2>1, BridgeAssumption DEF Message, NoMessage
    <2> QED
      BY <1>10, <2>1, <2>2 DEF Dispatch
  <1>11. CASE HandlerEnterMonitor
    BY <1>11 DEF HandlerEnterMonitor
  <1>12. CASE ProcessMessage
    <2>1. looper.msg \in Message
      BY <1>12 DEF ProcessMessage
    <2>2. PICK o \in Outcomes(looper.msg.kind) :
             /\ fields' = [fields EXCEPT ![looper.msg.obj] = SetOutcome(@, o)]
             /\ outcome' = [outcome EXCEPT ![looper.msg.client] = o]
      BY <1>12 DEF ProcessMessage
    <2>3. looper.msg.obj \in Holders /\ looper.msg.client \in Clients
      BY <2>1 DEF Message
    <2>4. o \in Values \cup Exceptions \cup {"done", None}
      BY <2>2 DEF Outcomes
    <2>5. SetOutcome(fields[looper.msg.obj], o)
            \in [obj : Values \cup {None}, exception : BOOLEAN,
                runtimeException : BOOLEAN]
      BY <2>3, SetOutcomeType
    <2> QED
      BY <1>12, <2>2, <2>3, <2>4, <2>5 DEF ProcessMessage
  <1>13. CASE Notify
    BY <1>13 DEF Notify, WaitersOn
  <1>14. CASE HandlerLeaveMonitor
    BY <1>14 DEF HandlerLeaveMonitor
  <1>15. CASE UNCHANGED vars
    BY <1>15 DEF vars
  <1> QED
    BY <1>1, <1>2, <1>3, <1>4, <1>5, <1>6, <1>7, <1>8, <1>9, <1>10, <1>11,
       <1>12, <1>13, <1>14, <1>15, BridgeAssumption
       DEF Next, CallStep, LooperStep

(* Every state the bridge reaches is well formed, whatever wakes its threads. *)
THEOREM TypeCorrect == Safe => []TypeOK
  BY TypeInit, TypeNext, PTL DEF Safe

-----------------------------------------------------------------------------
(* The inductive invariant is preserved. *)

(* What types say of the threads and holders that the state refers to. *)
LEMMA Facts ==
  ASSUME TypeOK
  PROVE  /\ \A c \in Clients : held[c] # None <=> held[c] \in Holders
         /\ \A c \in Clients : pc[c] # "idle" => held[c] \in Holders
         /\ \A i \in DOMAIN queue :
              queue[i].client \in Clients /\ queue[i].obj \in Holders
         /\ looper.at # "next" =>
              looper.msg.client \in Clients /\ looper.msg.obj \in Holders
         /\ looper.at = "next" => looper.msg.client \notin Clients
         /\ None \notin Holders /\ None \notin Clients /\ Looper \notin Clients
         /\ None # Looper
  <1> USE DEF TypeOK
  <1>1. \A c \in Clients : held[c] # None <=> held[c] \in Holders
    BY BridgeAssumption
  <1>2. \A i \in DOMAIN queue :
          queue[i].client \in Clients /\ queue[i].obj \in Holders
    <2>1. \A i \in DOMAIN queue : queue[i] \in Message
      OBVIOUS
    <2> QED
      BY <2>1 DEF Message
  <1>3. looper.at # "next" => looper.msg \in Message
    OBVIOUS
  <1>4. looper.at = "next" => looper.msg.client = None
    BY DEF NoMessage
  <1> QED
    BY <1>1, <1>2, <1>3, <1>4, BridgeAssumption DEF Message, Looper, None

(* Reading a clean holder that took an outcome gives what it should. *)
LEMMA ReplyIsSeen ==
  ASSUME NEW k \in Kinds, NEW o \in Outcomes(k)
  PROVE  Reply(k, SetOutcome(Empty, o)) = Seen(k, o)
  <1> USE ValuesAssumption DEF Exceptions
  <1>1. CASE o \in Values
    <2>1. SetOutcome(Empty, o) = [Empty EXCEPT !.obj = o]
      BY <1>1 DEF SetOutcome
    <2>2. k # "check"
      BY <1>1 DEF Outcomes
    <2> QED
      BY <2>1, <2>2 DEF Reply, Seen, Empty, Kinds
  <1>2. CASE o = "IOException"
    <2>1. SetOutcome(Empty, o) = [Empty EXCEPT !.exception = TRUE]
      BY <1>2 DEF SetOutcome
    <2> QED
      BY <1>2, <2>1 DEF Reply, Seen, Empty
  <1>3. CASE o = "RuntimeException"
    <2>1. SetOutcome(Empty, o) = [Empty EXCEPT !.runtimeException = TRUE]
      BY <1>3 DEF SetOutcome
    <2> QED
      BY <1>3, <2>1 DEF Reply, Seen, Empty
  <1>4. CASE o = "done" /\ k # "value"
    <2>1. SetOutcome(Empty, o) = Empty
      BY <1>4 DEF SetOutcome
    <2> QED
      BY <1>4, <2>1 DEF Reply, Seen, Empty, Kinds
  <1> QED
    BY <1>1, <1>2, <1>3, <1>4 DEF Outcomes

LEMMA IInvInit == Init => IInv
  <1> SUFFICES ASSUME Init
               PROVE  IInv
    OBVIOUS
  <1>1. TypeOK
    BY TypeInit
  <1> QED
    BY <1>1, BridgeAssumption
       DEF Init, IInv, Waking, Holding, Queued, Handled, Monitors, Sent,
           Carried, OwnReply, Executed, Empty

(* The instance that obtain() gives is nobody's. *)
LEMMA ObtainTakes ==
  ASSUME TypeOK, Holding, NEW c \in Clients, NEW k \in Kinds, Obtain(c, k)
  PROVE  \E m \in Holders :
           /\ held' = [held EXCEPT ![c] = m]
           /\ fields' = IF m \in pool THEN fields ELSE [fields EXCEPT ![m] = Empty]
           /\ pool' = pool \ {m}
           /\ \A d \in Clients : held[d] # m
  <1>1. PICK m \in IF pool # {} THEN pool ELSE Holders \ Referenced :
           /\ held' = [held EXCEPT ![c] = m]
           /\ fields' = IF m \in pool THEN fields ELSE [fields EXCEPT ![m] = Empty]
           /\ pool' = pool \ {m}
    BY DEF Obtain
  <1>2. m \in Holders
    BY <1>1 DEF TypeOK
  <1>3. \A d \in Clients : held[d] # m
    BY <1>1 DEF Holding, Referenced
  <1> QED
    BY <1>1, <1>2, <1>3

(* A step of any thread, an early return of wait() included, keeps Waking. *)
LEMMA WakingNext ==
  ASSUME Waking, [Next]_vars
  PROVE  Waking'
  <1> USE Facts DEF Waking
  <1>1. TypeOK'
    BY TypeNext
  <1>2. ASSUME NEW c \in Clients, NEW k \in Kinds, Obtain(c, k)
        PROVE  Waking'
    <2>0. PICK m \in Holders :
             /\ held' = [held EXCEPT ![c] = m]
             /\ fields' = IF m \in pool THEN fields
                                        ELSE [fields EXCEPT ![m] = Empty]
             /\ pool' = pool \ {m}
             /\ \A d \in Clients : held[d] # m
      BY <1>2, ObtainTakes
    <2>1. Holding'
      BY <1>1, <1>2, <2>0 DEF Obtain, TypeOK, Holding
    <2>2. Monitors'
      BY <1>1, <1>2 DEF Obtain, TypeOK, Monitors
    <2>3. Sent'
      BY <1>1, <1>2 DEF Obtain, TypeOK, Sent, InFlight
    <2> QED
      BY <1>1, <2>1, <2>2, <2>3
  <1>3. ASSUME NEW c \in Clients, Clear(c)
        PROVE  Waking'
    <2>1. Holding'
      BY <1>1, <1>3 DEF Clear, TypeOK, Holding
    <2>2. Monitors'
      BY <1>1, <1>3 DEF Clear, TypeOK, Monitors
    <2>3. Sent'
      BY <1>1, <1>3 DEF Clear, TypeOK, Sent, InFlight
    <2> QED
      BY <1>1, <2>1, <2>2, <2>3
  <1>4. ASSUME NEW c \in Clients, Release(c)
        PROVE  Waking'
    <2>1. Holding'
      <3>1. pool' \subseteq pool \cup {held[c]}
        BY <1>4 DEF Release
      <3> QED
        BY <1>1, <1>4, <3>1 DEF Release, TypeOK, Holding
    <2>2. Monitors'
      BY <1>1, <1>4 DEF Release, TypeOK, Monitors
    <2>3. Sent'
      BY <1>1, <1>4 DEF Release, TypeOK, Sent, InFlight
    <2> QED
      BY <1>1, <2>1, <2>2, <2>3
  <1>5. ASSUME NEW c \in Clients, EnterMonitor(c)
        PROVE  Waking'
    <2>1. Holding'
      BY <1>1, <1>5 DEF EnterMonitor, TypeOK, Holding
    <2>2. Monitors'
      <3>1. \A d \in Clients : d # c => held[d] # held[c]
        BY <1>5 DEF EnterMonitor, Holding
      <3> QED
        BY <1>1, <1>5, <3>1 DEF EnterMonitor, TypeOK, Monitors
    <2>3. Sent'
      BY <1>1, <1>5 DEF EnterMonitor, TypeOK, Sent, InFlight
    <2> QED
      BY <1>1, <2>1, <2>2, <2>3
  <1>6. ASSUME NEW c \in Clients, SendMessage(c)
        PROVE  Waking'
    <2>0. /\ DOMAIN queue = 1 .. Len(queue) /\ Len(queue) \in Nat
          /\ DOMAIN queue' = 1 .. Len(queue) + 1
          /\ \A i \in DOMAIN queue : queue'[i] = queue[i]
          /\ queue'[Len(queue) + 1] =
               [client |-> c, obj |-> held[c], kind |-> kind[c]]
      BY <1>6 DEF SendMessage, TypeOK
    <2>1. Holding'
      BY <1>1, <1>6 DEF SendMessage, TypeOK, Holding
    <2>2. Monitors'
      BY <1>1, <1>6 DEF SendMessage, TypeOK, Monitors
    <2>3. Sent'
      <3>1. \A d \in Clients : InFlight(d) => InFlight(d)'
        BY <1>6, <2>0 DEF SendMessage, InFlight
      <3>2. InFlight(c)'
        BY <1>6, <2>0 DEF SendMessage, InFlight
      <3> QED
        BY <1>6, <3>1, <3>2 DEF SendMessage, TypeOK, Sent
    <2> QED
      BY <1>1, <2>1, <2>2, <2>3
  <1>7. ASSUME NEW c \in Clients, Wait(c)
        PROVE  Waking'
    <2>1. Holding'
      BY <1>1, <1>7 DEF Wait, TypeOK, Holding
    <2>2. Monitors'
      <3>1. \A d \in Clients : d # c => held[d] # held[c]
        BY <1>7 DEF Wait, Holding
      <3> QED
        BY <1>1, <1>7, <3>1 DEF Wait, TypeOK, Monitors
    <2>3. Sent'
      BY <1>1, <1>7 DEF Wait, TypeOK, Sent, InFlight
    <2> QED
      BY <1>1, <2>1, <2>2, <2>3
  <1>8. ASSUME NEW c \in Clients, Resume(c)
        PROVE  Waking'
    <2>1. Holding'
      BY <1>1, <1>8 DEF Resume, TypeOK, Holding
    <2>2. Monitors'
      BY <1>1, <1>8 DEF Resume, TypeOK, Monitors
    <2>3. Sent'
      BY <1>1, <1>8 DEF Resume, TypeOK, Sent, InFlight
    <2> QED
      BY <1>1, <2>1, <2>2, <2>3
  <1>9. ASSUME NEW c \in Clients, ReadReply(c)
        PROVE  Waking'
    <2>1. Holding'
      BY <1>1, <1>9 DEF ReadReply, TypeOK, Holding
    <2>2. Monitors'
      BY <1>1, <1>9 DEF ReadReply, TypeOK, Monitors
    <2>3. Sent'
      BY <1>1, <1>9 DEF ReadReply, TypeOK, Sent, InFlight
    <2> QED
      BY <1>1, <2>1, <2>2, <2>3
  <1>10. CASE Dispatch
    <2>0. /\ DOMAIN queue = 1 .. Len(queue) /\ Len(queue) \in Nat \ {0}
          /\ DOMAIN queue' = 1 .. Len(queue) - 1
          /\ \A i \in DOMAIN queue' :
               i + 1 \in DOMAIN queue /\ queue'[i] = queue[i + 1]
          /\ looper' = [at |-> "dispatch", msg |-> queue[1]]
          /\ 1 \in DOMAIN queue
      BY <1>10 DEF Dispatch, TypeOK
    <2>1. Holding'
      BY <1>1, <1>10 DEF Dispatch, TypeOK, Holding
    <2>2. Monitors'
      BY <1>1, <1>10 DEF Dispatch, TypeOK, Monitors
    <2>3. Sent'
      <3>1. ASSUME NEW d \in Clients, InFlight(d)
            PROVE  InFlight(d)'
        <4>1. PICK i \in DOMAIN queue : queue[i].client = d /\ queue[i].obj = held[d]
          BY <1>10, <3>1 DEF InFlight, Dispatch
        <4>2. CASE i = 1
          BY <1>10, <2>0, <4>1, <4>2 DEF Dispatch, InFlight
        <4>3. CASE i # 1
          <5>1. i - 1 \in DOMAIN queue' /\ queue'[i - 1] = queue[i]
            BY <2>0, <4>3
          <5> QED
            BY <1>10, <4>1, <5>1 DEF Dispatch, InFlight
        <4> QED
          BY <4>2, <4>3
      <3> QED
        BY <1>10, <3>1 DEF Dispatch, Sent
    <2> QED
      BY <1>1, <2>1, <2>2, <2>3
  <1>11. CASE HandlerEnterMonitor
    <2>1. Holding'
      BY <1>1, <1>11 DEF HandlerEnterMonitor, TypeOK, Holding
    <2>2. Monitors'
      <3>1. looper'.msg = looper.msg /\ looper.msg.obj \in Holders
            /\ monitor' = [monitor EXCEPT ![looper.msg.obj] = Looper]
        BY <1>11 DEF HandlerEnterMonitor, TypeOK
      <3>2. \A d \in Clients : monitor[looper.msg.obj] # d
        BY <1>11 DEF HandlerEnterMonitor
      <3>3. \A d \in Clients :
              pc[d] \in {"locked", "sent"} => held[d] # looper.msg.obj
        BY <3>2 DEF Monitors
      <3> QED
        BY <1>11, <3>1, <3>2, <3>3 DEF HandlerEnterMonitor, TypeOK, Monitors
    <2>3. Sent'
      BY <1>1, <1>11 DEF HandlerEnterMonitor, TypeOK, Sent, InFlight
    <2> QED
      BY <1>1, <2>1, <2>2, <2>3
  <1>12. CASE ProcessMessage
    <2>1. Holding'
      BY <1>1, <1>12 DEF ProcessMessage, TypeOK, Holding
    <2>2. Monitors'
      BY <1>1, <1>12 DEF ProcessMessage, TypeOK, Monitors
    <2>3. Sent'
      BY <1>1, <1>12 DEF ProcessMessage, TypeOK, Sent, InFlight
    <2> QED
      BY <1>1, <2>1, <2>2, <2>3
  <1>13. CASE Notify
    <2>0. \A d \in Clients :
            \/ pc'[d] = pc[d] /\ d \notin WaitersOn(looper.msg.obj)
            \/ pc[d] = "waiting" /\ pc'[d] = "notified"
      <3>1. \A d, e \in WaitersOn(looper.msg.obj) : d = e
        BY <1>13 DEF Notify, WaitersOn, Holding
      <3>2. WaitersOn(looper.msg.obj) \subseteq Clients
        BY DEF WaitersOn
      <3>3. CASE WaitersOn(looper.msg.obj) = {}
        BY <1>13, <3>3 DEF Notify
      <3>4. CASE WaitersOn(looper.msg.obj) # {}
        <4>1. PICK e \in WaitersOn(looper.msg.obj) : pc' = [pc EXCEPT ![e] = "notified"]
          BY <1>13, <3>4 DEF Notify
        <4>2. pc[e] = "waiting"
          BY <4>1 DEF WaitersOn
        <4> QED
          BY <3>1, <3>2, <4>1, <4>2 DEF TypeOK
      <3> QED
        BY <3>3, <3>4
    <2>1. Holding'
      BY <1>13 DEF Notify, Holding
    <2>2. Monitors'
      BY <1>13, <2>0 DEF Notify, TypeOK, Monitors
    <2>3. Sent'
      <3>1. looper'.at = "notified" /\ looper'.msg = looper.msg
        BY <1>13 DEF Notify, TypeOK
      <3>2. ASSUME NEW d \in Clients, pc'[d] \in {"sent", "waiting"}
            PROVE  ~ (looper.msg.client = d /\ looper.msg.obj = held[d])
        <4>1. pc[d] = pc'[d] /\ d \notin WaitersOn(looper.msg.obj)
          BY <2>0, <3>2
        <4>2. CASE pc[d] = "waiting"
          BY <4>1, <4>2 DEF WaitersOn
        <4>3. CASE pc[d] = "sent"
          BY <1>13, <4>3 DEF Notify, Monitors
        <4> QED
          BY <3>2, <4>1, <4>2, <4>3
      <3>3. ASSUME NEW d \in Clients, pc'[d] \in {"sent", "waiting"}
            PROVE  InFlight(d)'
        <4>1. InFlight(d)
          BY <2>0, <3>3 DEF Sent
        <4> QED
          BY <1>13, <3>2, <3>3, <4>1 DEF Notify, InFlight
      <3> QED
        BY <3>3 DEF Sent
    <2> QED
      BY <1>1, <2>1, <2>2, <2>3
  <1>14. CASE HandlerLeaveMonitor
    <2>1. Holding'
      BY <1>1, <1>14 DEF HandlerLeaveMonitor, TypeOK, Holding
    <2>2. Monitors'
      <3>1. /\ looper'.at = "next"
            /\ monitor' = [monitor EXCEPT ![looper.msg.obj] = None]
        BY <1>14 DEF HandlerLeaveMonitor
      <3>2. looper.msg.obj \in Holders /\ monitor[looper.msg.obj] = Looper
        BY <1>14 DEF HandlerLeaveMonitor, Monitors
      <3> QED
        BY <1>14, <3>1, <3>2 DEF HandlerLeaveMonitor, TypeOK, Monitors
    <2>3. Sent'
      BY <1>1, <1>14 DEF HandlerLeaveMonitor, TypeOK, Sent, InFlight
    <2> QED
      BY <1>1, <2>1, <2>2, <2>3
  <1>15. CASE UNCHANGED vars
    BY <1>1, <1>15 DEF vars, Holding, Monitors, Sent, InFlight
  <1>16. ASSUME NEW c \in Clients, WakeSpuriously(c)
        PROVE  Waking'
    <2>1. Holding'
      BY <1>1, <1>16 DEF WakeSpuriously, TypeOK, Holding
    <2>2. Monitors'
      BY <1>1, <1>16 DEF WakeSpuriously, TypeOK, Monitors
    <2>3. Sent'
      BY <1>1, <1>16 DEF WakeSpuriously, TypeOK, Sent, InFlight
    <2> QED
      BY <1>1, <2>1, <2>2, <2>3
  <1> QED
    BY <1>2, <1>3, <1>4, <1>5, <1>6, <1>7, <1>8, <1>9, <1>10, <1>11, <1>12,
       <1>13, <1>14, <1>15, <1>16, BridgeAssumption
       DEF Next, CallStep, LooperStep

LEMMA IInvNext ==
  ASSUME SpuriousWakeups = 0, IInv, [Next]_vars
  PROVE  IInv'
  <1> USE Facts DEF IInv, Waking
  <1>1. Waking'
    BY WakingNext
  <1>2. ASSUME NEW c \in Clients, NEW k \in Kinds, Obtain(c, k)
        PROVE  IInv'
    <2>0. PICK m \in Holders :
             /\ held' = [held EXCEPT ![c] = m]
             /\ fields' = IF m \in pool THEN fields
                                        ELSE [fields EXCEPT ![m] = Empty]
             /\ pool' = pool \ {m}
             /\ \A d \in Clients : held[d] # m
      BY <1>2, ObtainTakes
    <2>1. Queued'
      BY <1>1, <1>2 DEF Obtain, TypeOK, Queued, Pending
    <2>2. Handled'
      BY <1>1, <1>2 DEF Obtain, TypeOK, Handled, Pending
    <2>3. Carried'
      <3>1. /\ fields'[m] = Empty
            /\ \A n \in Holders : n # m => fields'[n] = fields[n]
        BY <2>0 DEF TypeOK, Carried
      <3>2. \A n \in pool' : fields'[n] = Empty
        BY <2>0, <3>1 DEF TypeOK, Carried
      <3>3. ~ Executed(c)' /\ fields'[held'[c]] = Empty /\ outcome'[c] = None
        BY <1>2, <2>0, <3>1 DEF Obtain, TypeOK, Executed
      <3>4. ASSUME NEW d \in Clients, d # c
            PROVE  /\ Executed(d)' <=> Executed(d)
                   /\ held'[d] = held[d] /\ outcome'[d] = outcome[d]
                   /\ kind'[d] = kind[d] /\ pc'[d] = pc[d] /\ got'[d] = got[d]
                   /\ held[d] # None => fields'[held[d]] = fields[held[d]]
        BY <1>2, <2>0, <3>1, <3>4 DEF Obtain, TypeOK, Executed
      <3>5. \A d \in Clients : Executed(d) => held[d] # None
        BY DEF Executed
      <3>6. OwnReply'
        BY <1>2, <3>4 DEF Obtain, TypeOK, Carried, OwnReply
      <3> QED
        BY <3>2, <3>3, <3>4, <3>5, <3>6 DEF Carried
    <2> QED
      BY <1>1, <2>1, <2>2, <2>3
  <1>3. ASSUME NEW c \in Clients, Clear(c)
        PROVE  IInv'
    <2>1. Queued'
      BY <1>1, <1>3 DEF Clear, TypeOK, Queued, Pending
    <2>2. Handled'
      BY <1>1, <1>3 DEF Clear, TypeOK, Handled, Pending
    <2>3. Carried'
      <3>1. \A d \in Clients : d # c => held[d] # held[c]
        BY <1>3 DEF Clear, Holding
      <3>2. fields'[held[c]] = Empty
            /\ \A n \in Holders : n # held[c] => fields'[n] = fields[n]
        BY <1>3 DEF Clear, TypeOK
      <3>3. \A n \in pool' : fields'[n] = Empty
        BY <1>3, <3>2 DEF Clear, TypeOK, Carried
      <3>4. /\ ~ Executed(c)'
            /\ \A d \in Clients : d # c => (Executed(d)' <=> Executed(d))
        BY <1>3 DEF Clear, TypeOK, Executed
      <3>5. OwnReply'
        BY <1>3 DEF Clear, TypeOK, Carried, OwnReply
      <3>6. \A d \in Clients : Executed(d) => held[d] # None
        BY DEF Executed
      <3> QED
        BY <1>3, <3>1, <3>2, <3>3, <3>4, <3>5, <3>6 DEF Clear, Carried
    <2> QED
      BY <1>1, <2>1, <2>2, <2>3
  <1>4. ASSUME NEW c \in Clients, Release(c)
        PROVE  IInv'
    <2>1. Queued'
      BY <1>1, <1>4 DEF Release, TypeOK, Queued, Pending
    <2>2. Handled'
      BY <1>1, <1>4 DEF Release, TypeOK, Handled, Pending
    <2>3. Carried'
      BY <1>1, <1>4 DEF Release, TypeOK, Carried, Executed, OwnReply
    <2> QED
      BY <1>1, <2>1, <2>2, <2>3
  <1>5. ASSUME NEW c \in Clients, EnterMonitor(c)
        PROVE  IInv'
    <2>1. Queued'
      BY <1>1, <1>5 DEF EnterMonitor, TypeOK, Queued, Pending
    <2>2. Handled'
      BY <1>1, <1>5 DEF EnterMonitor, TypeOK, Handled, Pending
    <2>3. Carried'
      BY <1>1, <1>5 DEF EnterMonitor, TypeOK, Carried, Executed, OwnReply
    <2> QED
      BY <1>1, <2>1, <2>2, <2>3
  <1>6. ASSUME NEW c \in Clients, SendMessage(c)
        PROVE  IInv'
    <2>0. /\ DOMAIN queue = 1 .. Len(queue) /\ Len(queue) \in Nat
          /\ DOMAIN queue' = 1 .. Len(queue) + 1
          /\ \A i \in DOMAIN queue : queue'[i] = queue[i]
          /\ queue'[Len(queue) + 1] =
               [client |-> c, obj |-> held[c], kind |-> kind[c]]
      BY <1>6 DEF SendMessage, TypeOK
    <2>1. Queued'
      <3>1. \A i \in DOMAIN queue : queue[i].client # c
        BY <1>6 DEF SendMessage, Queued, Pending
      <3>2. looper.msg.client # c
        BY <1>6 DEF SendMessage, Handled, Pending, TypeOK, LooperStates
      <3>3. \A i \in DOMAIN queue' : 
              i \in DOMAIN queue \/ i = Len(queue) + 1
        BY <2>0
      <3>4. ASSUME NEW i \in DOMAIN queue' 
            PROVE  Pending(queue[i])' /\ queue'[i].client # looper'.msg.client
        <4>1. CASE i \in DOMAIN queue
          BY <1>6, <2>0, <3>1, <4>1 DEF SendMessage, Queued, Pending, TypeOK
        <4>2. CASE i = Len(queue) + 1
          BY <1>6, <2>0, <3>2, <4>2 DEF SendMessage, Pending, TypeOK
        <4> QED
          BY <3>3, <4>1, <4>2
      <3>5. ASSUME NEW i \in DOMAIN queue', NEW j \in DOMAIN queue',
                   queue'[i].client = queue'[j].client
            PROVE  i = j
        BY <2>0, <3>1, <3>3, <3>5 DEF Queued
      <3> QED
        BY <3>4, <3>5 DEF Queued
    <2>2. Handled'
      BY <1>1, <1>6 DEF SendMessage, TypeOK, Handled, Pending
    <2>3. Carried'
      BY <1>1, <1>6 DEF SendMessage, TypeOK, Carried, Executed, OwnReply
    <2> QED
      BY <1>1, <2>1, <2>2, <2>3
  <1>7. ASSUME NEW c \in Clients, Wait(c)
        PROVE  IInv'
    <2>1. Queued'
      BY <1>1, <1>7 DEF Wait, TypeOK, Queued, Pending
    <2>2. Handled'
      BY <1>1, <1>7 DEF Wait, TypeOK, Handled, Pending
    <2>3. Carried'
      <3>1. ~ (looper.msg.client = c /\ looper.at = "processed")
        BY <1>7 DEF Wait, Handled
      <3>2. \A d \in Clients : Executed(d)' <=> Executed(d)
        BY <1>7, <3>1 DEF Wait, TypeOK, Executed
      <3> QED
        BY <1>7, <3>2 DEF Wait, TypeOK, Carried, OwnReply
    <2> QED
      BY <1>1, <2>1, <2>2, <2>3
  <1>8. ASSUME NEW c \in Clients, Resume(c)
        PROVE  IInv'
    <2>1. Queued'
      BY <1>1, <1>8 DEF Resume, TypeOK, Queued, Pending
    <2>2. Handled'
      <3>1. looper.at = "notified" => looper.msg.client # c
        BY <1>8 DEF Resume, Handled, Monitors
      <3>2. looper.at \in {"dispatch", "locked", "processed"} => looper.msg.client # c
        BY <1>8 DEF Resume, Handled, Pending
      <3> QED
        BY <1>8, <3>1, <3>2 DEF Resume, TypeOK, Handled, Pending
    <2>3. Carried'
      BY <1>1, <1>8 DEF Resume, TypeOK, Carried, Executed, OwnReply
    <2> QED
      BY <1>1, <2>1, <2>2, <2>3
  <1>9. ASSUME NEW c \in Clients, ReadReply(c)
        PROVE  IInv'
    <2>1. Queued'
      BY <1>1, <1>9 DEF ReadReply, TypeOK, Queued, Pending
    <2>2. Handled'
      BY <1>1, <1>9 DEF ReadReply, TypeOK, Handled, Pending
    <2>3. Carried'
      <3>1. got'[c] = Reply(kind[c], SetOutcome(Empty, outcome[c]))
            /\ outcome[c] \in Outcomes(kind[c])
        BY <1>9 DEF ReadReply, TypeOK, Carried, Executed
      <3>2. got'[c] = Seen(kind[c], outcome[c])
        BY <3>1, ReplyIsSeen, <1>9 DEF TypeOK
      <3>3. OwnReply'
        BY <1>9, <3>2 DEF ReadReply, TypeOK, Carried, OwnReply
      <3>4. \A d \in Clients : Executed(d)' <=> Executed(d)
        BY <1>9 DEF ReadReply, TypeOK, Executed
      <3> QED
        BY <1>9, <3>3, <3>4 DEF ReadReply, Carried
    <2> QED
      BY <1>1, <2>1, <2>2, <2>3
  <1>10. CASE Dispatch
    <2>0. /\ DOMAIN queue = 1 .. Len(queue) /\ Len(queue) \in Nat \ {0}
          /\ DOMAIN queue' = 1 .. Len(queue) - 1
          /\ \A i \in DOMAIN queue' :
               i + 1 \in DOMAIN queue /\ queue'[i] = queue[i + 1]
          /\ looper' = [at |-> "dispatch", msg |-> queue[1]]
          /\ 1 \in DOMAIN queue
      BY <1>10 DEF Dispatch, TypeOK
    <2>1. Queued'
      <3>1. \A i \in DOMAIN queue' : Pending(queue[i])'
        BY <1>10, <2>0 DEF Dispatch, Queued, Pending
      <3>2. \A i \in DOMAIN queue' : queue'[i].client # queue[1].client
        BY <2>0 DEF Queued
      <3> QED
        BY <2>0, <3>1, <3>2 DEF Queued
    <2>2. Handled'
      BY <1>10, <2>0 DEF Dispatch, Queued, Handled, Pending
    <2>3. Carried'
      BY <1>1, <1>10 DEF Dispatch, TypeOK, Carried, Executed, OwnReply
    <2> QED
      BY <1>1, <2>1, <2>2, <2>3
  <1>11. CASE HandlerEnterMonitor
    <2>1. Queued'
      BY <1>1, <1>11 DEF HandlerEnterMonitor, TypeOK, Queued, Pending
    <2>2. Handled'
      <3>1. pc[looper.msg.client] # "sent"
        BY <1>11 DEF HandlerEnterMonitor, Handled, Pending, Monitors
      <3> QED
        BY <1>11, <3>1 DEF HandlerEnterMonitor, TypeOK, Handled, Pending
    <2>3. Carried'
      BY <1>1, <1>11 DEF HandlerEnterMonitor, TypeOK, Carried, Executed, OwnReply
    <2> QED
      BY <1>1, <2>1, <2>2, <2>3
  <1>12. CASE ProcessMessage
    <2>1. Queued'
      BY <1>1, <1>12 DEF ProcessMessage, TypeOK, Queued, Pending
    <2>2. Handled'
      BY <1>1, <1>12 DEF ProcessMessage, TypeOK, Handled, Pending
    <2>3. Carried'
      <3> DEFINE c == looper.msg.client
                 m == looper.msg.obj
      <3>1. PICK o \in Outcomes(looper.msg.kind) :
               /\ fields' = [fields EXCEPT ![m] = SetOutcome(@, o)]
               /\ outcome' = [outcome EXCEPT ![c] = o]
        BY <1>12 DEF ProcessMessage
      <3>2. /\ c \in Clients /\ m \in Holders /\ pc[c] = "waiting"
            /\ held[c] = m /\ kind[c] = looper.msg.kind
        BY <1>12 DEF ProcessMessage, Handled, Pending
      <3>3. Executed(c)' /\ ~ Executed(c)
        BY <1>12, <3>2 DEF ProcessMessage, TypeOK, Executed
      <3>4. \A d \in Clients : d # c => (Executed(d)' <=> Executed(d)) /\ held[d] # m
        BY <1>12, <3>2 DEF ProcessMessage, TypeOK, Executed, Holding
      <3>5. fields[m] = Empty
        BY <3>2, <3>3 DEF Carried
      <3>6. fields'[m] = SetOutcome(Empty, o) /\ outcome'[c] = o
        BY <3>1, <3>2, <3>5 DEF TypeOK
      <3>7. m \notin pool
        BY <3>2 DEF Holding
      <3>8. OwnReply'
        BY <1>12, <3>1, <3>2 DEF ProcessMessage, TypeOK, Carried, OwnReply
      <3>9. \A d \in Clients : Executed(d) => held[d] # None
        BY DEF Executed
      <3>10. \A n \in Holders : n # m => fields'[n] = fields[n]
        BY <3>1 DEF TypeOK
      <3>11. \A d \in Clients : d # c => outcome'[d] = outcome[d]
        BY <3>1 DEF TypeOK
      <3>12. \A n \in pool' : fields'[n] = Empty
        BY <1>12, <3>7, <3>10 DEF ProcessMessage, TypeOK, Carried
      <3>13. kind' = kind /\ held' = held /\ pc' = pc
        BY <1>12 DEF ProcessMessage
      <3> HIDE DEF c, m
      <3>14. ASSUME NEW d \in Clients
             PROVE  IF Executed(d)'
                    THEN /\ outcome'[d] \in Outcomes(kind[d])
                         /\ fields'[held[d]] = SetOutcome(Empty, outcome'[d])
                    ELSE /\ held[d] # None => fields'[held[d]] = Empty
                         /\ pc[d] \in {"obtained", "locked", "sent", "waiting"} =>
                              outcome'[d] = None
        <4>1. CASE d = c
          <5>1. Executed(d)'
            BY <1>12, <3>2, <4>1 DEF ProcessMessage, TypeOK, Executed, c
          <5> QED
            BY <3>1, <3>2, <3>6, <4>1, <5>1
        <4>2. CASE d # c
          BY <3>4, <3>9, <3>10, <3>11, <4>2 DEF Carried
        <4> QED
          BY <4>1, <4>2
      <3> QED
        BY <3>8, <3>12, <3>13, <3>14 DEF Carried
    <2> QED
      BY <1>1, <2>1, <2>2, <2>3
  <1>13. CASE Notify
    <2>0. pc' = [pc EXCEPT ![looper.msg.client] = "notified"]
          /\ pc[looper.msg.client] = "waiting" /\ looper.msg.client \in Clients
          /\ held[looper.msg.client] = looper.msg.obj
      <3>1. WaitersOn(looper.msg.obj) = {looper.msg.client}
        BY <1>13 DEF Notify, WaitersOn, Handled, Pending, Holding
      <3> QED
        BY <1>13, <3>1 DEF Notify, Handled, Pending
    <2>1. Queued'
      BY <1>13, <2>0 DEF Notify, TypeOK, Queued, Pending
    <2>2. Handled'
      BY <1>13, <2>0 DEF Notify, TypeOK, Handled
    <2>3. Carried'
      <3>1. \A d \in Clients : Executed(d)' <=> Executed(d)
        BY <1>13, <2>0 DEF Notify, TypeOK, Executed
      <3> QED
        BY <1>13, <2>0, <3>1 DEF Notify, TypeOK, Carried, OwnReply
    <2> QED
      BY <1>1, <2>1, <2>2, <2>3
  <1>14. CASE HandlerLeaveMonitor
    <2>1. Queued'
      <3>1. \A i \in DOMAIN queue : queue[i].client # NoMessage.client
        BY DEF NoMessage
      <3> QED
        BY <1>14, <3>1 DEF HandlerLeaveMonitor, Queued, Pending
    <2>2. Handled'
      BY <1>1, <1>14 DEF HandlerLeaveMonitor, TypeOK, Handled, Pending
    <2>3. Carried'
      BY <1>1, <1>14 DEF HandlerLeaveMonitor, TypeOK, Carried, Executed, OwnReply
    <2> QED
      BY <1>1, <2>1, <2>2, <2>3
  <1>15. CASE UNCHANGED vars
    BY <1>1, <1>15 DEF vars, Queued, Handled, Carried,
       Pending, Executed, OwnReply
  <1>16. ASSUME NEW c \in Clients, WakeSpuriously(c)
        PROVE  FALSE
    BY <1>16 DEF WakeSpuriously, TypeOK
  <1> QED
    BY <1>2, <1>3, <1>4, <1>5, <1>6, <1>7, <1>8, <1>9, <1>10, <1>11, <1>12,
       <1>13, <1>14, <1>15, <1>16, BridgeAssumption
       DEF Next, CallStep, LooperStep

-----------------------------------------------------------------------------
(* The theorems. *)

LEMMA IInvHolds ==
  ASSUME SpuriousWakeups = 0
  PROVE  Safe => []IInv
  BY IInvInit, IInvNext, PTL DEF Safe

(* No MessageValues ever serves two calls, or is recycled while in use.     *)
THEOREM HolderExclusiveHolds ==
  ASSUME SpuriousWakeups = 0
  PROVE  Safe => []HolderExclusive
  <1>1. IInv => HolderExclusive
    <2> SUFFICES ASSUME IInv
                 PROVE  HolderExclusive
      OBVIOUS
    <2> USE Facts DEF IInv, Waking
    <2>1. \A i \in DOMAIN queue : queue[i].obj \notin pool
      BY DEF Holding, Queued, Pending
    <2>2. looper.msg.obj \notin pool
      <3>1. CASE looper.at = "next"
        BY <3>1 DEF TypeOK, NoMessage
      <3>2. CASE looper.at # "next"
        BY <3>2 DEF TypeOK, LooperStates, Holding, Handled, Pending
      <3> QED
        BY <3>1, <3>2
    <2> QED
      BY <2>1, <2>2 DEF HolderExclusive, Holding
  <1> QED
    BY IInvHolds, <1>1, PTL

(* No call ever starts with what an earlier one left in its MessageValues.  *)
THEOREM StartsCleanHolds ==
  ASSUME SpuriousWakeups = 0
  PROVE  Safe => []StartsClean
  <1>1. IInv => StartsClean
    BY Facts DEF IInv, Waking, Carried, StartsClean, Executed
  <1> QED
    BY IInvHolds, <1>1, PTL

(* No thread ever waits for a notify() that is not to come, however often   *)
(* wait() returns without one.                                              *)
THEOREM NoLostWakeupHolds == Safe => []NoLostWakeup
  <1>1. Init => Waking
    BY IInvInit DEF IInv
  <1>2. Waking /\ [Next]_vars => Waking'
    BY WakingNext
  <1>3. Waking => NoLostWakeup
    BY DEF Waking, Sent, NoLostWakeup
  <1> QED
    BY <1>1, <1>2, <1>3, PTL DEF Safe

(* Every call returns or throws the outcome of its own execution.           *)
THEOREM OwnReplyHolds ==
  ASSUME SpuriousWakeups = 0
  PROVE  Safe => []OwnReply
  <1>1. IInv => OwnReply
    BY DEF IInv, Carried
  <1> QED
    BY IInvHolds, <1>1, PTL

-----------------------------------------------------------------------------
(* Every step of the bridge is a step of the abstract facade or a stutter.  *)

LEMMA RpcInit == Init => Rpc!Init
  BY DEF Init, Rpc!Init, Phase, None, Rpc!None

(* Steps that leave every phase, kind, outcome and reply as they are. *)
LEMMA RpcStutter ==
  ASSUME \A c \in Clients : Phase(c)' = Phase(c),
         UNCHANGED <<kind, outcome, got>>
  PROVE  UNCHANGED Rpc!vars
  BY DEF Rpc!vars

LEMMA RpcNext ==
  ASSUME SpuriousWakeups = 0, IInv, [Next]_vars
  PROVE  [Rpc!Next]_(Rpc!vars)
  <1> USE Facts DEF IInv, Waking
  <1>1. ASSUME NEW c \in Clients, NEW k \in Kinds, Obtain(c, k)
        PROVE  Rpc!Call(c, k)
    <2>1. Phase(c) = "idle" /\ Phase(c)' = "called"
      BY <1>1 DEF Obtain, TypeOK, Phase
    <2>2. \A d \in Clients : d # c => Phase(d)' = Phase(d)
      BY <1>1 DEF Obtain, TypeOK, Phase
    <2>3. [d \in Clients |-> Phase(d)]'
            = [[d \in Clients |-> Phase(d)] EXCEPT ![c] = "called"]
      BY <2>1, <2>2
    <2> QED
      BY <1>1, <2>1, <2>3 DEF Obtain, Rpc!Call, None, Rpc!None
  <1>2. ASSUME NEW c \in Clients, ReadReply(c)
        PROVE  Rpc!Return(c)
    <2>1. outcome[c] \in Outcomes(kind[c])
      BY <1>2 DEF ReadReply, Carried, Executed
    <2>2. outcome[c] # None
      BY <2>1, ValuesAssumption DEF Outcomes, Exceptions, None
    <2>3. Phase(c) = "executed" /\ Phase(c)' = "idle"
      BY <1>2, <2>2 DEF ReadReply, TypeOK, Phase
    <2>4. \A d \in Clients : d # c => Phase(d)' = Phase(d)
      BY <1>2 DEF ReadReply, TypeOK, Phase
    <2>5. Reply(kind[c], fields[held[c]]) = Seen(kind[c], outcome[c])
      BY <1>2, <2>1, ReplyIsSeen DEF ReadReply, TypeOK, Carried, Executed
    <2> QED
      BY <1>2, <2>3, <2>4, <2>5 DEF ReadReply, TypeOK, Rpc!Return, Seen, Rpc!Seen
  <1>3. ASSUME ProcessMessage
        PROVE  \E c \in Clients : Rpc!ExecuteAny(c)
    <2>0. PICK c \in Clients : c = looper.msg.client
      BY <1>3 DEF ProcessMessage
    <2>1. PICK o \in Outcomes(looper.msg.kind) : outcome' = [outcome EXCEPT ![c] = o]
      BY <1>3, <2>0 DEF ProcessMessage
    <2>2. c = looper.msg.client /\ pc[c] = "waiting" /\ kind[c] = looper.msg.kind
      BY <1>3, <2>0 DEF ProcessMessage, Handled, Pending
    <2>3. outcome[c] = None
      BY <1>3, <2>2 DEF ProcessMessage, Carried, Executed
    <2>4. o # None
      BY ValuesAssumption DEF Outcomes, Exceptions, None
    <2>5. Phase(c) = "called" /\ Phase(c)' = "executed"
      BY <1>3, <2>1, <2>2, <2>3, <2>4 DEF ProcessMessage, TypeOK, Phase
    <2>6. \A d \in Clients : d # c => Phase(d)' = Phase(d)
      BY <1>3, <2>1 DEF ProcessMessage, TypeOK, Phase
    <2>7. [d \in Clients |-> Phase(d)]'
            = [[d \in Clients |-> Phase(d)] EXCEPT ![c] = "executed"]
      BY <2>5, <2>6
    <2>8. Rpc!Execute(c, o)
      BY <1>3, <2>1, <2>2, <2>5, <2>7 DEF ProcessMessage, Rpc!Execute
    <2> QED
      BY <2>1, <2>2, <2>8
         DEF Rpc!ExecuteAny, Outcomes, Rpc!Outcomes, Exceptions, Rpc!Exceptions
  <1>4. ASSUME NEW c \in Clients,
               \/ Clear(c) \/ Release(c) \/ EnterMonitor(c)
               \/ SendMessage(c) \/ Wait(c) \/ Resume(c)
        PROVE  UNCHANGED Rpc!vars
    <2>1. \A d \in Clients : Phase(d)' = Phase(d)
      BY <1>4 DEF Clear, Release, EnterMonitor, SendMessage, Wait, Resume,
                  TypeOK, Phase
    <2> QED
      BY <1>4, <2>1, RpcStutter
         DEF Clear, Release, EnterMonitor, SendMessage, Wait, Resume
  <1>5. CASE Dispatch \/ HandlerEnterMonitor \/ HandlerLeaveMonitor \/ UNCHANGED vars
    <2>1. \A d \in Clients : Phase(d)' = Phase(d)
      BY <1>5 DEF Dispatch, HandlerEnterMonitor, HandlerLeaveMonitor, vars, Phase
    <2> QED
      BY <1>5, <2>1, RpcStutter
         DEF Dispatch, HandlerEnterMonitor, HandlerLeaveMonitor, vars
  <1>6. CASE Notify
    <2>1. \A d \in Clients : Phase(d)' = Phase(d)
      BY <1>6 DEF Notify, WaitersOn, TypeOK, Phase
    <2> QED
      BY <1>6, <2>1, RpcStutter DEF Notify
  <1>7. ASSUME NEW c \in Clients, WakeSpuriously(c)
        PROVE  FALSE
    BY <1>7 DEF WakeSpuriously, TypeOK
  <1> QED
    BY <1>1, <1>2, <1>3, <1>4, <1>5, <1>6, <1>7, BridgeAssumption
       DEF Next, CallStep, LooperStep, Rpc!Next, Kinds, Rpc!Kinds

(* The bridge executes each call once and returns its own outcome: it is a  *)
(* facade as SmbRpc describes it (what becomes of a call it starts is the   *)
(* liveness half, which the run bridge_refines checks).                     *)
THEOREM BridgeImplementsRpc ==
  ASSUME SpuriousWakeups = 0
  PROVE  Safe => Rpc!Safe
  <1>1. IInv /\ [Next]_vars => [Rpc!Next]_(Rpc!vars)
    BY RpcNext
  <1> QED
    BY RpcInit, IInvHolds, <1>1, PTL DEF Safe, Rpc!Safe
=============================================================================
