-------------------------- MODULE ShareMountsProofs --------------------------
(***************************************************************************)
(* What holds of the operations on shares for any number of shares, of     *)
(* credentials, of users and of listings of servers, and what the list of  *)
(* the stored shares shows.                                                *)
(***************************************************************************)
EXTENDS ServerList, TLAPS

-----------------------------------------------------------------------------
(* Types *)

(* The operations on a cache give a cache. *)
LEMMA CacheTypes ==
  /\ NewCache \in Caches
  /\ \A cache \in Caches, k \in Keys, c \in Credentials \cup {None} :
       Put(cache, k, c) \in Caches
  /\ \A cache \in Caches, k \in Keys : Remove(cache, k) \in Caches
  /\ \A cache \in Caches, temp \in BOOLEAN : SetTempMode(cache, temp) \in Caches
BY DEF NewCache, Caches, Put, Remove, SetTempMode

(* What a new process makes of the saved tuples is a cache. *)
LEMMA CacheOfType ==
  ASSUME NEW saved \in [Shares -> Tuples \cup {None}]
  PROVE  CacheOf(saved) \in Caches
BY DEF CacheOf, NewCache, Caches, Tuples, Keys, Credentials

(* The initial state is of the types. *)
LEMMA TypeInit == Init => TypeOK
BY ShareMountsAssumption, CacheTypes
  DEF Init, TypeOK, UserStates, Holding, Credentials

(* What TypeOK says of each variable, and of the monitor. *)
Fields ==
  /\ stored \in [Shares -> Tuples \cup {None}]
  /\ mounted \in SUBSET Shares
  /\ disk \in [Shares -> Tuples \cup {None}]
  /\ lock \in Users \cup {None}
  /\ creds \in Caches
  /\ pc \in [Users -> UserStates]
  /\ op \in [Users -> Ops \cup {None}]
  /\ result \in [Users -> {"ok", "failed", "illegal", None}]
  /\ cancelled \in SUBSET Users
  /\ bpc \in [Browsers -> {"idle", "temp", "put", "listed"}]
  /\ as \in [Browsers -> Credentials]
  /\ used \in [Browsers -> Credentials \cup {None}]
  /\ former \in [Shares -> Creds \cup {None}]
  /\ browsed \in SUBSET Creds
  /\ disturbed \in SUBSET Browsers

Locks ==
  /\ \A u \in Users : lock = u <=> pc[u] \in Holding
  /\ \A u \in Users : pc[u] # "idle" <=> op[u] # None
  /\ \A u \in Users : pc[u] \in Holding \ {"forgetting"} => op[u] \in AddOps

LEMMA Split == TypeOK <=> Fields /\ Locks
BY DEF TypeOK, Fields, Locks

(* An operation that begins is one. *)
LEMMA BeginTypes ==
  ASSUME Fields, Locks, NEW u \in Users, NEW o \in Ops, Begin(u, o)
  PROVE  Fields' /\ Locks'
<1> USE ShareMountsAssumption, NoneAssumption DEF UserStates, Holding
<1>1. Fields'
  BY DEF Begin, Fields, shareVars, browserVars
<1>2. Locks'
  BY DEF Begin, Fields, Locks, shareVars
<1>3. QED
  BY <1>1, <1>2

(* An addition has a share and a tuple, and an operation of the one kind   *)
(* is none of the other.                                                   *)
LEMMA OpTypes ==
  /\ \A o \in AddOps : o.share \in Shares /\ o.tuple.cred \in Credentials
                      /\ o.tuple \in Tuples
  /\ \A o \in Ops : o.share \in Shares /\ Unmount(o.share) \in Ops
BY DEF Ops, AddOps, Unmount, Tuples

(* Every step keeps the types. *)
LEMMA TypeNext == Fields /\ Locks /\ [Next]_vars => Fields' /\ Locks'
<1> SUFFICES ASSUME Fields, Locks, [Next]_vars PROVE Fields' /\ Locks'
  OBVIOUS
<1> USE ShareMountsAssumption, NoneAssumption DEF UserStates, Holding
<1>1. ASSUME NEW u \in Users, BeginMount(u) PROVE Fields' /\ Locks'
  BY <1>1, BeginTypes DEF BeginMount, Ops, AddOps, Tuples
<1>2. ASSUME NEW u \in Users, BeginAuth(u) PROVE Fields' /\ Locks'
  BY <1>2, BeginTypes DEF BeginAuth, Ops, AddOps, Tuples, Credentials
<1>3. ASSUME NEW u \in Users, BeginUnmount(u) PROVE Fields' /\ Locks'
  BY <1>3, BeginTypes DEF BeginUnmount, Ops
<1>4. ASSUME NEW u \in Users, Cancel(u) PROVE Fields' /\ Locks'
  <2>1. Fields'
    BY <1>4 DEF Cancel, Fields, shareVars, userVars, browserVars
  <2>2. Locks'
    BY <1>4 DEF Cancel, Fields, Locks, shareVars, userVars, browserVars
  <2>3. QED
    BY <2>1, <2>2
<1>5. ASSUME NEW u \in Users, HandleCancel(u) PROVE Fields' /\ Locks'
  <2>1. op[u] \in Ops /\ Unmount(op[u].share) \in Ops
    BY <1>5, OpTypes DEF HandleCancel, ToUnmount, Ops
  <2>2. Fields'
    BY <1>5, <2>1 DEF HandleCancel, ToUnmount, Fields, shareVars, userVars, browserVars
  <2>3. Locks'
    BY <1>5, <2>1
      DEF HandleCancel, ToUnmount, Fields, Locks, shareVars, userVars, browserVars
  <2>4. QED
    BY <2>2, <2>3
<1>6. ASSUME NEW u \in Users, EnterAdd(u) PROVE Fields' /\ Locks'
  <2>1. Fields'
    BY <1>6 DEF EnterAdd, Fields, shareVars, userVars, browserVars
  <2>2. Locks'
    BY <1>6 DEF EnterAdd, Fields, Locks, shareVars, userVars, browserVars
  <2>3. QED
    BY <2>1, <2>2
<1>7. ASSUME NEW u \in Users, PutCredential(u) PROVE Fields' /\ Locks'
  <2>1. op[u] \in Ops
    BY <1>7 DEF PutCredential, Fields, Locks
  <2>2. creds' \in Caches
    BY <1>7, <2>1, OpTypes, CacheTypes DEF PutCredential, Fields, Locks, Keys
  <2>3. Fields'
    BY <1>7, <2>2 DEF PutCredential, Fields, shareVars, userVars, browserVars
  <2>4. Locks'
    BY <1>7 DEF PutCredential, Fields, Locks, shareVars, userVars, browserVars
  <2>5. QED
    BY <2>3, <2>4
<1>8. ASSUME NEW u \in Users, Check(u) PROVE Fields' /\ Locks'
  <2>1. Fields'
    BY <1>8 DEF Check, Fields, shareVars, userVars, browserVars
  <2>2. Locks'
    BY <1>8 DEF Check, Fields, Locks, shareVars, userVars, browserVars
  <2>3. QED
    BY <2>1, <2>2
<1>9. ASSUME NEW u \in Users, RemoveCredential(u) PROVE Fields' /\ Locks'
  <2>1. op[u] \in Ops
    BY <1>9 DEF RemoveCredential, Fields, Locks
  <2>2. creds' \in Caches
    BY <1>9, <2>1, OpTypes, CacheTypes
      DEF RemoveCredential, Fields, Locks, Keys
  <2>3. Fields'
    BY <1>9, <2>2
      DEF RemoveCredential, Fields, shareVars, userVars, browserVars
  <2>4. Locks'
    BY <1>9
      DEF RemoveCredential, Fields, Locks, shareVars, userVars, browserVars
  <2>5. QED
    BY <2>3, <2>4
<1>10. ASSUME NEW u \in Users, Store(u) PROVE Fields' /\ Locks'
  <2>1. op[u] \in AddOps
    BY <1>10 DEF Store, Locks
  <2>a. FormerAfter(op[u].share, op[u].tuple) \in Creds \cup {None}
    BY <2>1, OpTypes DEF FormerAfter, Fields, Tuples, Credentials
  <2>b. former' \in [Shares -> Creds \cup {None}]
    BY <1>10, <2>a DEF Store, Fields
  <2>2. Fields'
    BY <1>10, <2>1, <2>b, OpTypes
      DEF Store, Fields, shareVars, userVars, browserVars
  <2>3. Locks'
    BY <1>10 DEF Store, FormerAfter, Fields, Locks, shareVars, userVars, browserVars
  <2>4. QED
    BY <2>2, <2>3
<1>11. ASSUME NEW u \in Users, FailToEncrypt(u) PROVE Fields' /\ Locks'
  <2>1. Fields'
    BY <1>11 DEF FailToEncrypt, Fields, shareVars, userVars, browserVars
  <2>2. Locks'
    BY <1>11
      DEF FailToEncrypt, Fields, Locks, shareVars, userVars, browserVars
  <2>3. QED
    BY <2>1, <2>2
<1>12. ASSUME NEW u \in Users, EnterUnmount(u) PROVE Fields' /\ Locks'
  <2>1. Fields'
    BY <1>12, OpTypes
      DEF EnterUnmount, Fields, shareVars, userVars, browserVars
  <2>2. Locks'
    BY <1>12 DEF EnterUnmount, Fields, Locks, shareVars, userVars, browserVars
  <2>3. QED
    BY <2>1, <2>2
<1>13. ASSUME NEW u \in Users, ForgetCredential(u) PROVE Fields' /\ Locks'
  <2>1. op[u] \in Ops
    BY <1>13 DEF ForgetCredential, Fields, Locks
  <2>2. creds' \in Caches
    BY <1>13, <2>1, OpTypes, CacheTypes
      DEF ForgetCredential, Fields, Locks, Keys
  <2>3. Fields'
    BY <1>13, <2>2
      DEF ForgetCredential, Fields, shareVars, userVars, browserVars
  <2>4. Locks'
    BY <1>13
      DEF ForgetCredential, Fields, Locks, shareVars, userVars, browserVars
  <2>5. QED
    BY <2>3, <2>4
<1>14. ASSUME NEW u \in Users, End(u) PROVE Fields' /\ Locks'
  <2>1. Fields'
    BY <1>14 DEF End, ToUnmount, Fields, shareVars, userVars, browserVars
  <2>2. Locks'
    BY <1>14 DEF End, ToUnmount, Fields, Locks, shareVars, userVars, browserVars
  <2>3. QED
    BY <2>1, <2>2
<1>15. ASSUME NEW b \in Browsers, EnterTempMode(b) PROVE Fields' /\ Locks'
  <2>1. creds' \in Caches
    BY <1>15, CacheTypes DEF EnterTempMode, Disturb, Fields, Keys, Credentials
  <2>2. Fields'
    BY <1>15, <2>1 DEF EnterTempMode, Disturb, Fields, shareVars, userVars, browserVars
  <2>3. Locks'
    BY <1>15 DEF EnterTempMode, Disturb, Locks, shareVars, userVars, browserVars
  <2>4. QED
    BY <2>2, <2>3
<1>16. ASSUME NEW b \in Browsers, PutBrowsing(b) PROVE Fields' /\ Locks'
  <2>a. as[b] \in Credentials /\ IPC \in Keys /\ creds \in Caches
    BY DEF Fields, Keys
  <2>b. Put(creds, IPC, as[b]) \in Caches
    BY <2>a, CacheTypes
  <2>1. creds' \in Caches
    BY <1>16, <2>a, <2>b DEF PutBrowsing
  <2>c. browsed' \in SUBSET Creds
    <3>1. as[b] # Guest => as[b] \in Creds
      BY <2>a DEF Credentials
    <3>2. browsed' = browsed \/ (as[b] # Guest /\ browsed' = browsed \cup {as[b]})
      BY <1>16 DEF PutBrowsing
    <3>3. QED
      BY <3>1, <3>2 DEF Fields
  <2>2. Fields'
    BY <1>16, <2>1, <2>c
      DEF PutBrowsing, Fields, shareVars, userVars, browserVars
  <2>3. Locks'
    BY <1>16 DEF PutBrowsing, Locks, shareVars, userVars, browserVars
  <2>4. QED
    BY <2>2, <2>3
<1>17. ASSUME NEW b \in Browsers, List(b) PROVE Fields' /\ Locks'
  <2>1. Fields'
    BY <1>17, CacheTypes
      DEF List, Fields, shareVars, userVars, browserVars, Get, Caches, Keys,
        Credentials
  <2>2. Locks'
    BY <1>17 DEF List, Fields, Locks, shareVars, userVars, browserVars
  <2>3. QED
    BY <2>1, <2>2
<1>18. ASSUME NEW b \in Browsers, LeaveTempMode(b) PROVE Fields' /\ Locks'
  <2>1. creds' \in Caches
    BY <1>18, CacheTypes DEF LeaveTempMode, Return, Fields, Keys, Credentials
  <2>2. Fields'
    BY <1>18, <2>1
      DEF LeaveTempMode, Return, Fields, Credentials, shareVars, userVars, browserVars
  <2>3. Locks'
    BY <1>18 DEF LeaveTempMode, Return, Locks, shareVars, userVars, browserVars
  <2>4. QED
    BY <2>2, <2>3
<1>19. CASE Save
  <2>1. Fields'
    BY <1>19 DEF Save, Fields, shareVars, userVars, browserVars
  <2>2. Locks'
    BY <1>19 DEF Save, Fields, Locks, shareVars, userVars, browserVars
  <2>3. QED
    BY <2>1, <2>2
<1>20. CASE Crash
  <2>1. Fields'
    BY <1>20, CacheOfType
      DEF Crash, Fields, shareVars, userVars, browserVars, MountedIn,
        Credentials
  <2>2. Locks'
    BY <1>20 DEF Crash, Fields, Locks, shareVars, userVars, browserVars
  <2>3. QED
    BY <2>1, <2>2
<1>21. CASE UNCHANGED vars
  BY <1>21 DEF vars, Fields, Locks, shareVars, userVars, browserVars
<1>22. QED
  BY <1>1, <1>2, <1>3, <1>4, <1>5, <1>6, <1>7, <1>8, <1>9, <1>10, <1>11,
      <1>12, <1>13, <1>14, <1>15, <1>16, <1>17, <1>18, <1>19, <1>20, <1>21
    DEF Next, Running, UserStep, BrowserStep

-----------------------------------------------------------------------------
(* The two collections of ShareManager *)

(* mountedServerSet has the shares whose tuple says so. *)
Agree ==
  \A s \in Shares :
    /\ s \in mounted => stored[s] # None
    /\ stored[s] # None => (stored[s].mounted <=> s \in mounted)

(* What addServer has checked is so until it stores. *)
Permitted ==
  \A u \in Users : pc[u] \in {"locked", "checking", "storing"} => Allowed(op[u])

(* A share that is not mounted is only updated. *)
Logins ==
  \A u \in Users : op[u] \in AddOps /\ ~ op[u].tuple.mounted => op[u].update

(* Every step keeps this. *)
LEMMA CollectionsNext ==
  /\ Fields /\ Locks
  /\ Agree /\ Permitted /\ Logins
  /\ [Next]_vars
  => Agree' /\ Permitted' /\ Logins'
<1> SUFFICES ASSUME Fields, Locks, Agree, Permitted, Logins, [Next]_vars
             PROVE  Agree' /\ Permitted' /\ Logins'
  OBVIOUS
<1> USE ShareMountsAssumption, NoneAssumption DEF Allowed
<1>1. ASSUME NEW u \in Users, BeginMount(u) PROVE Agree' /\ Permitted' /\ Logins'
  <2>1. Agree'
    BY <1>1
      DEF BeginMount, Agree, shareVars, userVars, browserVars, Begin, AddOps,
        Tuples
  <2>2. Permitted'
    BY <1>1
      DEF BeginMount, Permitted, Fields, Locks, UserStates, Holding,
        shareVars, userVars, browserVars, Begin, AddOps, Tuples
  <2>3. Logins'
    BY <1>1
      DEF BeginMount, Logins, Fields, shareVars, userVars, browserVars,
        Begin, AddOps, Tuples
  <2>4. QED
    BY <2>1, <2>2, <2>3
<1>2. ASSUME NEW u \in Users, BeginAuth(u) PROVE Agree' /\ Permitted' /\ Logins'
  <2>1. Agree'
    BY <1>2
      DEF BeginAuth, Agree, shareVars, userVars, browserVars, Begin, AddOps,
        Tuples
  <2>2. Permitted'
    BY <1>2
      DEF BeginAuth, Permitted, Fields, Locks, UserStates, Holding,
        shareVars, userVars, browserVars, Begin, AddOps, Tuples
  <2>3. Logins'
    BY <1>2
      DEF BeginAuth, Logins, Fields, shareVars, userVars, browserVars, Begin,
        AddOps, Tuples
  <2>4. QED
    BY <2>1, <2>2, <2>3
<1>3. ASSUME NEW u \in Users, BeginUnmount(u) PROVE Agree' /\ Permitted' /\ Logins'
  <2>1. Agree'
    BY <1>3
      DEF BeginUnmount, Agree, shareVars, userVars, browserVars, Begin,
        Unmount, AddOps
  <2>2. Permitted'
    BY <1>3
      DEF BeginUnmount, Permitted, Fields, Locks, UserStates, Holding,
        shareVars, userVars, browserVars, Begin, Unmount, AddOps
  <2>3. Logins'
    BY <1>3
      DEF BeginUnmount, Logins, Fields, shareVars, userVars, browserVars,
        Begin, Unmount, AddOps
  <2>4. QED
    BY <2>1, <2>2, <2>3
<1>4. ASSUME NEW u \in Users, Cancel(u) PROVE Agree' /\ Permitted' /\ Logins'
  <2>1. Agree'
    BY <1>4 DEF Cancel, Agree, shareVars, userVars, browserVars
  <2>2. Permitted'
    BY <1>4
      DEF Cancel, Permitted, Fields, Locks, UserStates, Holding, shareVars,
        userVars, browserVars
  <2>3. Logins'
    BY <1>4 DEF Cancel, Logins, Fields, shareVars, userVars, browserVars
  <2>4. QED
    BY <2>1, <2>2, <2>3
<1>5. ASSUME NEW u \in Users, HandleCancel(u) PROVE Agree' /\ Permitted' /\ Logins'
  <2>1. Agree'
    BY <1>5
      DEF HandleCancel, ToUnmount, Agree, shareVars, userVars, browserVars, Unmount,
        AddOps
  <2>2. Permitted'
    BY <1>5
      DEF HandleCancel, ToUnmount, Permitted, Fields, Locks, UserStates, Holding,
        shareVars, userVars, browserVars, Unmount, AddOps
  <2>3. Logins'
    BY <1>5
      DEF HandleCancel, ToUnmount, Logins, Fields, shareVars, userVars, browserVars,
        Unmount, AddOps
  <2>4. QED
    BY <2>1, <2>2, <2>3
<1>6. ASSUME NEW u \in Users, EnterAdd(u) PROVE Agree' /\ Permitted' /\ Logins'
  <2>1. Agree'
    BY <1>6 DEF EnterAdd, Agree, shareVars, userVars, browserVars
  <2>2. Permitted'
    BY <1>6
      DEF EnterAdd, Permitted, Fields, Locks, UserStates, Holding, shareVars,
        userVars, browserVars
  <2>3. Logins'
    BY <1>6 DEF EnterAdd, Logins, Fields, shareVars, userVars, browserVars
  <2>4. QED
    BY <2>1, <2>2, <2>3
<1>7. ASSUME NEW u \in Users, PutCredential(u) PROVE Agree' /\ Permitted' /\ Logins'
  <2>1. Agree'
    BY <1>7 DEF PutCredential, Agree, shareVars, userVars, browserVars
  <2>2. Permitted'
    BY <1>7
      DEF PutCredential, Permitted, Fields, Locks, UserStates, Holding,
        shareVars, userVars, browserVars
  <2>3. Logins'
    BY <1>7
      DEF PutCredential, Logins, Fields, shareVars, userVars, browserVars
  <2>4. QED
    BY <2>1, <2>2, <2>3
<1>8. ASSUME NEW u \in Users, Check(u) PROVE Agree' /\ Permitted' /\ Logins'
  <2>1. Agree'
    BY <1>8 DEF Check, Agree, shareVars, userVars, browserVars
  <2>2. Permitted'
    BY <1>8
      DEF Check, Permitted, Fields, Locks, UserStates, Holding, shareVars,
        userVars, browserVars
  <2>3. Logins'
    BY <1>8 DEF Check, Logins, Fields, shareVars, userVars, browserVars
  <2>4. QED
    BY <2>1, <2>2, <2>3
<1>9. ASSUME NEW u \in Users, RemoveCredential(u) PROVE Agree' /\ Permitted' /\ Logins'
  <2>1. Agree'
    BY <1>9 DEF RemoveCredential, Agree, shareVars, userVars, browserVars
  <2>2. Permitted'
    BY <1>9
      DEF RemoveCredential, Permitted, Fields, Locks, UserStates, Holding,
        shareVars, userVars, browserVars
  <2>3. Logins'
    BY <1>9
      DEF RemoveCredential, Logins, Fields, shareVars, userVars, browserVars
  <2>4. QED
    BY <2>1, <2>2, <2>3
<1>10. ASSUME NEW u \in Users, Store(u) PROVE Agree' /\ Permitted' /\ Logins'
  <2>1. op[u] \in AddOps
    BY <1>10 DEF Store, Locks, Holding
  <2>2. Agree'
    BY <1>10, OpTypes, <2>1
      DEF Store, Agree, shareVars, userVars, browserVars, Fields, Tuples
  <2>3. Permitted'
    BY <1>10, <2>1
      DEF Store, Permitted, Fields, Locks, UserStates, Holding, shareVars,
        userVars, browserVars, Fields, Tuples
  <2>4. Logins'
    BY <1>10
      DEF Store, Logins, Fields, shareVars, userVars, browserVars, Fields,
        Tuples
  <2>5. QED
    BY <2>2, <2>3, <2>4
<1>11. ASSUME NEW u \in Users, FailToEncrypt(u) PROVE Agree' /\ Permitted' /\ Logins'
  <2>1. Agree'
    BY <1>11 DEF FailToEncrypt, Agree, shareVars, userVars, browserVars
  <2>2. Permitted'
    BY <1>11
      DEF FailToEncrypt, Permitted, Fields, Locks, UserStates, Holding,
        shareVars, userVars, browserVars
  <2>3. Logins'
    BY <1>11
      DEF FailToEncrypt, Logins, Fields, shareVars, userVars, browserVars
  <2>4. QED
    BY <2>1, <2>2, <2>3
<1>12. ASSUME NEW u \in Users, EnterUnmount(u) PROVE Agree' /\ Permitted' /\ Logins'
  <2>1. Agree'
    BY <1>12, OpTypes
      DEF EnterUnmount, Agree, shareVars, userVars, browserVars, Fields,
        Locks, Unmount, AddOps, Ops
  <2>2. Permitted'
    BY <1>12
      DEF EnterUnmount, Permitted, Fields, Locks, UserStates, Holding,
        shareVars, userVars, browserVars, Fields, Locks, Unmount, AddOps, Ops
  <2>3. Logins'
    BY <1>12
      DEF EnterUnmount, Logins, Fields, shareVars, userVars, browserVars,
        Fields, Locks, Unmount, AddOps, Ops
  <2>4. QED
    BY <2>1, <2>2, <2>3
<1>13. ASSUME NEW u \in Users, ForgetCredential(u) PROVE Agree' /\ Permitted' /\ Logins'
  <2>1. Agree'
    BY <1>13 DEF ForgetCredential, Agree, shareVars, userVars, browserVars
  <2>2. Permitted'
    BY <1>13
      DEF ForgetCredential, Permitted, Fields, Locks, UserStates, Holding,
        shareVars, userVars, browserVars
  <2>3. Logins'
    BY <1>13
      DEF ForgetCredential, Logins, Fields, shareVars, userVars, browserVars
  <2>4. QED
    BY <2>1, <2>2, <2>3
<1>14. ASSUME NEW u \in Users, End(u) PROVE Agree' /\ Permitted' /\ Logins'
  <2>1. Agree'
    BY <1>14 DEF End, ToUnmount, Agree, shareVars, userVars, browserVars
  <2>2. Permitted'
    BY <1>14
      DEF End, ToUnmount, Permitted, Fields, Locks, UserStates, Holding, shareVars,
        userVars, browserVars
  <2>3. Logins'
    BY <1>14 DEF End, ToUnmount, Logins, Fields, Ops, shareVars, userVars, browserVars
  <2>4. QED
    BY <2>1, <2>2, <2>3
<1>15. ASSUME NEW b \in Browsers, EnterTempMode(b) PROVE Agree' /\ Permitted' /\ Logins'
  <2>1. Agree'
    BY <1>15 DEF EnterTempMode, Disturb, Agree, shareVars, userVars, browserVars
  <2>2. Permitted'
    BY <1>15
      DEF EnterTempMode, Disturb, Permitted, Fields, Locks, UserStates, Holding,
        shareVars, userVars, browserVars
  <2>3. Logins'
    BY <1>15
      DEF EnterTempMode, Disturb, Logins, Fields, shareVars, userVars, browserVars
  <2>4. QED
    BY <2>1, <2>2, <2>3
<1>16. ASSUME NEW b \in Browsers, PutBrowsing(b) PROVE Agree' /\ Permitted' /\ Logins'
  <2>1. Agree'
    BY <1>16 DEF PutBrowsing, Agree, shareVars, userVars, browserVars
  <2>2. Permitted'
    BY <1>16
      DEF PutBrowsing, Permitted, Fields, Locks, UserStates, Holding,
        shareVars, userVars, browserVars
  <2>3. Logins'
    BY <1>16 DEF PutBrowsing, Logins, Fields, shareVars, userVars, browserVars
  <2>4. QED
    BY <2>1, <2>2, <2>3
<1>17. ASSUME NEW b \in Browsers, List(b) PROVE Agree' /\ Permitted' /\ Logins'
  <2>1. Agree'
    BY <1>17 DEF List, Agree, shareVars, userVars, browserVars
  <2>2. Permitted'
    BY <1>17
      DEF List, Permitted, Fields, Locks, UserStates, Holding, shareVars,
        userVars, browserVars
  <2>3. Logins'
    BY <1>17 DEF List, Logins, Fields, shareVars, userVars, browserVars
  <2>4. QED
    BY <2>1, <2>2, <2>3
<1>18. ASSUME NEW b \in Browsers, LeaveTempMode(b) PROVE Agree' /\ Permitted' /\ Logins'
  <2>1. Agree'
    BY <1>18 DEF LeaveTempMode, Return, Agree, shareVars, userVars, browserVars
  <2>2. Permitted'
    BY <1>18
      DEF LeaveTempMode, Return, Permitted, Fields, Locks, UserStates, Holding,
        shareVars, userVars, browserVars
  <2>3. Logins'
    BY <1>18
      DEF LeaveTempMode, Return, Logins, Fields, shareVars, userVars, browserVars
  <2>4. QED
    BY <2>1, <2>2, <2>3
<1>19. CASE Save
  <2>1. Agree'
    BY <1>19 DEF Save, Agree, shareVars, userVars, browserVars
  <2>2. Permitted'
    BY <1>19
      DEF Save, Permitted, Fields, Locks, UserStates, Holding, shareVars,
        userVars, browserVars
  <2>3. Logins'
    BY <1>19 DEF Save, Logins, Fields, shareVars, userVars, browserVars
  <2>4. QED
    BY <2>1, <2>2, <2>3
<1>20. CASE Crash
  <2>1. Agree'
    BY <1>20
      DEF Crash, Agree, shareVars, userVars, browserVars, MountedIn, Ops,
        Fields
  <2>2. Permitted'
    BY <1>20
      DEF Crash, Permitted, Fields, Locks, UserStates, Holding, shareVars,
        userVars, browserVars, MountedIn, Ops, Fields
  <2>3. Logins'
    BY <1>20
      DEF Crash, Logins, Fields, shareVars, userVars, browserVars, MountedIn,
        Ops, Fields
  <2>4. QED
    BY <2>1, <2>2, <2>3
<1>21. CASE UNCHANGED vars
  BY <1>21
    DEF vars, Agree, Permitted, Logins, shareVars, userVars, browserVars
<1>22. QED
  BY <1>1, <1>2, <1>3, <1>4, <1>5, <1>6, <1>7, <1>8, <1>9, <1>10, <1>11,
      <1>12, <1>13, <1>14, <1>15, <1>16, <1>17, <1>18, <1>19, <1>20, <1>21
    DEF Next, Running, UserStep, BrowserStep

-----------------------------------------------------------------------------
(* The refinement *)

(* What the registry has of a share is its tuple. *)
LEMMA RegisteredIsStored ==
  ASSUME Fields, Agree, NEW s \in Shares
  PROVE  Registered(s) = stored[s]
<1>1. CASE stored[s] = None
  BY <1>1 DEF Registered
<1>2. CASE stored[s] # None
  <2>1. stored[s] \in Tuples
    BY <1>2 DEF Fields
  <2>2. stored[s] = [cred |-> stored[s].cred, mounted |-> stored[s].mounted]
    BY <2>1 DEF Tuples
  <2>3. stored[s].mounted \in BOOLEAN /\ (s \in mounted) \in BOOLEAN
    BY <2>1 DEF Tuples
  <2>4. stored[s].mounted = (s \in mounted)
    BY <1>2, <2>3 DEF Agree
  <2>5. QED
    BY <1>2, <2>2, <2>4 DEF Registered
<1>3. QED
  BY <1>1, <1>2

(* So the abstract registry is what is stored. *)
LEMMA RegistryIsStored ==
  Fields /\ Agree => [s \in Shares |-> Registered(s)] = stored
BY RegisteredIsStored DEF Fields

(* The same of the next state. *)
LEMMA RegistryIsStoredNext ==
  (Fields /\ Agree => [s \in Shares |-> Registered(s)] = stored)'
BY RegistryIsStored, PTL

(* Both modules have the same operations. *)
LEMMA SameOps ==
  /\ Registry!Ops = Ops /\ Registry!AddOps = AddOps
  /\ \A s \in Shares : Registry!Unmount(s) = Unmount(s)
<1>1. Registry!AddOps = AddOps
  BY
    DEF Registry!AddOps, Registry!Tuples, Registry!Credentials,
      Registry!Guest,
    AddOps, Tuples, Credentials, Guest
<1>2. ASSUME NEW s PROVE Registry!Unmount(s) = Unmount(s)
  BY DEF Registry!Unmount, Unmount
<1>3. Registry!Ops = Ops
  BY <1>1, <1>2 DEF Registry!Ops, Ops
<1>4. QED
  BY <1>1, <1>2, <1>3

(* Where the abstract registry sees a user that has gone on. *)
LEMMA PhaseDone ==
  ASSUME Fields, NEW u \in Users, pc[u] \in {"called", "locked", "checking", "storing"},
         NEW to \in {"failing", "forgetting", "returned"},
         pc' = [pc EXCEPT ![u] = to]
  PROVE  /\ Phase(u) = "called"
         /\ \A v \in Users : Phase(v)' = IF v = u THEN "done" ELSE Phase(v)
<1>1. pc'[u] = to /\ \A v \in Users \ {u} : pc'[v] = pc[v]
  BY DEF Fields
<1>2. Phase(u)' = "done" /\ Phase(u) = "called"
  BY <1>1 DEF Phase
<1>3. \A v \in Users \ {u} : Phase(v)' = Phase(v)
  BY <1>1 DEF Phase
<1>4. QED
  BY <1>2, <1>3

(* Where it sees one that begins, and one that stays where it is. *)
LEMMA PhaseBegun ==
  ASSUME Fields, NEW u \in Users, NEW o, Begin(u, o)
  PROVE  /\ Phase(u) = "idle"
         /\ \A v \in Users : Phase(v)' = IF v = u THEN "called" ELSE Phase(v)
<1>1. pc[u] = "idle" /\ pc' = [pc EXCEPT ![u] = "called"]
  BY DEF Begin
<1>2. pc'[u] = "called" /\ \A v \in Users \ {u} : pc'[v] = pc[v]
  BY <1>1 DEF Fields
<1>3. Phase(u)' = "called" /\ Phase(u) = "idle"
  BY <1>1, <1>2 DEF Phase
<1>4. \A v \in Users \ {u} : Phase(v)' = Phase(v)
  BY <1>2 DEF Phase
<1>5. QED
  BY <1>3, <1>4

LEMMA PhaseStays ==
  ASSUME Fields, NEW u \in Users, NEW to, pc' = [pc EXCEPT ![u] = to],
         \/ {pc[u], to} \subseteq {"called", "locked", "checking", "storing"}
         \/ {pc[u], to} \subseteq {"failing", "forgetting", "returned"}
  PROVE  \A v \in Users : Phase(v)' = Phase(v)
<1>1. pc'[u] = to /\ \A v \in Users \ {u} : pc'[v] = pc[v]
  BY DEF Fields
<1>2. Phase(u)' = Phase(u)
  BY <1>1 DEF Phase
<1>3. \A v \in Users \ {u} : Phase(v)' = Phase(v)
  BY <1>1 DEF Phase
<1>4. QED
  BY <1>2, <1>3

LEMMA PhaseKept ==
  ASSUME pc' = pc
  PROVE  \A v \in Users : Phase(v)' = Phase(v)
BY DEF Phase

(* At first there is nothing in it. *)
LEMMA InitRefines == Init => Registry!Init
<1> SUFFICES ASSUME Init PROVE Registry!Init
  OBVIOUS
<1>1. \A s \in Shares : Registered(s) = None
  BY DEF Init, Registered
<1>2. \A u \in Users : Phase(u) = "idle"
  BY DEF Init, Phase
<1>3. QED
  BY <1>1, <1>2 DEF Init, Registry!Init

(* Every step is one of the registry or leaves it as it is. *)
LEMMA NextRefines ==
  /\ Fields /\ Locks /\ Agree /\ Permitted
  /\ Fields' /\ Agree'
  /\ [Next]_vars
  => [Registry!Next]_(Registry!vars)
<1> SUFFICES ASSUME Fields, Locks, Agree, Permitted, Fields', Agree', [Next]_vars
             PROVE  [Registry!Next]_(Registry!vars)
  OBVIOUS
<1> DEFINE R == [s \in Shares |-> Registered(s)]
           P == [u \in Users |-> Phase(u)]
<1>a. R = stored
  BY RegistryIsStored
<1>b. R' = stored'
  BY RegistryIsStoredNext
<1> USE ShareMountsAssumption, NoneAssumption
<1>1. ASSUME NEW u \in Users, BeginMount(u) PROVE [Registry!Next]_(Registry!vars)
  <2>1. PICK o \in Ops : Begin(u, o)
    BY <1>1 DEF BeginMount, Ops, AddOps, Tuples
  <2>2. P[u] = "idle" /\ P' = [P EXCEPT ![u] = "called"]
    BY <2>1, PhaseBegun
  <2>3. Registry!Call(u, o)
    BY <1>a, <1>b, <2>1, <2>2 DEF Begin, Registry!Call, shareVars
  <2>4. QED
    BY <2>3, SameOps DEF Registry!Next
<1>2. ASSUME NEW u \in Users, BeginAuth(u) PROVE [Registry!Next]_(Registry!vars)
  <2>1. PICK o \in Ops : Begin(u, o)
    BY <1>2 DEF BeginAuth, Ops, AddOps, Tuples, Credentials
  <2>2. P[u] = "idle" /\ P' = [P EXCEPT ![u] = "called"]
    BY <2>1, PhaseBegun
  <2>3. Registry!Call(u, o)
    BY <1>a, <1>b, <2>1, <2>2 DEF Begin, Registry!Call, shareVars
  <2>4. QED
    BY <2>3, SameOps DEF Registry!Next
<1>3. ASSUME NEW u \in Users, BeginUnmount(u) PROVE [Registry!Next]_(Registry!vars)
  <2>1. PICK o \in Ops : Begin(u, o)
    BY <1>3 DEF BeginUnmount, Ops
  <2>2. P[u] = "idle" /\ P' = [P EXCEPT ![u] = "called"]
    BY <2>1, PhaseBegun
  <2>3. Registry!Call(u, o)
    BY <1>a, <1>b, <2>1, <2>2 DEF Begin, Registry!Call, shareVars
  <2>4. QED
    BY <2>3, SameOps DEF Registry!Next
<1>4. ASSUME NEW u \in Users, Cancel(u) PROVE [Registry!Next]_(Registry!vars)
  <2>1. P' = P
    BY <1>4, PhaseKept DEF Cancel, shareVars, userVars, browserVars
  <2>2. UNCHANGED <<stored, disk, op, result>>
    BY <1>4 DEF Cancel, shareVars, userVars, browserVars
  <2>3. QED
    BY <1>a, <1>b, <2>1, <2>2 DEF Registry!vars
<1>5. ASSUME NEW u \in Users, HandleCancel(u) PROVE [Registry!Next]_(Registry!vars)
  <2>0. op[u] \in AddOps /\ op[u].share \in Shares
    BY <1>5, OpTypes DEF HandleCancel, ToUnmount
  <2>1. P[u] \in {"called", "done"} /\ P' = [P EXCEPT ![u] = "called"]
    <3>1. pc[u] \in {"called", "returned"} /\ pc' = [pc EXCEPT ![u] = "called"]
      BY <1>5 DEF HandleCancel, ToUnmount
    <3>2. Phase(u) \in {"called", "done"} /\ Phase(u)' = "called"
      BY <3>1 DEF Phase, Fields
    <3>3. \A v \in Users \ {u} : Phase(v)' = Phase(v)
      BY <3>1 DEF Phase, Fields
    <3>4. QED
      BY <3>2, <3>3
  <2>2. Registry!Cancel(u)
    BY <1>a, <1>b, <1>5, <2>0, <2>1, SameOps
      DEF HandleCancel, ToUnmount, Registry!Cancel, shareVars
  <2>3. QED
    BY <2>2 DEF Registry!Next
<1>6. ASSUME NEW u \in Users, EnterAdd(u) PROVE [Registry!Next]_(Registry!vars)
  <2>1. op[u] \in AddOps /\ op[u].share \in Shares
    BY <1>6, OpTypes DEF EnterAdd
  <2>2. CASE Allowed(op[u])
    <3>1. P' = P
      BY <1>6, <2>2, PhaseStays DEF EnterAdd
    <3>2. QED
      BY <1>a, <1>b, <1>6, <2>2, <3>1 DEF EnterAdd, Registry!vars
  <2>3. CASE ~ Allowed(op[u])
    <3>1. P[u] = "called" /\ P' = [P EXCEPT ![u] = "done"]
      BY <1>6, <2>3, PhaseDone DEF EnterAdd
    <3>2. ~ Registry!Allowed(op[u])
      BY <1>a, <2>1, <2>3
        DEF Allowed, Agree, Registry!Allowed, Registry!IsMounted
    <3>3. Registry!Refuse(u)
      BY <1>a, <1>b, <1>6, <2>1, <2>3, <3>1, <3>2, SameOps
        DEF EnterAdd, Registry!Refuse, Registry!Done
    <3>4. QED
      BY <3>3 DEF Registry!Next
  <2>4. QED
    BY <2>2, <2>3
<1>7. ASSUME NEW u \in Users, PutCredential(u) PROVE [Registry!Next]_(Registry!vars)
  <2>1. P' = P
    BY <1>7, PhaseStays DEF PutCredential
  <2>2. UNCHANGED <<stored, disk, op, result>>
    BY <1>7 DEF PutCredential, shareVars, userVars, browserVars
  <2>3. QED
    BY <1>a, <1>b, <2>1, <2>2 DEF Registry!vars
<1>8. ASSUME NEW u \in Users, Check(u) PROVE [Registry!Next]_(Registry!vars)
  <2>1. op[u] \in AddOps /\ op[u].share \in Shares /\ Allowed(op[u])
    BY <1>8, OpTypes DEF Check, Locks, Holding, Permitted
  <2>2. Registry!Allowed(op[u])
    BY <1>a, <2>1 DEF Allowed, Agree, Registry!Allowed, Registry!IsMounted
  <2>3. CASE pc' = [pc EXCEPT ![u] = "storing"] /\ result' = result
    <3>1. P' = P
      BY <1>8, <2>3, PhaseStays DEF Check
    <3>2. QED
      BY <1>a, <1>b, <1>8, <2>3, <3>1 DEF Check, Registry!vars, shareVars
  <2>4. CASE pc' = [pc EXCEPT ![u] = "failing"] /\ result' = [result EXCEPT ![u] = "failed"]
    <3>1. P[u] = "called" /\ P' = [P EXCEPT ![u] = "done"]
      BY <1>8, <2>4, PhaseDone DEF Check
    <3>2. Registry!Fail(u)
      BY <1>a, <1>b, <1>8, <2>1, <2>2, <2>4, <3>1, SameOps
        DEF Check, Registry!Fail, Registry!Done, shareVars
    <3>3. QED
      BY <3>2 DEF Registry!Next
  <2>5. QED
    BY <1>8, <2>3, <2>4 DEF Check
<1>9. ASSUME NEW u \in Users, RemoveCredential(u) PROVE [Registry!Next]_(Registry!vars)
  <2>1. P' = P
    BY <1>9, PhaseStays DEF RemoveCredential
  <2>2. UNCHANGED <<stored, disk, op, result>>
    BY <1>9 DEF RemoveCredential, shareVars, userVars, browserVars
  <2>3. QED
    BY <1>a, <1>b, <2>1, <2>2 DEF Registry!vars
<1>10. ASSUME NEW u \in Users, Store(u) PROVE [Registry!Next]_(Registry!vars)
  <2>1. op[u] \in AddOps /\ op[u].share \in Shares /\ Allowed(op[u])
    BY <1>10, OpTypes DEF Store, Locks, Holding, Permitted
  <2>2. Registry!Allowed(op[u])
    BY <1>a, <2>1 DEF Allowed, Agree, Registry!Allowed, Registry!IsMounted
  <2>3. P[u] = "called" /\ P' = [P EXCEPT ![u] = "done"]
    BY <1>10, PhaseDone DEF Store
  <2>4. Registry!Add(u)
    BY <1>a, <1>b, <1>10, <2>1, <2>2, <2>3, SameOps
      DEF Store, Registry!Add, Registry!Done
  <2>5. QED
    BY <2>4 DEF Registry!Next
<1>11. ASSUME NEW u \in Users, FailToEncrypt(u) PROVE [Registry!Next]_(Registry!vars)
  <2>1. op[u] \in AddOps /\ op[u].share \in Shares /\ Allowed(op[u])
    BY <1>11, OpTypes DEF FailToEncrypt, Locks, Holding, Permitted
  <2>2. Registry!Allowed(op[u])
    BY <1>a, <2>1 DEF Allowed, Agree, Registry!Allowed, Registry!IsMounted
  <2>3. P[u] = "called" /\ P' = [P EXCEPT ![u] = "done"]
    BY <1>11, PhaseDone DEF FailToEncrypt
  <2>4. Registry!Fail(u)
    BY <1>a, <1>b, <1>11, <2>1, <2>2, <2>3, SameOps
      DEF FailToEncrypt, Registry!Fail, Registry!Done
  <2>5. QED
    BY <2>4 DEF Registry!Next
<1>12. ASSUME NEW u \in Users, EnterUnmount(u) PROVE [Registry!Next]_(Registry!vars)
  <2>1. op[u].share \in Shares
    BY <1>12, OpTypes DEF EnterUnmount, Fields, Locks
  <2>2. P[u] = "called" /\ P' = [P EXCEPT ![u] = "done"]
    BY <1>12, PhaseDone DEF EnterUnmount
  <2>3. stored' = [stored EXCEPT ![op[u].share] = None]
    BY <1>12, <2>1 DEF EnterUnmount, Fields
  <2>4. Registry!Drop(u)
    BY <1>a, <1>b, <1>12, <2>1, <2>2, <2>3, SameOps
      DEF EnterUnmount, Registry!Drop, Registry!Done
  <2>5. QED
    BY <2>4 DEF Registry!Next
<1>13. ASSUME NEW u \in Users, ForgetCredential(u) PROVE [Registry!Next]_(Registry!vars)
  <2>1. P' = P
    BY <1>13, PhaseStays DEF ForgetCredential
  <2>2. UNCHANGED <<stored, disk, op, result>>
    BY <1>13 DEF ForgetCredential, shareVars, userVars, browserVars
  <2>3. QED
    BY <1>a, <1>b, <2>1, <2>2 DEF Registry!vars
<1>14. ASSUME NEW u \in Users, End(u) PROVE [Registry!Next]_(Registry!vars)
  <2>1. P[u] = "done" /\ P' = [P EXCEPT ![u] = "idle"]
    BY <1>14 DEF End, ToUnmount, Phase, Fields
  <2>2. Registry!Return(u)
    BY <1>a, <1>b, <1>14, <2>1 DEF End, ToUnmount, Registry!Return, shareVars
  <2>3. QED
    BY <2>2 DEF Registry!Next
<1>15. ASSUME NEW b \in Browsers, EnterTempMode(b) PROVE [Registry!Next]_(Registry!vars)
  <2>1. P' = P
    BY <1>15, PhaseKept
      DEF EnterTempMode, Disturb, shareVars, userVars, browserVars
  <2>2. UNCHANGED <<stored, disk, op, result>>
    BY <1>15 DEF EnterTempMode, Disturb, shareVars, userVars, browserVars
  <2>3. QED
    BY <1>a, <1>b, <2>1, <2>2 DEF Registry!vars
<1>16. ASSUME NEW b \in Browsers, PutBrowsing(b) PROVE [Registry!Next]_(Registry!vars)
  <2>1. P' = P
    BY <1>16, PhaseKept DEF PutBrowsing, shareVars, userVars, browserVars
  <2>2. UNCHANGED <<stored, disk, op, result>>
    BY <1>16 DEF PutBrowsing, shareVars, userVars, browserVars
  <2>3. QED
    BY <1>a, <1>b, <2>1, <2>2 DEF Registry!vars
<1>17. ASSUME NEW b \in Browsers, List(b) PROVE [Registry!Next]_(Registry!vars)
  <2>1. P' = P
    BY <1>17, PhaseKept DEF List, shareVars, userVars, browserVars
  <2>2. UNCHANGED <<stored, disk, op, result>>
    BY <1>17 DEF List, shareVars, userVars, browserVars
  <2>3. QED
    BY <1>a, <1>b, <2>1, <2>2 DEF Registry!vars
<1>18. ASSUME NEW b \in Browsers, LeaveTempMode(b) PROVE [Registry!Next]_(Registry!vars)
  <2>1. P' = P
    BY <1>18, PhaseKept
      DEF LeaveTempMode, Return, shareVars, userVars, browserVars
  <2>2. UNCHANGED <<stored, disk, op, result>>
    BY <1>18 DEF LeaveTempMode, Return, shareVars, userVars, browserVars
  <2>3. QED
    BY <1>a, <1>b, <2>1, <2>2 DEF Registry!vars
<1>19. CASE Save
  <2>1. P' = P
    BY <1>19, PhaseKept DEF Save, shareVars, userVars, browserVars
  <2>2. Registry!Save
    BY <1>a, <1>b, <1>19, <2>1
      DEF Save, Registry!Save, shareVars, userVars, browserVars
  <2>3. QED
    BY <2>2 DEF Registry!Next
<1>20. CASE Crash
  <2>1. P' = [u \in Users |-> "idle"]
    BY <1>20 DEF Crash, Phase
  <2>2. Registry!Crash
    BY <1>a, <1>b, <1>20, <2>1 DEF Crash, Registry!Crash
  <2>3. QED
    BY <2>2 DEF Registry!Next
<1>21. CASE UNCHANGED vars
  <2>1. P' = P
    BY <1>21, PhaseKept DEF vars, shareVars, userVars, browserVars
  <2>2. UNCHANGED <<stored, disk, op, result>>
    BY <1>21 DEF vars, shareVars, userVars, browserVars
  <2>3. QED
    BY <1>a, <1>b, <2>1, <2>2 DEF Registry!vars
<1>22. QED
  BY <1>1, <1>2, <1>3, <1>4, <1>5, <1>6, <1>7, <1>8, <1>9, <1>10, <1>11,
      <1>12, <1>13, <1>14, <1>15, <1>16, <1>17, <1>18, <1>19, <1>20, <1>21
    DEF Next, Running, UserStep, BrowserStep

-----------------------------------------------------------------------------
(* The browser's temporary mode *)

(* It is on only while somebody browses. *)
TempHeld == creds.tempMode => \E b \in Browsers : bpc[b] # "idle"

(* What put and setTempMode change. *)
LEMMA PutFacts ==
  ASSUME NEW cache \in Caches, NEW k \in Keys, NEW c
  PROVE  /\ Put(cache, k, c).tempMode = cache.tempMode
         /\ Put(cache, k, c).main =
              IF cache.tempMode THEN cache.main ELSE [cache.main EXCEPT ![k] = c]
         /\ Put(cache, k, c).temp =
              IF cache.tempMode THEN [cache.temp EXCEPT ![k] = c] ELSE cache.temp
BY DEF Caches, Put

LEMMA PutKeeps ==
  ASSUME NEW cache \in Caches, NEW k \in Keys, NEW c, NEW other \in Keys \ {k}
  PROVE  /\ Put(cache, k, c).main[other] = cache.main[other]
         /\ Put(cache, k, c).temp[other] = cache.temp[other]
BY DEF Caches, Put

LEMMA ModeFacts ==
  ASSUME NEW cache \in Caches, NEW temp \in BOOLEAN
  PROVE  /\ SetTempMode(cache, temp).tempMode = temp
         /\ SetTempMode(cache, temp).main = cache.main
         /\ SetTempMode(cache, temp).temp = cache.temp
BY DEF Caches, SetTempMode

(* What a new process begins with. *)
LEMMA CacheOfFacts ==
  /\ ~ CacheOf(disk).tempMode
  /\ \A s \in Shares : CacheOf(disk).main[s] = IF disk[s] = None THEN None ELSE disk[s].cred
  /\ CacheOf(disk).main[IPC] = None /\ CacheOf(disk).temp[IPC] = None
BY CredentialAssumption DEF CacheOf, NewCache, Keys

(* The shares of operations are keys of the cache, and not the key IPC. *)
LEMMA OpKeys ==
  ASSUME Fields, NEW u \in Users, op[u] # None
  PROVE  op[u].share \in Shares /\ op[u].share \in Keys /\ op[u].share # IPC
BY OpTypes, CredentialAssumption DEF Fields, Keys

(* The steps of a user leave the mode and the credential for browsing. *)
LEMMA UserCaches ==
  ASSUME Fields, Locks, NEW u \in Users,
         PutCredential(u) \/ RemoveCredential(u) \/ ForgetCredential(u)
  PROVE  /\ creds'.tempMode = creds.tempMode
         /\ creds'.main[IPC] = creds.main[IPC]
         /\ creds'.temp[IPC] = creds.temp[IPC]
<1>1. op[u] # None
  BY DEF PutCredential, RemoveCredential, ForgetCredential, Locks
<1>2. op[u].share \in Keys /\ op[u].share # IPC
  BY <1>1, OpKeys
<1>3. creds \in Caches /\ creds.main \in [Keys -> Credentials \cup {None}]
        /\ creds.temp \in [Keys -> Credentials \cup {None}] /\ IPC \in Keys
  BY DEF Fields, Caches, Keys
<1>4. PICK c : creds' = creds \/ creds' = Put(creds, op[u].share, c)
  BY DEF PutCredential, RemoveCredential, ForgetCredential, Remove
<1>5. CASE creds' = creds
  BY <1>5
<1>6. CASE creds' = Put(creds, op[u].share, c)
  <2>1. creds'.tempMode = creds.tempMode
    BY <1>2, <1>3, <1>6, PutFacts
  <2>2. creds'.main[IPC] = creds.main[IPC] /\ creds'.temp[IPC] = creds.temp[IPC]
    BY <1>2, <1>3, <1>6, PutKeeps
  <2>3. QED
    BY <2>1, <2>2
<1>7. QED
  BY <1>4, <1>5, <1>6

(* Every step keeps it. *)
LEMMA TempNext == Fields /\ Locks /\ TempHeld /\ [Next]_vars => TempHeld'
<1> SUFFICES ASSUME Fields, Locks, TempHeld, [Next]_vars PROVE TempHeld'
  OBVIOUS
<1>a. creds \in Caches /\ Shares \subseteq Keys /\ IPC \in Keys
  BY DEF Fields, Keys
<1>1. ASSUME NEW u \in Users, BeginMount(u) PROVE TempHeld'
  BY <1>1 DEF BeginMount, Begin, TempHeld, browserVars
<1>2. ASSUME NEW u \in Users, BeginAuth(u) PROVE TempHeld'
  BY <1>2 DEF BeginAuth, Begin, TempHeld, browserVars
<1>3. ASSUME NEW u \in Users, BeginUnmount(u) PROVE TempHeld'
  BY <1>3 DEF BeginUnmount, Begin, TempHeld, browserVars
<1>4. ASSUME NEW u \in Users, Cancel(u) PROVE TempHeld'
  BY <1>4 DEF Cancel, TempHeld, browserVars
<1>5. ASSUME NEW u \in Users, HandleCancel(u) PROVE TempHeld'
  BY <1>5 DEF HandleCancel, ToUnmount, TempHeld, browserVars
<1>6. ASSUME NEW u \in Users, EnterAdd(u) PROVE TempHeld'
  BY <1>6 DEF EnterAdd, TempHeld, browserVars
<1>7. ASSUME NEW u \in Users, PutCredential(u) PROVE TempHeld'
  <2>1. creds'.tempMode = creds.tempMode
    BY <1>7, UserCaches
  <2>2. QED
    BY <1>7, <2>1 DEF PutCredential, TempHeld, browserVars
<1>8. ASSUME NEW u \in Users, Check(u) PROVE TempHeld'
  BY <1>8 DEF Check, TempHeld, browserVars
<1>9. ASSUME NEW u \in Users, RemoveCredential(u) PROVE TempHeld'
  <2>1. creds'.tempMode = creds.tempMode
    BY <1>9, UserCaches
  <2>2. QED
    BY <1>9, <2>1 DEF RemoveCredential, TempHeld, browserVars
<1>10. ASSUME NEW u \in Users, Store(u) PROVE TempHeld'
  BY <1>10 DEF Store, TempHeld, browserVars
<1>11. ASSUME NEW u \in Users, FailToEncrypt(u) PROVE TempHeld'
  BY <1>11 DEF FailToEncrypt, TempHeld, browserVars
<1>12. ASSUME NEW u \in Users, EnterUnmount(u) PROVE TempHeld'
  BY <1>12 DEF EnterUnmount, TempHeld, browserVars
<1>13. ASSUME NEW u \in Users, ForgetCredential(u) PROVE TempHeld'
  <2>1. creds'.tempMode = creds.tempMode
    BY <1>13, UserCaches
  <2>2. QED
    BY <1>13, <2>1 DEF ForgetCredential, TempHeld, browserVars
<1>14. ASSUME NEW u \in Users, End(u) PROVE TempHeld'
  BY <1>14 DEF End, ToUnmount, TempHeld, browserVars
<1>15. ASSUME NEW b \in Browsers, EnterTempMode(b) PROVE TempHeld'
  BY <1>15 DEF EnterTempMode, Disturb, TempHeld, Fields
<1>16. ASSUME NEW b \in Browsers, PutBrowsing(b) PROVE TempHeld'
  <2>1. creds'.tempMode = creds.tempMode
    BY <1>a, <1>16 DEF PutBrowsing, Put, Caches
  <2>2. QED
    BY <1>16, <2>1 DEF PutBrowsing, TempHeld, Fields
<1>17. ASSUME NEW b \in Browsers, List(b) PROVE TempHeld'
  BY <1>17 DEF List, TempHeld, Fields
<1>18. ASSUME NEW b \in Browsers, LeaveTempMode(b) PROVE TempHeld'
  BY <1>a, <1>18, ModeFacts DEF LeaveTempMode, Return, TempHeld
<1>19. CASE Save
  BY <1>19 DEF Save, TempHeld, browserVars
<1>20. CASE Crash
  BY <1>20, CacheOfFacts DEF Crash, TempHeld
<1>21. CASE UNCHANGED vars
  BY <1>21 DEF vars, TempHeld, browserVars
<1>22. QED
  BY <1>1, <1>2, <1>3, <1>4, <1>5, <1>6, <1>7, <1>8, <1>9, <1>10, <1>11,
      <1>12, <1>13, <1>14, <1>15, <1>16, <1>17, <1>18, <1>19, <1>20, <1>21
    DEF Next, Running, UserStep, BrowserStep

-----------------------------------------------------------------------------
(* Listings that overlap no other *)

(* What the temporary map has was put there for browsing, and who browses  *)
(* undisturbed is alone, in the temporary mode, with its credential if it  *)
(* has one.                                                                *)
Browsing ==
  /\ creds.temp[IPC] \in browsed \cup {None}
  /\ \A b \in Browsers : used[b] # None => bpc[b] = "listed"
  /\ \A b \in Browsers \ disturbed :
       /\ bpc[b] # "idle" =>
            creds.tempMode /\ \A o \in Browsers \ {b} : bpc[o] = "idle"
       /\ bpc[b] = "put" /\ as[b] # Guest => creds.temp[IPC] = as[b]
  /\ ListsAsUser

(* Every step keeps it. *)
LEMMA BrowsingNext ==
  Fields /\ Locks /\ Browsing /\ [Next]_vars => Browsing'
<1> SUFFICES ASSUME Fields, Locks, Browsing, [Next]_vars PROVE Browsing'
  OBVIOUS
<1>a. creds \in Caches /\ IPC \in Keys
  BY DEF Fields, Keys
<1>b. ASSUME NEW b \in Browsers, bpc[b] # "idle", NEW o \in Browsers \ disturbed,
             o # b
      PROVE  bpc[o] = "idle" /\ used[o] = None
  <2>1. bpc[o] = "idle"
    BY <1>b DEF Browsing
  <2>2. QED
    BY <2>1 DEF Browsing
<1> USE DEF ListsAsUser
<1>1. ASSUME NEW u \in Users, BeginMount(u) PROVE Browsing'
  BY <1>1 DEF BeginMount, Begin, Browsing, browserVars
<1>2. ASSUME NEW u \in Users, BeginAuth(u) PROVE Browsing'
  BY <1>2 DEF BeginAuth, Begin, Browsing, browserVars
<1>3. ASSUME NEW u \in Users, BeginUnmount(u) PROVE Browsing'
  BY <1>3 DEF BeginUnmount, Begin, Browsing, browserVars
<1>4. ASSUME NEW u \in Users, Cancel(u) PROVE Browsing'
  BY <1>4 DEF Cancel, Browsing, browserVars
<1>5. ASSUME NEW u \in Users, HandleCancel(u) PROVE Browsing'
  BY <1>5 DEF HandleCancel, ToUnmount, Browsing, browserVars
<1>6. ASSUME NEW u \in Users, EnterAdd(u) PROVE Browsing'
  BY <1>6 DEF EnterAdd, Browsing, browserVars
<1>7. ASSUME NEW u \in Users, PutCredential(u) PROVE Browsing'
  BY <1>7, UserCaches DEF PutCredential, Browsing, browserVars
<1>8. ASSUME NEW u \in Users, Check(u) PROVE Browsing'
  BY <1>8 DEF Check, Browsing, browserVars
<1>9. ASSUME NEW u \in Users, RemoveCredential(u) PROVE Browsing'
  BY <1>9, UserCaches DEF RemoveCredential, Browsing, browserVars
<1>10. ASSUME NEW u \in Users, Store(u) PROVE Browsing'
  BY <1>10 DEF Store, Browsing, browserVars
<1>11. ASSUME NEW u \in Users, FailToEncrypt(u) PROVE Browsing'
  BY <1>11 DEF FailToEncrypt, Browsing, browserVars
<1>12. ASSUME NEW u \in Users, EnterUnmount(u) PROVE Browsing'
  BY <1>12 DEF EnterUnmount, Browsing, browserVars
<1>13. ASSUME NEW u \in Users, ForgetCredential(u) PROVE Browsing'
  BY <1>13, UserCaches DEF ForgetCredential, Browsing, browserVars
<1>14. ASSUME NEW u \in Users, End(u) PROVE Browsing'
  BY <1>14 DEF End, ToUnmount, Browsing, browserVars
<1>15. ASSUME NEW b \in Browsers, EnterTempMode(b) PROVE Browsing'
  <2>1. creds'.tempMode /\ creds'.temp = creds.temp
    BY <1>a, <1>15, ModeFacts DEF EnterTempMode
  <2>2. bpc[b] = "idle" /\ bpc' = [bpc EXCEPT ![b] = "temp"]
    BY <1>15 DEF EnterTempMode
  <2>3. used' = used /\ browsed' = browsed
    BY <1>15 DEF EnterTempMode
  <2>4. \A o \in Browsers \ {b} : as'[o] = as[o] /\ bpc'[o] = bpc[o]
    BY <1>15, <2>2 DEF EnterTempMode, Fields
  <2>5. bpc'[b] = "temp" /\ used[b] = None
    BY <2>2 DEF Fields, Browsing
  <2>6. CASE \A o \in Browsers : bpc[o] = "idle"
    <3>1. \A o \in Browsers : used[o] = None
      BY <2>6 DEF Browsing
    <3>2. QED
      BY <2>1, <2>3, <2>4, <2>5, <2>6, <3>1 DEF Browsing
  <2>7. CASE ~ \A o \in Browsers : bpc[o] = "idle"
    <3>1. disturbed' = disturbed \cup {o \in Browsers : bpc[o] # "idle"} \cup {b}
      BY <1>15, <2>7 DEF EnterTempMode, Disturb
    <3>2. \A o \in Browsers \ disturbed' : bpc'[o] = "idle" /\ used[o] = None
      BY <2>4, <3>1 DEF Browsing
    <3>3. \A o \in Browsers : used[o] # None => bpc'[o] = "listed"
      BY <2>4, <2>5 DEF Browsing
    <3>4. QED
      BY <2>1, <2>3, <3>2, <3>3 DEF Browsing
  <2>8. QED
    BY <2>6, <2>7
<1>16. ASSUME NEW b \in Browsers, PutBrowsing(b) PROVE Browsing'
  <2>1. bpc[b] = "temp" /\ bpc' = [bpc EXCEPT ![b] = "put"] /\ as' = as
        /\ used' = used /\ disturbed' = disturbed
    BY <1>16 DEF PutBrowsing
  <2>2. bpc'[b] = "put" /\ \A o \in Browsers \ {b} : bpc'[o] = bpc[o]
    BY <2>1 DEF Fields
  <2>3. used[b] = None
    BY <2>1 DEF Browsing
  <2>4. \A o \in Browsers \ disturbed : o # b => bpc'[o] = "idle" /\ used'[o] = None
    BY <1>b, <2>1, <2>2
  <2>5. /\ creds'.tempMode = creds.tempMode
        /\ creds'.temp[IPC] \in browsed' \cup {None}
        /\ creds.tempMode /\ as[b] # Guest => creds'.temp[IPC] = as[b]
    <3>1. CASE as[b] = Guest
      BY <1>16, <3>1 DEF PutBrowsing, Browsing
    <3>2. CASE as[b] # Guest
      <4>1. creds' = Put(creds, IPC, as[b]) /\ browsed' = browsed \cup {as[b]}
        BY <1>16, <3>2 DEF PutBrowsing
      <4>2. CASE creds.tempMode
        <5>1. creds'.temp = [creds.temp EXCEPT ![IPC] = as[b]]
              /\ creds'.tempMode = creds.tempMode
          BY <1>a, <4>1, <4>2 DEF Put, Caches
        <5>2. creds'.temp[IPC] = as[b]
          BY <1>a, <5>1 DEF Caches
        <5>3. QED
          BY <4>1, <5>1, <5>2
      <4>3. CASE ~ creds.tempMode
        <5>1. creds'.temp = creds.temp /\ creds'.tempMode = creds.tempMode
          BY <1>a, <4>1, <4>3 DEF Put, Caches
        <5>2. QED
          BY <4>1, <4>3, <5>1 DEF Browsing
      <4>4. QED
        BY <4>2, <4>3
    <3>3. QED
      BY <3>1, <3>2
  <2>6. b \notin disturbed => creds.tempMode /\ \A o \in Browsers \ {b} : bpc'[o] = "idle"
    BY <2>1, <2>2 DEF Browsing
  <2>7. \A o \in Browsers : used'[o] # None => bpc'[o] = "listed"
    BY <2>1, <2>2, <2>3 DEF Browsing
  <2>8. \A x \in Browsers \ disturbed' :
          /\ used'[x] = None
          /\ bpc'[x] # "idle" =>
               creds'.tempMode /\ \A o \in Browsers \ {x} : bpc'[o] = "idle"
          /\ bpc'[x] = "put" /\ as'[x] # Guest => creds'.temp[IPC] = as'[x]
    <3>1. CASE b \in disturbed
      BY <2>1, <2>4, <3>1
    <3>2. CASE b \notin disturbed
      BY <2>1, <2>2, <2>3, <2>4, <2>5, <2>6, <3>2
    <3>3. QED
      BY <3>1, <3>2
  <2>9. QED
    BY <2>5, <2>7, <2>8 DEF Browsing
<1>17. ASSUME NEW b \in Browsers, List(b) PROVE Browsing'
  <2>1. bpc[b] = "put" /\ bpc' = [bpc EXCEPT ![b] = "listed"] /\ as' = as
        /\ creds' = creds /\ browsed' = browsed /\ disturbed' = disturbed
    BY <1>17 DEF List
  <2>2. bpc'[b] = "listed" /\ \A o \in Browsers \ {b} : bpc'[o] = bpc[o]
    BY <2>1 DEF Fields
  <2>3. \A o \in Browsers \ {b} : used'[o] = used[o]
    BY <1>17 DEF List, Fields
  <2>4. \A o \in Browsers \ disturbed : o # b => bpc'[o] = "idle" /\ used'[o] = None
    BY <1>b, <2>1, <2>2, <2>3
  <2>5. used'[b] = IF Get(creds, IPC) = None THEN Guest ELSE Get(creds, IPC)
    BY <1>17 DEF List, Fields
  <2>6. b \notin disturbed =>
          /\ creds.tempMode /\ \A o \in Browsers \ {b} : bpc'[o] = "idle"
          /\ used'[b] = as[b] \/ (as[b] = Guest /\ used'[b] \in browsed)
    <3> SUFFICES ASSUME b \notin disturbed
                 PROVE  /\ creds.tempMode /\ \A o \in Browsers \ {b} : bpc'[o] = "idle"
                        /\ used'[b] = as[b] \/ (as[b] = Guest /\ used'[b] \in browsed)
      OBVIOUS
    <3>1. creds.tempMode /\ \A o \in Browsers \ {b} : bpc[o] = "idle"
      BY <2>1 DEF Browsing
    <3>2. Get(creds, IPC) = creds.temp[IPC]
      BY <3>1 DEF Get
    <3>3. creds.temp[IPC] \in browsed \cup {None}
      BY DEF Browsing
    <3>4. as[b] # Guest => creds.temp[IPC] = as[b]
      BY <2>1 DEF Browsing
    <3>5. as[b] \in Credentials /\ None \notin Credentials
      BY CredentialAssumption DEF Fields, Credentials
    <3>6. used'[b] = as[b] \/ (as[b] = Guest /\ used'[b] \in browsed)
      BY <2>5, <3>2, <3>3, <3>4, <3>5
    <3>7. QED
      BY <2>2, <3>1, <3>6
  <2>7. \A o \in Browsers : used'[o] # None => bpc'[o] = "listed"
    BY <2>2, <2>3 DEF Browsing
  <2>8. QED
    BY <2>1, <2>2, <2>4, <2>6, <2>7 DEF Browsing
<1>18. ASSUME NEW b \in Browsers, LeaveTempMode(b) PROVE Browsing'
  <2>1. creds'.temp = creds.temp
    BY <1>a, <1>18, ModeFacts DEF LeaveTempMode
  <2>2. bpc[b] = "listed" /\ browsed' = browsed /\ disturbed' = disturbed \ {b}
    BY <1>18 DEF LeaveTempMode, Return
  <2>3. bpc'[b] = "idle" /\ used'[b] = None
    BY <1>18 DEF LeaveTempMode, Return, Fields
  <2>4. \A o \in Browsers \ {b} : bpc'[o] = bpc[o] /\ used'[o] = used[o]
    BY <1>18 DEF LeaveTempMode, Return, Fields
  <2>5. \A o \in Browsers \ disturbed : o # b => bpc[o] = "idle" /\ used[o] = None
    BY <1>b, <2>2
  <2>6. \A o \in Browsers \ disturbed' : bpc'[o] = "idle" /\ used'[o] = None
    BY <2>2, <2>3, <2>4, <2>5
  <2>7. QED
    BY <2>1, <2>2, <2>3, <2>4, <2>6 DEF Browsing
<1>19. CASE Save
  BY <1>19 DEF Save, Browsing, browserVars
<1>20. CASE Crash
  BY <1>20, CacheOfFacts DEF Crash, Browsing
<1>21. CASE UNCHANGED vars
  BY <1>21 DEF vars, Browsing, browserVars
<1>22. QED
  BY <1>1, <1>2, <1>3, <1>4, <1>5, <1>6, <1>7, <1>8, <1>9, <1>10, <1>11,
      <1>12, <1>13, <1>14, <1>15, <1>16, <1>17, <1>18, <1>19, <1>20, <1>21
    DEF Next, Running, UserStep, BrowserStep

(* A listing that overlaps no other leaves the map of the mounted shares.  *)
LEMMA BrowsingSteps ==
  ASSUME Fields, Browsing, NEW b \in Browsers \ disturbed, BrowserStep(b)
  PROVE  creds'.main = creds.main
<1>a. creds \in Caches /\ IPC \in Keys
  BY DEF Fields, Keys
<1>1. CASE PutBrowsing(b)
  <2>1. creds.tempMode
    BY <1>1 DEF PutBrowsing, Browsing
  <2>2. creds' = creds \/ creds' = Put(creds, IPC, as[b])
    BY <1>1 DEF PutBrowsing
  <2>3. QED
    BY <1>a, <2>1, <2>2 DEF Put, Caches
<1>2. CASE List(b)
  BY <1>2 DEF List
<1>3. CASE LeaveTempMode(b)
  BY <1>a, <1>3, ModeFacts DEF LeaveTempMode
<1>4. QED
  BY <1>1, <1>2, <1>3 DEF BrowserStep

-----------------------------------------------------------------------------
(* Nobody browses, and encrypting does not fail *)

Undisturbed == Browsers = {} /\ ~ EncryptionFails

(* The cache has nothing of a share that it should not have. *)
Clean(s) ==
  IF stored[s] = None THEN creds.main[s] = None
  ELSE \/ creds.main[s] \in {None, stored[s].cred}
       \/ stored[s].cred = Guest /\ creds.main[s] = former[s]

(* The credential that is being checked is in the cache; a guest's leaves  *)
(* the cache as it was.                                                    *)
Tried ==
  \A u \in Users :
    /\ pc[u] = "locked" => Clean(op[u].share)
    /\ pc[u] \in {"checking", "storing"} =>
         IF op[u].tuple.cred = Guest THEN Clean(op[u].share)
         ELSE creds.main[op[u].share] = op[u].tuple.cred

Kept == Tried /\ NoOrphanCredential /\ CredentialNotStale

(* What the steps of a user do to the map of the mounted shares. *)
LEMMA MainChanges ==
  ASSUME Undisturbed, Fields, Locks, TempHeld, NEW u \in Users
  PROVE  /\ PutCredential(u) =>
              creds'.main = IF op[u].tuple.cred = Guest THEN creds.main
                            ELSE [creds.main EXCEPT ![op[u].share] = op[u].tuple.cred]
         /\ RemoveCredential(u) \/ ForgetCredential(u) =>
              creds'.main = [creds.main EXCEPT ![op[u].share] = None]
<1>1. creds \in Caches /\ ~ creds.tempMode
  BY DEF Fields, TempHeld, Undisturbed
<1>2. op[u] # None => op[u].share \in Keys
  BY OpKeys
<1>3. pc[u] # "idle" => op[u] # None
  BY DEF Locks
<1>4. \A c : op[u] # None =>
        Put(creds, op[u].share, c).main = [creds.main EXCEPT ![op[u].share] = c]
  BY <1>1, <1>2, PutFacts
<1>5. QED
  BY <1>3, <1>4 DEF PutCredential, RemoveCredential, ForgetCredential, Remove

(* Every step keeps the credentials of the stored shares, and no others. *)
LEMMA KeptNext ==
  Undisturbed /\ Fields /\ Locks /\ TempHeld /\ Kept /\ [Next]_vars => Kept'
<1> SUFFICES ASSUME Undisturbed, Fields, Locks, TempHeld, Kept, [Next]_vars
             PROVE  Kept'
  OBVIOUS
<1>a. creds.main \in [Keys -> Credentials \cup {None}] /\ Shares \subseteq Keys
  BY DEF Fields, Caches, Keys
<1> USE ShareMountsAssumption, CredentialAssumption DEF UserStates, Holding
<1>1. ASSUME NEW u \in Users, BeginMount(u) PROVE Kept'
  <2>1. Tried'
    BY <1>a, <1>1
      DEF BeginMount, Kept, Tried, Clean, Fields, Locks, shareVars, userVars,
        browserVars, Begin
  <2>2. NoOrphanCredential'
    BY <1>a, <1>1
      DEF BeginMount, Kept, NoOrphanCredential, Busy, Fields, Locks,
        shareVars, userVars, browserVars, Begin
  <2>3. CredentialNotStale'
    BY <1>a, <1>1
      DEF BeginMount, Kept, Tried, Clean, CredentialNotStale, Busy, Fields, Locks,
        shareVars, userVars, browserVars, Begin
  <2>4. QED
    BY <2>1, <2>2, <2>3 DEF Kept
<1>2. ASSUME NEW u \in Users, BeginAuth(u) PROVE Kept'
  <2>1. Tried'
    BY <1>a, <1>2
      DEF BeginAuth, Kept, Tried, Clean, Fields, Locks, shareVars, userVars,
        browserVars, Begin
  <2>2. NoOrphanCredential'
    BY <1>a, <1>2
      DEF BeginAuth, Kept, NoOrphanCredential, Busy, Fields, Locks,
        shareVars, userVars, browserVars, Begin
  <2>3. CredentialNotStale'
    BY <1>a, <1>2
      DEF BeginAuth, Kept, Tried, Clean, CredentialNotStale, Busy, Fields, Locks,
        shareVars, userVars, browserVars, Begin
  <2>4. QED
    BY <2>1, <2>2, <2>3 DEF Kept
<1>3. ASSUME NEW u \in Users, BeginUnmount(u) PROVE Kept'
  <2>1. Tried'
    BY <1>a, <1>3
      DEF BeginUnmount, Kept, Tried, Clean, Fields, Locks, shareVars, userVars,
        browserVars, Begin
  <2>2. NoOrphanCredential'
    BY <1>a, <1>3
      DEF BeginUnmount, Kept, NoOrphanCredential, Busy, Fields, Locks,
        shareVars, userVars, browserVars, Begin
  <2>3. CredentialNotStale'
    BY <1>a, <1>3
      DEF BeginUnmount, Kept, Tried, Clean, CredentialNotStale, Busy, Fields, Locks,
        shareVars, userVars, browserVars, Begin
  <2>4. QED
    BY <2>1, <2>2, <2>3 DEF Kept
<1>4. ASSUME NEW u \in Users, Cancel(u) PROVE Kept'
  <2>1. Tried'
    BY <1>a, <1>4
      DEF Cancel, Kept, Tried, Clean, Fields, Locks, shareVars, userVars, browserVars
  <2>2. NoOrphanCredential'
    BY <1>a, <1>4
      DEF Cancel, Kept, NoOrphanCredential, Busy, Fields, Locks, shareVars,
        userVars, browserVars
  <2>3. CredentialNotStale'
    BY <1>a, <1>4
      DEF Cancel, Kept, Tried, Clean, CredentialNotStale, Busy, Fields, Locks,
        shareVars, userVars, browserVars
  <2>4. QED
    BY <2>1, <2>2, <2>3 DEF Kept
<1>5. ASSUME NEW u \in Users, HandleCancel(u) PROVE Kept'
  <2>1. Tried'
    BY <1>a, <1>5
      DEF HandleCancel, ToUnmount, Kept, Tried, Clean, Fields, Locks, shareVars, userVars,
        browserVars
  <2>2. NoOrphanCredential'
    BY <1>a, <1>5
      DEF HandleCancel, ToUnmount, Kept, NoOrphanCredential, Busy, Fields, Locks,
        shareVars, userVars, browserVars
  <2>3. CredentialNotStale'
    BY <1>a, <1>5
      DEF HandleCancel, ToUnmount, Kept, Tried, Clean, CredentialNotStale, Busy, Fields, Locks,
        shareVars, userVars, browserVars
  <2>4. QED
    BY <2>1, <2>2, <2>3 DEF Kept
<1>6. ASSUME NEW u \in Users, EnterAdd(u) PROVE Kept'
  <2>1. Tried'
    <3>1. lock = None => \A s \in Shares : Clean(s)
      <4>1. lock = None => \A s \in Shares : ~ Busy(s)
        BY DEF Locks, Busy
      <4>2. QED
        BY <4>1 DEF Kept, NoOrphanCredential, CredentialNotStale, Clean
    <3>2. op[u].share \in Shares
      BY <1>6, OpTypes DEF EnterAdd
    <3>3. \A s : Clean(s)' <=> Clean(s)
      BY <1>6 DEF EnterAdd, Clean
    <3>4. \A v \in Users \ {u} : pc'[v] = pc[v]
      BY <1>6 DEF EnterAdd, Fields
    <3>5. op' = op /\ creds' = creds
      BY <1>6 DEF EnterAdd
    <3>6. pc'[u] \in {"locked", "returned"} /\ lock = None
      BY <1>6 DEF EnterAdd, Fields
    <3>7. QED
      BY <3>1, <3>2, <3>3, <3>4, <3>5, <3>6 DEF Kept, Tried
  <2>2. NoOrphanCredential'
    BY <1>a, <1>6
      DEF EnterAdd, Kept, NoOrphanCredential, Busy, Fields, Locks, shareVars,
        userVars, browserVars
  <2>3. CredentialNotStale'
    BY <1>a, <1>6
      DEF EnterAdd, Kept, Tried, Clean, CredentialNotStale, Busy, Fields, Locks,
        shareVars, userVars, browserVars
  <2>4. QED
    BY <2>1, <2>2, <2>3 DEF Kept
<1>7. ASSUME NEW u \in Users, PutCredential(u) PROVE Kept'
  <2>1. op[u].share \in Shares
    BY <1>7, OpKeys DEF PutCredential, Locks
  <2>2. creds'.main = IF op[u].tuple.cred = Guest THEN creds.main
                      ELSE [creds.main EXCEPT ![op[u].share] = op[u].tuple.cred]
    BY <1>7, MainChanges
  <2>3. Tried'
    BY <1>a, <1>7, <2>1, <2>2
      DEF PutCredential, Kept, Tried, Clean, Fields, Locks, shareVars, userVars,
        browserVars
  <2>4. NoOrphanCredential'
    BY <1>a, <1>7, <2>1, <2>2
      DEF PutCredential, Kept, NoOrphanCredential, Busy, Fields, Locks,
        shareVars, userVars, browserVars
  <2>5. CredentialNotStale'
    BY <1>a, <1>7, <2>1, <2>2
      DEF PutCredential, Kept, Tried, Clean, CredentialNotStale, Busy, Fields,
        Locks, shareVars, userVars, browserVars
  <2>6. QED
    BY <2>3, <2>4, <2>5 DEF Kept
<1>8. ASSUME NEW u \in Users, Check(u) PROVE Kept'
  <2>1. Tried'
    BY <1>a, <1>8
      DEF Check, Kept, Tried, Clean, Fields, Locks, shareVars, userVars, browserVars
  <2>2. NoOrphanCredential'
    BY <1>a, <1>8
      DEF Check, Kept, NoOrphanCredential, Busy, Fields, Locks, shareVars,
        userVars, browserVars
  <2>3. CredentialNotStale'
    BY <1>a, <1>8
      DEF Check, Kept, Tried, Clean, CredentialNotStale, Busy, Fields, Locks,
        shareVars, userVars, browserVars
  <2>4. QED
    BY <2>1, <2>2, <2>3 DEF Kept
<1>9. ASSUME NEW u \in Users, RemoveCredential(u) PROVE Kept'
  <2>1. op[u].share \in Shares
    BY <1>9, OpKeys DEF RemoveCredential, Locks
  <2>2. creds'.main = [creds.main EXCEPT ![op[u].share] = None]
    BY <1>9, MainChanges
  <2>3. Tried'
    BY <1>a, <1>9, <2>1, <2>2
      DEF RemoveCredential, Kept, Tried, Clean, Fields, Locks, shareVars, userVars,
        browserVars
  <2>4. NoOrphanCredential'
    BY <1>a, <1>9, <2>1, <2>2
      DEF RemoveCredential, Kept, NoOrphanCredential, Busy, Fields, Locks,
        shareVars, userVars, browserVars
  <2>5. CredentialNotStale'
    BY <1>a, <1>9, <2>1, <2>2
      DEF RemoveCredential, Kept, Tried, Clean, CredentialNotStale, Busy, Fields,
        Locks, shareVars, userVars, browserVars
  <2>6. QED
    BY <2>3, <2>4, <2>5 DEF Kept
<1>10. ASSUME NEW u \in Users, Store(u) PROVE Kept'
  <2>1. op[u].share \in Shares /\ op[u].tuple # None
    BY <1>10, OpTypes, NoneAssumption DEF Store, Locks
  <2>2. Tried'
    BY <1>a, <1>10, <2>1
      DEF Store, Kept, Tried, Clean, Fields, Locks, shareVars, userVars, browserVars
  <2>3. NoOrphanCredential'
    BY <1>a, <1>10, <2>1
      DEF Store, Kept, NoOrphanCredential, Busy, Fields, Locks, shareVars,
        userVars, browserVars
  <2>4. CredentialNotStale'
    BY <1>a, <1>10, <2>1
      DEF Store, FormerAfter, Kept, Tried, Clean, CredentialNotStale, Busy, Fields,
        Locks, shareVars, userVars, browserVars
  <2>5. QED
    BY <2>2, <2>3, <2>4 DEF Kept
<1>11. ASSUME NEW u \in Users, FailToEncrypt(u) PROVE Kept'
  BY <1>11 DEF FailToEncrypt, Undisturbed
<1>12. ASSUME NEW u \in Users, EnterUnmount(u) PROVE Kept'
  <2>1. op[u].share \in Shares
    BY <1>12, OpKeys DEF EnterUnmount, Locks, Fields, Unmount
  <2>2. Tried'
    BY <1>a, <1>12, <2>1
      DEF EnterUnmount, Kept, Tried, Clean, Fields, Locks, shareVars, userVars,
        browserVars
  <2>3. NoOrphanCredential'
    BY <1>a, <1>12, <2>1
      DEF EnterUnmount, Kept, NoOrphanCredential, Busy, Fields, Locks,
        shareVars, userVars, browserVars
  <2>4. CredentialNotStale'
    BY <1>a, <1>12, <2>1
      DEF EnterUnmount, Kept, Tried, Clean, CredentialNotStale, Busy, Fields, Locks,
        shareVars, userVars, browserVars
  <2>5. QED
    BY <2>2, <2>3, <2>4 DEF Kept
<1>13. ASSUME NEW u \in Users, ForgetCredential(u) PROVE Kept'
  <2>1. op[u].share \in Shares
    BY <1>13, OpKeys DEF ForgetCredential, Locks
  <2>2. creds'.main = [creds.main EXCEPT ![op[u].share] = None]
    BY <1>13, MainChanges
  <2>3. Tried'
    BY <1>a, <1>13, <2>1, <2>2
      DEF ForgetCredential, Kept, Tried, Clean, Fields, Locks, shareVars, userVars,
        browserVars
  <2>4. NoOrphanCredential'
    BY <1>a, <1>13, <2>1, <2>2
      DEF ForgetCredential, Kept, NoOrphanCredential, Busy, Fields, Locks,
        shareVars, userVars, browserVars
  <2>5. CredentialNotStale'
    BY <1>a, <1>13, <2>1, <2>2
      DEF ForgetCredential, Kept, Tried, Clean, CredentialNotStale, Busy, Fields,
        Locks, shareVars, userVars, browserVars
  <2>6. QED
    BY <2>3, <2>4, <2>5 DEF Kept
<1>14. ASSUME NEW u \in Users, End(u) PROVE Kept'
  <2>1. Tried'
    BY <1>a, <1>14
      DEF End, ToUnmount, Kept, Tried, Clean, Fields, Locks, shareVars, userVars, browserVars
  <2>2. NoOrphanCredential'
    BY <1>a, <1>14
      DEF End, ToUnmount, Kept, NoOrphanCredential, Busy, Fields, Locks, shareVars,
        userVars, browserVars
  <2>3. CredentialNotStale'
    BY <1>a, <1>14
      DEF End, ToUnmount, Kept, Tried, Clean, CredentialNotStale, Busy, Fields, Locks,
        shareVars, userVars, browserVars
  <2>4. QED
    BY <2>1, <2>2, <2>3 DEF Kept
<1>15. ASSUME NEW b \in Browsers, EnterTempMode(b) PROVE Kept'
  BY DEF Undisturbed
<1>16. ASSUME NEW b \in Browsers, PutBrowsing(b) PROVE Kept'
  BY DEF Undisturbed
<1>17. ASSUME NEW b \in Browsers, List(b) PROVE Kept'
  BY DEF Undisturbed
<1>18. ASSUME NEW b \in Browsers, LeaveTempMode(b) PROVE Kept'
  BY DEF Undisturbed
<1>19. CASE Save
  <2>1. Tried'
    BY <1>a, <1>19
      DEF Save, Kept, Tried, Clean, Fields, Locks, shareVars, userVars, browserVars
  <2>2. NoOrphanCredential'
    BY <1>a, <1>19
      DEF Save, Kept, NoOrphanCredential, Busy, Fields, Locks, shareVars,
        userVars, browserVars
  <2>3. CredentialNotStale'
    BY <1>a, <1>19
      DEF Save, Kept, Tried, Clean, CredentialNotStale, Busy, Fields, Locks,
        shareVars, userVars, browserVars
  <2>4. QED
    BY <2>1, <2>2, <2>3 DEF Kept
<1>20. CASE Crash
  BY <1>20, CacheOfFacts
    DEF Crash, Kept, Tried, Clean, NoOrphanCredential, CredentialNotStale, Busy
<1>21. CASE UNCHANGED vars
  <2>1. Tried'
    BY <1>a, <1>21
      DEF vars, Kept, Tried, Clean, Fields, Locks, shareVars, userVars, browserVars
  <2>2. NoOrphanCredential'
    BY <1>a, <1>21
      DEF vars, Kept, NoOrphanCredential, Busy, Fields, Locks, shareVars,
        userVars, browserVars
  <2>3. CredentialNotStale'
    BY <1>a, <1>21
      DEF vars, Kept, Tried, Clean, CredentialNotStale, Busy, Fields, Locks,
        shareVars, userVars, browserVars
  <2>4. QED
    BY <2>1, <2>2, <2>3 DEF Kept
<1>22. QED
  BY <1>1, <1>2, <1>3, <1>4, <1>5, <1>6, <1>7, <1>8, <1>9, <1>10, <1>11,
      <1>12, <1>13, <1>14, <1>15, <1>16, <1>17, <1>18, <1>19, <1>20, <1>21
    DEF Next, Running, UserStep, BrowserStep

-----------------------------------------------------------------------------
(* The list of the stored shares *)

(* A step changes what is stored in silence only until the unmount ends. *)
Told ==
  /\ Stored' = Stored \/ \E u \in Users : pc'[u] = "forgetting"
  /\ (\E u \in Users : pc[u] = "forgetting") =>
       \E u \in Users : pc'[u] = "forgetting"

(* The shares change only where the listeners are told, or will be. *)
LEMMA StoredChanges ==
  ASSUME Fields, Locks, Agree, Permitted, Logins, Running,
         \A u \in Users : ~ Notifies(u)
  PROVE  Told
<1> USE DEF Fields, UserStates, Told
<1>1. ASSUME NEW u \in Users, BeginMount(u) PROVE Told
  BY <1>1 DEF BeginMount, Begin, Stored, shareVars, userVars, browserVars
<1>2. ASSUME NEW u \in Users, BeginAuth(u) PROVE Told
  BY <1>2 DEF BeginAuth, Begin, Stored, shareVars, userVars, browserVars
<1>3. ASSUME NEW u \in Users, BeginUnmount(u) PROVE Told
  BY <1>3 DEF BeginUnmount, Begin, Stored, shareVars, userVars, browserVars
<1>4. ASSUME NEW u \in Users, Cancel(u) PROVE Told
  BY <1>4 DEF Cancel, Stored, shareVars, userVars, browserVars
<1>5. ASSUME NEW u \in Users, HandleCancel(u) PROVE Told
  BY <1>5 DEF HandleCancel, ToUnmount, Stored, shareVars, userVars, browserVars
<1>6. ASSUME NEW u \in Users, EnterAdd(u) PROVE Told
  BY <1>6 DEF EnterAdd, Stored, shareVars, userVars, browserVars
<1>7. ASSUME NEW u \in Users, PutCredential(u) PROVE Told
  BY <1>7 DEF PutCredential, Stored, shareVars, userVars, browserVars
<1>8. ASSUME NEW u \in Users, Check(u) PROVE Told
  BY <1>8 DEF Check, Stored, shareVars, userVars, browserVars
<1>9. ASSUME NEW u \in Users, RemoveCredential(u) PROVE Told
  BY <1>9 DEF RemoveCredential, Stored, shareVars, userVars, browserVars
<1>10. ASSUME NEW u \in Users, Store(u) PROVE Told
  <2>1. op[u] \in AddOps /\ op[u].share \in Shares /\ op[u].tuple # None
    BY <1>10, OpTypes, NoneAssumption DEF Store, Locks, Holding
  <2>2. ~ op[u].tuple.mounted
    BY <1>10 DEF Notifies
  <2>3. stored[op[u].share] # None
    BY <1>10, <2>1, <2>2 DEF Store, Logins, Permitted, Allowed, Agree
  <2>4. Stored' = Stored
    BY <1>10, <2>1, <2>3 DEF Store, Stored
  <2>5. \A v \in Users : pc[v] # "forgetting"
    BY <1>10 DEF Store, Locks, Holding
  <2>6. QED
    BY <2>4, <2>5
<1>11. ASSUME NEW u \in Users, FailToEncrypt(u) PROVE Told
  BY <1>11 DEF FailToEncrypt, Stored, shareVars, userVars, browserVars
<1>12. ASSUME NEW u \in Users, EnterUnmount(u) PROVE Told
  <2>1. CASE stored[op[u].share] = None
    BY <1>12, <2>1 DEF EnterUnmount, Stored
  <2>2. CASE stored[op[u].share] # None
    BY <1>12, <2>2 DEF EnterUnmount
  <2>3. QED
    BY <2>1, <2>2
<1>13. ASSUME NEW u \in Users, ForgetCredential(u) PROVE Told
  BY <1>13 DEF Notifies
<1>14. ASSUME NEW u \in Users, End(u) PROVE Told
  BY <1>14 DEF End, ToUnmount, Stored, shareVars, userVars, browserVars
<1>15. ASSUME NEW b \in Browsers, EnterTempMode(b) PROVE Told
  BY <1>15 DEF EnterTempMode, Disturb, Stored, shareVars, userVars, browserVars
<1>16. ASSUME NEW b \in Browsers, PutBrowsing(b) PROVE Told
  BY <1>16 DEF PutBrowsing, Stored, shareVars, userVars, browserVars
<1>17. ASSUME NEW b \in Browsers, List(b) PROVE Told
  BY <1>17 DEF List, Stored, shareVars, userVars, browserVars
<1>18. ASSUME NEW b \in Browsers, LeaveTempMode(b) PROVE Told
  BY <1>18 DEF LeaveTempMode, Return, Stored, shareVars, userVars, browserVars
<1>19. CASE Save
  BY <1>19 DEF Save, Stored, shareVars, userVars, browserVars
<1>20. /\ \A u \in Users : UserStep(u) => Told
       /\ \A b \in Browsers : BrowserStep(b) => Told
  <2> HIDE DEF Told
  <2>1. QED
    BY <1>5, <1>6, <1>7, <1>8, <1>9, <1>10, <1>11, <1>12, <1>13, <1>14,
        <1>16, <1>17, <1>18
      DEF UserStep, BrowserStep
<1>21. QED
  <2> HIDE DEF Told
  <2>1. QED
    BY <1>1, <1>2, <1>3, <1>4, <1>15, <1>19, <1>20 DEF Running

(* The list is that of the stored shares but for an unmount under way. *)
ListInv ==
  /\ view \in {"closed", "opened", "listening"}
  /\ view # "closed" /\ ~ missed =>
       \/ listed = Stored
       \/ view = "listening" /\ \E u \in Users : pc[u] = "forgetting"

(* Every step keeps this. *)
LEMMA ListInvNext ==
  /\ Fields /\ Locks /\ Agree /\ Permitted /\ Logins
  /\ ListInv
  /\ [ListNext]_allVars
  => ListInv'
<1> SUFFICES ASSUME Fields, Locks, Agree, Permitted, Logins, ListInv, [ListNext]_allVars
             PROVE  ListInv'
  OBVIOUS
<1>1. CASE Open
  BY <1>1 DEF Open, ListInv, Stored, vars, shareVars
<1>2. CASE AddListener
  BY <1>2 DEF AddListener, ListInv, Stored, vars, shareVars
<1>3. CASE Leave
  BY <1>3 DEF Leave, ListInv
<1>4. CASE ShareStep
  <2>1. CASE view = "listening" /\ \E u \in Users : Notifies(u)
    BY <1>4, <2>1 DEF ShareStep, ListInv
  <2>2. CASE view = "listening" /\ \A u \in Users : ~ Notifies(u)
    BY <1>4, <2>2, StoredChanges DEF ShareStep, ListInv, Told
  <2>3. CASE view = "opened"
    BY <1>4, <2>3 DEF ShareStep, ListInv
  <2>4. CASE view = "closed"
    BY <1>4, <2>4 DEF ShareStep, ListInv
  <2>5. QED
    BY <2>1, <2>2, <2>3, <2>4 DEF ListInv
<1>5. CASE ProcessDies
  BY <1>5 DEF ProcessDies, ListInv
<1>6. CASE UNCHANGED allVars
  BY <1>6 DEF allVars, vars, listVars, shareVars, userVars, ListInv, Stored
<1>7. QED
  BY <1>1, <1>2, <1>3, <1>4, <1>5, <1>6 DEF ListNext

-----------------------------------------------------------------------------
(* Theorems *)

(* The inductive invariant of the operations on shares. *)
IInv == Fields /\ Locks /\ Agree /\ Permitted /\ Logins /\ TempHeld

(* At first there are no shares, and nobody browses. *)
LEMMA IInvInit == Init => IInv
<1> SUFFICES ASSUME Init PROVE IInv
  OBVIOUS
<1>1. Fields /\ Locks
  BY TypeInit, Split
<1>2. Agree /\ Permitted /\ Logins
  BY NoneAssumption DEF Init, Agree, Permitted, Logins, Ops
<1>3. TempHeld
  BY DEF Init, NewCache, TempHeld
<1>4. QED
  BY <1>1, <1>2, <1>3 DEF IInv

(* Every step keeps it. *)
LEMMA IInvNext == IInv /\ [Next]_vars => IInv'
BY TypeNext, CollectionsNext, TempNext DEF IInv

(* It holds in every reachable state. *)
LEMMA Inductive == Spec => []IInv
BY IInvInit, IInvNext, PTL DEF Spec

(* The state stays well formed, and the monitor is that of the user in a   *)
(* @Synchronized method, whatever fails, is cancelled or dies.             *)
THEOREM TypeCorrect == Spec => []TypeOK
<1>1. IInv => TypeOK
  BY Split DEF IInv
<1>2. QED
  BY Inductive, <1>1, PTL

(* ShareManager implements the registry of shares.                         *)
THEOREM RegistryImplemented == Spec => ImplementsRegistry
<1>1. Init => Registry!Init
  BY InitRefines
<1>2. IInv /\ IInv' /\ [Next]_vars => [Registry!Next]_(Registry!vars)
  BY NextRefines DEF IInv
<1>3. QED
  BY Inductive, <1>1, <1>2, PTL DEF Spec, ImplementsRegistry, Registry!Spec

(* After any number of overlapping listings the cache is back.             *)
THEOREM TempModeEndsHolds == Spec => []TempModeEnds
<1>1. IInv => TempModeEnds
  BY DEF IInv, TempHeld, TempModeEnds
<1>2. QED
  BY Inductive, <1>1, PTL

(* Who browses undisturbed is in its own mode.                             *)
LEMMA BrowsingHolds == Spec => []Browsing
<1>1. Init => Browsing
  BY CredentialAssumption
    DEF Init, NewCache, Keys, Browsing, ListsAsUser
<1>2. IInv /\ Browsing /\ [Next]_vars => Browsing'
  BY BrowsingNext DEF IInv
<1>3. QED
  BY Inductive, <1>1, <1>2, PTL DEF Spec

(* Of any number of listings, each that overlaps no other uses the         *)
(* credential that was given for it, whatever users mount and unmount      *)
(* meanwhile; one for a guest may use one of an earlier listing.           *)
THEOREM ListsAsUserHolds == Spec => []ListsAsUser
<1>1. Browsing => ListsAsUser
  BY DEF Browsing
<1>2. QED
  BY BrowsingHolds, <1>1, PTL

(* It leaves the map of the mounted shares as it is, where a mount or a    *)
(* later listing would find what it puts.                                  *)
THEOREM BrowsingIsTemporaryHolds == Spec => BrowsingIsTemporary
<1>1. IInv /\ Browsing /\ [Next]_vars =>
        [\A b \in Browsers \ disturbed :
           BrowserStep(b) => creds'.main = creds.main]_vars
  BY BrowsingSteps DEF IInv
<1>2. QED
  BY Inductive, BrowsingHolds, <1>1, PTL DEF Spec, BrowsingIsTemporary

(* Where nobody browses and encrypting does not fail, every user leaves    *)
(* the cache to the others as the stored shares need it.                   *)
LEMMA CredentialsKept ==
  ASSUME Undisturbed
  PROVE  Spec => []Kept
<1>1. Init => Kept
  BY
    DEF Init, NewCache, Keys, Kept, Tried, Clean, NoOrphanCredential,
      CredentialNotStale
<1>2. IInv /\ Kept /\ [Next]_vars => Kept'
  BY Undisturbed, KeptNext DEF IInv
<1>3. QED
  BY Inductive, <1>1, <1>2, PTL DEF Spec

(* The cache has no credential of a share that is neither stored nor just  *)
(* being added or removed.                                                 *)
THEOREM NoOrphanCredentialHolds ==
  ASSUME Undisturbed
  PROVE  Spec => []NoOrphanCredential
<1>1. Kept => NoOrphanCredential
  BY DEF Kept
<1>2. QED
  BY CredentialsKept, <1>1, PTL

(* What it has for a stored share is the credential that is stored with    *)
(* it, after any number of mounts, failed updates and unmounts; or, where  *)
(* that is a guest's, the one that was stored before.                      *)
THEOREM CredentialNotStaleHolds ==
  ASSUME Undisturbed
  PROVE  Spec => []CredentialNotStale
<1>1. Kept => CredentialNotStale
  BY DEF Kept
<1>2. QED
  BY CredentialsKept, <1>1, PTL

(* The server list shows what is stored, for any operations of any users.  *)
THEOREM ListIsCurrentHolds == ListSpec => []ListIsCurrent
<1>1. ListInit => IInv /\ ListInv
  BY IInvInit DEF ListInit, ListInv
<1>2. IInv /\ ListInv /\ [ListNext]_allVars => IInv' /\ ListInv'
  <2> SUFFICES ASSUME IInv, ListInv, [ListNext]_allVars PROVE IInv' /\ ListInv'
    OBVIOUS
  <2>1. [Next]_vars
    BY
      DEF ListNext, Open, AddListener, Leave, ShareStep, ProcessDies, Next,
        allVars
  <2>2. QED
    BY <2>1, IInvNext, ListInvNext DEF IInv
<1>3. IInv /\ ListInv => ListIsCurrent
  BY ShareMountsAssumption DEF IInv, Locks, Holding, ListInv, ListIsCurrent
<1>4. QED
  BY <1>1, <1>2, <1>3, PTL DEF ListSpec

=============================================================================
