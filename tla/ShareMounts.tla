----------------------------- MODULE ShareMounts -----------------------------
(***************************************************************************)
(* Mounting shares: ShareManager (its maps, its saved preferences and its  *)
(* monitor), the native credential cache it fills, the activities that     *)
(* add, authenticate, cancel and eject shares, and NetworkBrowser, which   *)
(* puts the same cache into its temporary mode.  Every call to the cache   *)
(* is a request to the Samba thread, so the calls of different threads     *)
(* interleave although ShareManager's methods exclude each other.          *)
(***************************************************************************)
EXTENDS CredentialCache

CONSTANTS
  Users,            \* the activities and binder threads that use ShareManager
  Browsers,         \* the coroutines in NetworkBrowser.getShares
  EncryptionFails   \* whether EncryptionManager may fail to encrypt

ASSUME ShareMountsAssumption ==
  /\ None \notin Users
  /\ EncryptionFails \in BOOLEAN

VARIABLES
  stored,     \* ShareManager.serverStringMap: the tuple of each share, or None
  mounted,    \* ShareManager.mountedServerSet
  disk,       \* what of serverStringMap the preferences file holds
  lock,       \* the user in a @Synchronized method, or None
  creds,      \* the native credential cache
  pc,         \* pc[u]: where u is in its operation
  op,         \* op[u]: the operation
  result,     \* result[u]: how it ended
  cancelled,  \* the users whose mount has been cancelled
  bpc,        \* bpc[b]: where b is in getShares
  as,         \* as[b]: the credential b browses with
  used,       \* used[b]: the credential the server was given for b's listing
  former,     \* history: former[s]: the credential with which s was stored
              \* before it became a guest's, or None
  browsed,    \* history: the credentials that were put for browsing
  disturbed   \* history: the listings that overlapped another

shareVars == <<stored, mounted, former, disk, lock>>
userVars == <<pc, op, result, cancelled>>
browserVars == <<bpc, as, used, browsed, disturbed>>
vars == <<shareVars, creds, userVars, browserVars>>

Tuples == [cred : Credentials, mounted : BOOLEAN]

AddOps == [type : {"add"}, share : Shares, tuple : Tuples, update : BOOLEAN]
Unmount(s) == [type |-> "unmount", share |-> s]
Ops == AddOps \cup {Unmount(s) : s \in Shares}

ASSUME NoneAssumption == None \notin Ops \cup Tuples

UserStates == {"idle", "called", "locked", "checking", "storing", "failing",
               "forgetting", "returned"}

(* The users in a @Synchronized method. *)
Holding == {"locked", "checking", "storing", "failing", "forgetting"}

TypeOK ==
  /\ stored \in [Shares -> Tuples \cup {None}]
  /\ mounted \in SUBSET Shares
  /\ disk \in [Shares -> Tuples \cup {None}]
  /\ lock \in Users \cup {None}
  /\ creds \in Caches
  /\ pc \in [Users -> UserStates]
  /\ op \in [Users -> Ops \cup {None}]
  /\ result \in [Users -> {"ok", "failed", "illegal", None}]
  /\ cancelled \in SUBSET Users
  /\ bpc \in [Browsers -> {"idle", "temp", "put", "listed"}]
  /\ as \in [Browsers -> Credentials]
  /\ used \in [Browsers -> Credentials \cup {None}]
  /\ former \in [Shares -> Creds \cup {None}]
  /\ browsed \in SUBSET Creds
  /\ disturbed \in SUBSET Browsers
  /\ \A u \in Users : lock = u <=> pc[u] \in Holding
  /\ \A u \in Users : pc[u] # "idle" <=> op[u] # None
  /\ \A u \in Users : pc[u] \in Holding \ {"forgetting"} => op[u] \in AddOps

(* What ShareManager's constructor makes of the tuples it finds saved. *)
MountedIn(saved) == {s \in Shares : saved[s] # None /\ saved[s].mounted}
CacheOf(saved) ==
  [NewCache EXCEPT !.main = [k \in Keys |->
     IF k \in Shares /\ saved[k] # None THEN saved[k].cred ELSE None]]

Init ==
  /\ stored = [s \in Shares |-> None]
  /\ mounted = {}
  /\ disk = stored
  /\ lock = None
  /\ creds = NewCache
  /\ pc = [u \in Users |-> "idle"]
  /\ op = [u \in Users |-> None]
  /\ result = [u \in Users |-> None]
  /\ cancelled = {}
  /\ bpc = [b \in Browsers |-> "idle"]
  /\ as = [b \in Browsers |-> Guest]
  /\ used = [b \in Browsers |-> None]
  /\ former = [s \in Shares |-> None]
  /\ browsed = {}
  /\ disturbed = {}

-----------------------------------------------------------------------------
(* The activities *)

Begin(u, o) ==
  /\ pc[u] = "idle"
  /\ pc' = [pc EXCEPT ![u] = "called"]
  /\ op' = [op EXCEPT ![u] = o]
  /\ UNCHANGED <<shareVars, creds, result, cancelled, browserVars>>

(* MountServerActivity; in edit mode it was opened on a share that was stored. *)
BeginMount(u) ==
  \E s \in Shares, c \in Credentials, edit \in BOOLEAN :
    /\ edit => \E t \in Shares : stored[t] # None
    /\ Begin(u, [type |-> "add", share |-> s,
                 tuple |-> [cred |-> c, mounted |-> TRUE], update |-> edit])

(* AuthActivity, opened when a document of the share could not be read. *)
BeginAuth(u) ==
  \E s \in Shares, c \in Creds :
    Begin(u, [type |-> "add", share |-> s,
              tuple |-> [cred |-> c, mounted |-> FALSE], update |-> TRUE])

(* The eject buttons of ServerListActivity and of the file manager. *)
BeginUnmount(u) == \E s \in Shares : Begin(u, Unmount(s))

(* The activity is destroyed; its coroutine finds out when addServer is over. *)
Cancel(u) ==
  /\ pc[u] # "idle"
  /\ op[u] \in AddOps /\ op[u].tuple.mounted
  /\ cancelled' = cancelled \cup {u}
  /\ UNCHANGED <<shareVars, creds, pc, op, result, browserVars>>

(* A cancelled mount that fails or is refused ends with its own exception. *)
ToUnmount(u) == u \in cancelled /\ op[u] \in AddOps /\ result[u] \in {None, "ok"}

(* mountServer's handler: a cancelled mount goes on to unmountServer. *)
HandleCancel(u) ==
  /\ pc[u] \in {"called", "returned"}
  /\ ToUnmount(u)
  /\ pc' = [pc EXCEPT ![u] = "called"]
  /\ op' = [op EXCEPT ![u] = Unmount(op[u].share)]
  /\ result' = [result EXCEPT ![u] = None]
  /\ UNCHANGED <<shareVars, creds, cancelled, browserVars>>

End(u) ==
  /\ pc[u] = "returned"
  /\ ~ ToUnmount(u)
  /\ pc' = [pc EXCEPT ![u] = "idle"]
  /\ op' = [op EXCEPT ![u] = None]
  /\ result' = [result EXCEPT ![u] = None]
  /\ cancelled' = cancelled \ {u}
  /\ UNCHANGED <<shareVars, creds, browserVars>>

-----------------------------------------------------------------------------
(* ShareManager.addServer *)

Allowed(o) == o.update <=> o.share \in mounted

(* The monitor is taken and the existence of the share checked. *)
EnterAdd(u) ==
  /\ pc[u] = "called"
  /\ op[u] \in AddOps
  /\ lock = None
  /\ IF Allowed(op[u])
     THEN /\ lock' = u
          /\ pc' = [pc EXCEPT ![u] = "locked"]
          /\ UNCHANGED result
     ELSE /\ pc' = [pc EXCEPT ![u] = "returned"]
          /\ result' = [result EXCEPT ![u] = "illegal"]
          /\ UNCHANGED lock
  /\ UNCHANGED <<stored, mounted, former, disk, creds, op, cancelled, browserVars>>

(* A credential that is complete goes into the cache before it is checked. *)
PutCredential(u) ==
  /\ pc[u] = "locked"
  /\ creds' = IF op[u].tuple.cred = Guest THEN creds
              ELSE Put(creds, op[u].share, op[u].tuple.cred)
  /\ pc' = [pc EXCEPT ![u] = "checking"]
  /\ UNCHANGED <<shareVars, op, result, cancelled, browserVars>>

(* checker() lists the share; it may fail for any reason. *)
Check(u) ==
  /\ pc[u] = "checking"
  /\ \E ok \in BOOLEAN :
       /\ pc' = [pc EXCEPT ![u] = IF ok THEN "storing" ELSE "failing"]
       /\ result' = IF ok THEN result ELSE [result EXCEPT ![u] = "failed"]
  /\ UNCHANGED <<shareVars, creds, op, cancelled, browserVars>>

(* Mutant: the credential of a failed attempt stays in the cache. *)
KeepCredential(u) ==
  /\ pc[u] = "failing"
  /\ lock' = None
  /\ pc' = [pc EXCEPT ![u] = "returned"]
  /\ UNCHANGED <<stored, mounted, former, disk, creds, op, result, cancelled, browserVars>>

(* The handler of saveAndCheckServerCredentials. *)
RemoveCredential(u) ==
  /\ pc[u] = "failing"
  /\ creds' = Remove(creds, op[u].share)
  /\ lock' = None
  /\ pc' = [pc EXCEPT ![u] = "returned"]
  /\ UNCHANGED <<stored, mounted, former, disk, op, result, cancelled, browserVars>>

(* What stays in the cache when the share is stored as t: the credential   *)
(* that it had, if a guest has it now, for whom PutCredential put nothing. *)
FormerAfter(s, t) ==
  IF t.cred # Guest THEN None
  ELSE IF stored[s] # None /\ stored[s].cred # Guest THEN stored[s].cred
  ELSE former[s]

(* updateServersData; the preferences are written later, by apply(). *)
Store(u) ==
  /\ pc[u] = "storing"
  /\ LET s == op[u].share
         t == op[u].tuple
     IN  /\ stored' = [stored EXCEPT ![s] = t]
         /\ mounted' = IF t.mounted THEN mounted \cup {s} ELSE mounted \ {s}
         /\ former' = [former EXCEPT ![s] = FormerAfter(s, t)]
  /\ lock' = None
  /\ pc' = [pc EXCEPT ![u] = "returned"]
  /\ result' = [result EXCEPT ![u] = "ok"]
  /\ UNCHANGED <<disk, creds, op, cancelled, browserVars>>

(* encrypt() throws before anything is changed; the credential stays. *)
FailToEncrypt(u) ==
  /\ EncryptionFails
  /\ pc[u] = "storing"
  /\ lock' = None
  /\ pc' = [pc EXCEPT ![u] = "returned"]
  /\ result' = [result EXCEPT ![u] = "failed"]
  /\ UNCHANGED <<stored, mounted, former, disk, creds, op, cancelled, browserVars>>

-----------------------------------------------------------------------------
(* ShareManager.unmountServer *)

(* Mutant: unmountServer is not @Synchronized. *)
UnmountUnlocked(u) ==
  /\ pc[u] = "called"
  /\ op[u] = Unmount(op[u].share)
  /\ stored' = [stored EXCEPT ![op[u].share] = None]
  /\ former' = [former EXCEPT ![op[u].share] = None]
  /\ mounted' = mounted \ {op[u].share}
  /\ pc' = [pc EXCEPT ![u] = "forgetting"]
  /\ result' = [result EXCEPT ![u] = "ok"]
  /\ UNCHANGED <<disk, lock, creds, op, cancelled, browserVars>>

(* Mutant: unmountServer forgets mountedServerSet. *)
UnmountKeepsMounted(u) ==
  /\ pc[u] = "called"
  /\ op[u] = Unmount(op[u].share)
  /\ lock = None
  /\ lock' = u
  /\ stored' = [stored EXCEPT ![op[u].share] = None]
  /\ former' = [former EXCEPT ![op[u].share] = None]
  /\ pc' = [pc EXCEPT ![u] = "forgetting"]
  /\ result' = [result EXCEPT ![u] = "ok"]
  /\ UNCHANGED <<mounted, disk, creds, op, cancelled, browserVars>>

EnterUnmount(u) ==
  /\ pc[u] = "called"
  /\ op[u] = Unmount(op[u].share)
  /\ lock = None
  /\ IF stored[op[u].share] = None
     THEN /\ pc' = [pc EXCEPT ![u] = "returned"]
          /\ UNCHANGED <<stored, mounted, former, lock>>
     ELSE /\ stored' = [stored EXCEPT ![op[u].share] = None]
          /\ former' = [former EXCEPT ![op[u].share] = None]
          /\ mounted' = mounted \ {op[u].share}
          /\ lock' = u
          /\ pc' = [pc EXCEPT ![u] = "forgetting"]
  /\ result' = [result EXCEPT ![u] = "ok"]
  /\ UNCHANGED <<disk, creds, op, cancelled, browserVars>>

(* Mutant: unmountServer leaves the credential in the cache. *)
ForgetNothing(u) ==
  /\ pc[u] = "forgetting"
  /\ lock' = None
  /\ pc' = [pc EXCEPT ![u] = "returned"]
  /\ UNCHANGED <<stored, mounted, former, disk, creds, op, result, cancelled, browserVars>>

ForgetCredential(u) ==
  /\ pc[u] = "forgetting"
  /\ creds' = Remove(creds, op[u].share)
  /\ lock' = None
  /\ pc' = [pc EXCEPT ![u] = "returned"]
  /\ UNCHANGED <<stored, mounted, former, disk, op, result, cancelled, browserVars>>

-----------------------------------------------------------------------------
(* NetworkBrowser.getShares *)

(* A listing that begins beside others disturbs them and is disturbed. *)
Disturb(b) ==
  LET others == {o \in Browsers : bpc[o] # "idle"}
  IN  disturbed' = IF others = {} THEN disturbed
                   ELSE disturbed \cup others \cup {b}

(* Mutant: getShares does not switch the cache over. *)
StayInMainMode(b) ==
  /\ bpc[b] = "idle"
  /\ \E c \in Credentials : as' = [as EXCEPT ![b] = c]
  /\ bpc' = [bpc EXCEPT ![b] = "temp"]
  /\ Disturb(b)
  /\ UNCHANGED <<shareVars, creds, userVars, used, browsed>>

EnterTempMode(b) ==
  /\ bpc[b] = "idle"
  /\ \E c \in Credentials : as' = [as EXCEPT ![b] = c]
  /\ creds' = SetTempMode(creds, TRUE)
  /\ bpc' = [bpc EXCEPT ![b] = "temp"]
  /\ Disturb(b)
  /\ UNCHANGED <<shareVars, userVars, used, browsed>>

(* Mutant: the credential is stored under a key the server is not asked for. *)
PutElsewhere(b) ==
  /\ bpc[b] = "temp"
  /\ bpc' = [bpc EXCEPT ![b] = "put"]
  /\ UNCHANGED <<shareVars, creds, userVars, as, used, browsed, disturbed>>

PutBrowsing(b) ==
  /\ bpc[b] = "temp"
  /\ IF as[b] = Guest
     THEN UNCHANGED <<creds, browsed>>
     ELSE /\ creds' = Put(creds, IPC, as[b])
          /\ browsed' = browsed \cup {as[b]}
  /\ bpc' = [bpc EXCEPT ![b] = "put"]
  /\ UNCHANGED <<shareVars, userVars, as, used, disturbed>>

(* openDir asks the cache; listing the server may fail or be cancelled. *)
List(b) ==
  /\ bpc[b] = "put"
  /\ used' = [used EXCEPT ![b] =
                IF Get(creds, IPC) = None THEN Guest ELSE Get(creds, IPC)]
  /\ bpc' = [bpc EXCEPT ![b] = "listed"]
  /\ UNCHANGED <<shareVars, creds, userVars, as, browsed, disturbed>>

(* The list goes to the caller. *)
Return(b) ==
  /\ bpc[b] = "listed"
  /\ bpc' = [bpc EXCEPT ![b] = "idle"]
  /\ as' = [as EXCEPT ![b] = Guest]
  /\ used' = [used EXCEPT ![b] = None]
  /\ disturbed' = disturbed \ {b}
  /\ UNCHANGED <<shareVars, userVars, browsed>>

(* Mutant: the temporary mode is left on. *)
StayInTempMode(b) == Return(b) /\ UNCHANGED creds

(* The finally block. *)
LeaveTempMode(b) == Return(b) /\ creds' = SetTempMode(creds, FALSE)

-----------------------------------------------------------------------------
(* The preferences file catches up with the latest apply(). *)
Save ==
  /\ disk' = stored
  /\ UNCHANGED <<stored, mounted, former, lock, creds, userVars, browserVars>>

(* The process dies and starts again. *)
Crash ==
  /\ stored' = disk
  /\ mounted' = MountedIn(disk)
  /\ lock' = None
  /\ creds' = CacheOf(disk)
  /\ pc' = [u \in Users |-> "idle"]
  /\ op' = [u \in Users |-> None]
  /\ result' = [u \in Users |-> None]
  /\ cancelled' = {}
  /\ bpc' = [b \in Browsers |-> "idle"]
  /\ as' = [b \in Browsers |-> Guest]
  /\ used' = [b \in Browsers |-> None]
  /\ former' = [s \in Shares |-> None]
  /\ browsed' = {}
  /\ disturbed' = {}
  /\ UNCHANGED disk

UserStep(u) ==
  \/ HandleCancel(u)
  \/ EnterAdd(u)
  \/ PutCredential(u)
  \/ Check(u)
  \/ RemoveCredential(u)
  \/ Store(u)
  \/ FailToEncrypt(u)
  \/ EnterUnmount(u)
  \/ ForgetCredential(u)
  \/ End(u)

BrowserStep(b) == PutBrowsing(b) \/ List(b) \/ LeaveTempMode(b)

Running ==
  \/ \E u \in Users :
       \/ BeginMount(u) \/ BeginAuth(u) \/ BeginUnmount(u)
       \/ Cancel(u)
       \/ UserStep(u)
  \/ \E b \in Browsers : EnterTempMode(b) \/ BrowserStep(b)
  \/ Save

Next == Running \/ Crash

Spec == Init /\ [][Next]_vars
-----------------------------------------------------------------------------
(* Some user is between the two ends of an operation on s. *)
Busy(s) == \E u \in Users : pc[u] \in Holding /\ op[u].share = s

(***************************************************************************)
(* No credential outlives its share: what the cache holds for a share is   *)
(* there because the share is stored or is just being added or removed.    *)
(* Every way out of addServer but a failing encrypt() keeps this.          *)
(***************************************************************************)
NoOrphanCredential ==
  \A s \in Shares : creds.main[s] # None => stored[s] # None \/ Busy(s)

(***************************************************************************)
(* A stored share is accessed with its own credential or none: a failed    *)
(* update takes the credential it tried out of the cache again (and with   *)
(* it, in this code, the one that was good).  One thing else stays: a      *)
(* share that is edited to be a guest's is still accessed with the         *)
(* credential it had, because saveAndCheckServerCredentials puts nothing   *)
(* for an empty user name, and removes nothing either.                     *)
(***************************************************************************)
CredentialNotStale ==
  \A s \in Shares :
    stored[s] # None /\ ~ Busy(s) =>
      \/ creds.main[s] \in {None, stored[s].cred}
      \/ stored[s].cred = Guest /\ creds.main[s] = former[s]

(***************************************************************************)
(* A listing that overlapped no other is of what the user it was called    *)
(* for may see.  One for a guest may be given, instead, a credential of an *)
(* earlier listing, since the temporary map is never cleared; never that   *)
(* of a mounted share which nobody browsed with.                           *)
(***************************************************************************)
ListsAsUser ==
  \A b \in Browsers \ disturbed :
    used[b] # None =>
      used[b] = as[b] \/ (as[b] = Guest /\ used[b] \in browsed)

(***************************************************************************)
(* A listing that overlaps no other leaves the map of the mounted shares   *)
(* as it is: its credential goes into the temporary one.                   *)
(***************************************************************************)
BrowsingIsTemporary ==
  [][\A b \in Browsers \ disturbed :
       BrowserStep(b) => creds'.main = creds.main]_vars

(***************************************************************************)
(* Browsing over, the cache is back to the credentials of the mounted      *)
(* shares, however many listings overlapped and however they ended.        *)
(***************************************************************************)
TempModeEnds == (\A b \in Browsers : bpc[b] = "idle") => ~ creds.tempMode

(***************************************************************************)
(* The assertion of addServer, "Cannot find server $uri to update", fails  *)
(* only for a server that is not there.                                    *)
(***************************************************************************)
UpdateFindsServer ==
  [][\A u \in Users :
       EnterAdd(u) /\ op[u].update /\ stored[op[u].share] # None =>
         result'[u] # "illegal"]_vars

(* Where the abstract registry sees u. *)
Phase(u) ==
  IF pc[u] = "idle" THEN "idle"
  ELSE IF pc[u] \in {"failing", "forgetting", "returned"} THEN "done" ELSE "called"

Registered(s) ==
  IF stored[s] = None THEN None
  ELSE [cred |-> stored[s].cred, mounted |-> s \in mounted]

Registry == INSTANCE ShareRegistry WITH
  registry <- [s \in Shares |-> Registered(s)],
  saved <- disk,
  phase <- [u \in Users |-> Phase(u)]

(***************************************************************************)
(* ShareManager's operations take effect at once and all or nothing,       *)
(* although its two collections, the cache and the file change one by one. *)
(***************************************************************************)
ImplementsRegistry == Registry!Spec
=============================================================================
