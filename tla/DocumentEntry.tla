---------------------------- MODULE DocumentEntry ----------------------------
(***************************************************************************)
(* One document of SambaDocumentsProvider under several binder threads and *)
(* coroutines at once: the entry that DocumentCache has of it, the child   *)
(* that its listed parent has of it, which may be another object, and the  *)
(* file on the server.  No step that asks the server holds anything while  *)
(* it does, so what it brings back may be out of date when it is stored.   *)
(***************************************************************************)
EXTENDS Integers, FiniteSets

CONSTANTS
  None,       \* no object
  Callers,    \* the threads that are in the provider
  Jobs,       \* the coroutines that load stats
  Objects,    \* the DocumentMetadata objects of the document
  MaxVersion, \* bound: how often the file changes
  PoolSize    \* how many results the pool of CacheResult keeps

ASSUME DocumentEntryAssumption ==
  /\ None \notin Objects
  /\ IsFiniteSet(Callers)
  /\ MaxVersion \in Nat \ {0}
  /\ PoolSize \in Nat

VARIABLES
  exists,     \* whether the file is on the server
  version,    \* how often it has been changed there: its size and its time
  entry,      \* the object in DocumentCache, or None
  child,      \* the object in the children of the parent, or None
  stat,       \* stat[o]: the version that the stat of o is of, or 0: null
  pc,         \* pc[c]: where c is in its operation
  obj,        \* obj[c]: the object it has loaded or found, or None
  using,      \* the callers that have a CacheResult
  pool,       \* how many results the pool has
  refused,    \* whether it has refused one
  job,        \* job[j]: the object whose stat j loads, or None
  loaded,     \* loaded[j]: the version it has got of it, or 0
  overtaken,  \* history: a file was deleted while someone had just found it
  outdated    \* history: a file was changed while someone had just loaded it

serverVars == <<exists, version>>
cacheVars == <<entry, child, stat>>
poolVars == <<using, pool, refused>>
jobVars == <<job, loaded>>
history == <<overtaken, outdated>>
vars == <<serverVars, cacheVars, pc, obj, poolVars, jobVars, history>>

States == {"idle", "hit", "fetch", "put", "putChild", "expired", "list",
           "rows", "unlink", "removeEntry", "removeChild", "written", "reset",
           "created", "truncate", "leave", "notify"}

TypeOK ==
  /\ exists \in BOOLEAN
  /\ version \in 0..MaxVersion
  /\ entry \in Objects \cup {None}
  /\ child \in Objects \cup {None}
  /\ stat \in [Objects -> 0..MaxVersion]
  /\ pc \in [Callers -> States]
  /\ obj \in [Callers -> Objects \cup {None}]
  /\ using \in SUBSET Callers
  /\ pool \in 0..PoolSize
  /\ refused \in BOOLEAN
  /\ job \in [Jobs -> Objects \cup {None}]
  /\ loaded \in [Jobs -> 0..MaxVersion]
  /\ overtaken \in BOOLEAN
  /\ outdated \in BOOLEAN

Init ==
  /\ exists = TRUE
  /\ version = 1
  /\ entry = None
  /\ child = None
  /\ stat = [o \in Objects |-> 0]
  /\ pc = [c \in Callers |-> "idle"]
  /\ obj = [c \in Callers |-> None]
  /\ using = {}
  /\ pool = 0
  /\ refused = FALSE
  /\ job = [j \in Jobs |-> None]
  /\ loaded = [j \in Jobs |-> 0]
  /\ overtaken = FALSE
  /\ outdated = FALSE

-----------------------------------------------------------------------------
(* CacheResult: results are taken from a pool, or made when it is empty *)

(* Mutant: obtain() always makes a new one. *)
AcquireNew(c) ==
  /\ using' = using \cup {c}
  /\ UNCHANGED <<pool, refused>>

(* Mutant: obtain() does not look whether the pool has one. *)
AcquireUnchecked(c) ==
  /\ using' = using \cup {c}
  /\ pool' = pool - 1
  /\ UNCHANGED refused

Acquire(c) ==
  /\ using' = using \cup {c}
  /\ pool' = IF pool = 0 THEN 0 ELSE pool - 1
  /\ UNCHANGED refused

(* close(): a full pool refuses it, and a debug build then throws. *)
Release(c) ==
  /\ using' = using \ {c}
  /\ pool' = IF pool = PoolSize THEN pool ELSE pool + 1
  /\ refused' = (refused \/ pool = PoolSize)

Go(c, from, to) == pc[c] = from /\ pc' = [pc EXCEPT ![c] = to]

(* What is referred to; an object that is not is free for a new document, *)
(* and what it was of is forgotten.                                       *)
Live == {entry, child} \cup {obj[c] : c \in Callers} \cup {job[j] : j \in Jobs}
Free(o) == o \notin Live
Collect(new) ==
  \E live \in {Live'} : stat' = [o \in Objects |-> IF o \in live THEN new[o] ELSE 0]

(* What a caller has found on the server and will put into the cache. *)
Finds(c) ==
  \/ pc[c] \in {"put", "putChild", "created"}
  \/ pc[c] = "list" /\ obj[c] # None

-----------------------------------------------------------------------------
(* DocumentCache.put() and remove(), two and three maps after one another *)

PutEntry(c) ==
  /\ Go(c, "put", "putChild")
  /\ entry' = obj[c]
  /\ UNCHANGED <<serverVars, child, obj, poolVars, jobVars, history>>
  /\ Collect(stat)

PutChild(c) ==
  /\ Go(c, "putChild", IF c \in using THEN "leave" ELSE "idle")
  /\ child' = obj[c]
  /\ obj' = [obj EXCEPT ![c] = None]
  /\ UNCHANGED <<serverVars, entry, poolVars, jobVars, history>>
  /\ Collect(stat)

RemoveEntry(c) ==
  /\ Go(c, "removeEntry", "removeChild")
  /\ entry' = None
  /\ UNCHANGED <<serverVars, child, obj, poolVars, jobVars, history>>
  /\ Collect(stat)

(* Mutant: remove() leaves the document in the children of its parent. *)
KeepChild(c) ==
  /\ Go(c, "removeChild", "notify")
  /\ UNCHANGED <<serverVars, cacheVars, obj, poolVars, jobVars, history>>

RemoveChild(c) ==
  /\ Go(c, "removeChild", "notify")
  /\ child' = None
  /\ UNCHANGED <<serverVars, entry, obj, poolVars, jobVars, history>>
  /\ Collect(stat)

(* The clients of the parent are told; or the result is closed. *)
Notify(c) ==
  /\ Go(c, "notify", "idle")
  /\ UNCHANGED <<serverVars, cacheVars, obj, poolVars, jobVars, history>>

Leave(c) ==
  /\ Go(c, "leave", "idle")
  /\ Release(c)
  /\ UNCHANGED <<serverVars, cacheVars, obj, jobVars, history>>

-----------------------------------------------------------------------------
(* queryDocument *)

Query(c) ==
  /\ Go(c, "idle", IF entry = None THEN "fetch" ELSE "hit")
  /\ Acquire(c)
  /\ UNCHANGED <<serverVars, cacheVars, obj, jobVars, history>>

Answer(c) ==
  /\ Go(c, "hit", "leave")
  /\ UNCHANGED <<serverVars, cacheVars, obj, poolVars, jobVars, history>>

(* The request may also fail for any other reason. *)
Fetch(c) ==
  /\ \/ /\ exists
        /\ \E o \in Objects :
             /\ Free(o)
             /\ obj' = [obj EXCEPT ![c] = o]
             /\ stat' = [stat EXCEPT ![o] = version]
        /\ Go(c, "fetch", "put")
     \/ Go(c, "fetch", "leave") /\ UNCHANGED <<obj, stat>>
  /\ UNCHANGED <<serverVars, entry, child, poolVars, jobVars, history>>

-----------------------------------------------------------------------------
(* queryChildDocuments on the parent, whose entry may have expired *)

List(c) ==
  /\ \E expired \in BOOLEAN : Go(c, "idle", IF expired THEN "expired" ELSE "rows")
  /\ Acquire(c)
  /\ UNCHANGED <<serverVars, cacheVars, obj, jobVars, history>>

(* loadChildren() reads the directory, or fails; the task may be ignored. *)
ReadDir(c) ==
  /\ \/ /\ exists
        /\ \E o \in Objects : Free(o) /\ obj' = [obj EXCEPT ![c] = o]
        /\ Go(c, "expired", "list")
     \/ /\ ~ exists
        /\ Go(c, "expired", "list")
        /\ UNCHANGED obj
     \/ /\ \E to \in {"leave", "rows"} : Go(c, "expired", to)
        /\ UNCHANGED obj
  /\ UNCHANGED <<serverVars, cacheVars, poolVars, jobVars, history>>

SetChildren(c) ==
  /\ Go(c, "list", "rows")
  /\ child' = obj[c]
  /\ obj' = [obj EXCEPT ![c] = None]
  /\ UNCHANGED <<serverVars, entry, poolVars, jobVars, history>>
  /\ Collect(stat)

(* A child without a stat gets a coroutine that loads it. *)
Rows(c) ==
  /\ Go(c, "rows", "leave")
  /\ \/ /\ child # None /\ stat[child] = 0
        /\ \E j \in Jobs : job[j] = None /\ job' = [job EXCEPT ![j] = child]
     \/ UNCHANGED job
  /\ UNCHANGED <<serverVars, cacheVars, obj, poolVars, loaded, history>>

(* loadStat(): the stat comes from the server, or it fails, ... *)
LoadStat(j) ==
  /\ job[j] # None /\ loaded[j] = 0
  /\ UNCHANGED <<serverVars, entry, child, pc, obj, poolVars, history>>
  /\ \/ exists /\ loaded' = [loaded EXCEPT ![j] = version] /\ UNCHANGED <<job, stat>>
     \/ job' = [job EXCEPT ![j] = None] /\ UNCHANGED loaded /\ Collect(stat)

(* ... and is stored. *)
StoreStat(j) ==
  /\ loaded[j] # 0
  /\ job' = [job EXCEPT ![j] = None]
  /\ loaded' = [loaded EXCEPT ![j] = 0]
  /\ UNCHANGED <<serverVars, entry, child, pc, obj, poolVars, history>>
  /\ Collect([stat EXCEPT ![job[j]] = loaded[j]])

-----------------------------------------------------------------------------
(* deleteDocument: a file that is not there is only forgotten *)

Delete(c) ==
  /\ Go(c, "idle", IF exists THEN "unlink" ELSE "removeEntry")
  /\ UNCHANGED <<serverVars, cacheVars, obj, poolVars, jobVars, history>>

Unlink(c) ==
  /\ Go(c, "unlink", "removeEntry")
  /\ exists' = FALSE
  /\ overtaken' = (overtaken \/ \E d \in Callers : Finds(d))
  /\ UNCHANGED <<version, cacheVars, obj, poolVars, jobVars, outdated>>

(* Any other failure of the request ends the call. *)
FailUnlink(c) ==
  /\ Go(c, "unlink", "idle")
  /\ UNCHANGED <<serverVars, cacheVars, obj, poolVars, jobVars, history>>

-----------------------------------------------------------------------------
(* The file changes on the server *)

Change ==
  /\ version < MaxVersion
  /\ version' = version + 1
  /\ outdated' = (outdated \/ (\E d \in Callers : Finds(d) /\ obj[d] # None)
                            \/ (\E j \in Jobs : loaded[j] # 0))

(* writeAsync: the end of a write, and then the cache. *)
Write(c) ==
  /\ Go(c, "idle", "written")
  /\ exists
  /\ Change
  /\ UNCHANGED <<exists, cacheVars, obj, poolVars, jobVars, overtaken>>

Written(c) ==
  /\ Go(c, "written", "reset")
  /\ obj' = [obj EXCEPT ![c] = entry]
  /\ Acquire(c)
  /\ UNCHANGED <<serverVars, cacheVars, jobVars, history>>

(* Mutant: the entry keeps its stat. *)
KeepStat(c) ==
  /\ Go(c, "reset", "notify")
  /\ obj' = [obj EXCEPT ![c] = None]
  /\ Release(c)
  /\ UNCHANGED <<serverVars, entry, child, jobVars, history>>
  /\ Collect(stat)

(* reset() of what was found, if anything was. *)
Reset(c) ==
  /\ Go(c, "reset", "notify")
  /\ obj' = [obj EXCEPT ![c] = None]
  /\ Release(c)
  /\ UNCHANGED <<serverVars, entry, child, jobVars, history>>
  /\ Collect([o \in Objects |-> IF o = obj[c] THEN 0 ELSE stat[o]])

(* createDocument makes the file, or makes it empty, tells the clients of   *)
(* the parent, and then looks whether the document is in the cache.        *)
Create(c) ==
  /\ Go(c, "idle", "created")
  /\ exists' = TRUE
  /\ Change
  /\ UNCHANGED <<cacheVars, obj, poolVars, jobVars, overtaken>>

Created(c) ==
  /\ pc[c] = "created"
  /\ IF entry = None
     THEN /\ pc' = [pc EXCEPT ![c] = "put"]
          /\ \E o \in Objects : Free(o) /\ obj' = [obj EXCEPT ![c] = o]
          /\ UNCHANGED poolVars
     ELSE /\ pc' = [pc EXCEPT ![c] = "truncate"]
          /\ obj' = [obj EXCEPT ![c] = entry]
          /\ Acquire(c)
  /\ UNCHANGED <<serverVars, cacheVars, jobVars, history>>

Truncate(c) ==
  /\ Go(c, "truncate", "idle")
  /\ obj' = [obj EXCEPT ![c] = None]
  /\ Release(c)
  /\ UNCHANGED <<serverVars, entry, child, jobVars, history>>
  /\ Collect([o \in Objects |-> IF o = obj[c] THEN 0 ELSE stat[o]])

Next ==
  \/ \E c \in Callers :
       \/ Query(c) \/ Answer(c) \/ Fetch(c)
       \/ List(c) \/ ReadDir(c) \/ SetChildren(c) \/ Rows(c)
       \/ Delete(c) \/ Unlink(c) \/ FailUnlink(c)
       \/ Write(c) \/ Written(c) \/ Reset(c)
       \/ Create(c) \/ Created(c) \/ Truncate(c)
       \/ PutEntry(c) \/ PutChild(c) \/ RemoveEntry(c) \/ RemoveChild(c)
       \/ Notify(c) \/ Leave(c)
  \/ \E j \in Jobs : LoadStat(j) \/ StoreStat(j)

Spec == Init /\ [][Next]_vars
-----------------------------------------------------------------------------
(* Someone is between deleting or changing the file and telling of it. *)
Deleting == \E c \in Callers : pc[c] \in {"removeEntry", "removeChild"}
Changing == \E c \in Callers : pc[c] \in {"written", "reset", "created", "truncate"}

(***************************************************************************)
(* Whoever is told that a document was deleted finds it neither in the     *)
(* cache nor in the listing of its parent; only a file that someone had    *)
(* found before it was deleted, and puts into the cache after, comes back. *)
(***************************************************************************)
DeletedIsForgotten ==
  ~ overtaken /\ ~ exists /\ ~ Deleting => entry = None /\ child = None

(***************************************************************************)
(* Whoever is told of a write gets no size from before it by asking for    *)
(* the document; only a stat that was under way at the time of the write   *)
(* is stored after it and stays.                                           *)
(***************************************************************************)
EntryIsCurrent ==
  ~ outdated /\ exists /\ ~ Changing /\ entry # None =>
    stat[entry] \in {0, version}

(***************************************************************************)
(* The assertion of CacheResult, "One item is not enough!", holds as long  *)
(* as no more threads are in the provider than the pool has room for.      *)
(***************************************************************************)
PoolSuffices == refused => Cardinality(Callers) > PoolSize
=============================================================================
