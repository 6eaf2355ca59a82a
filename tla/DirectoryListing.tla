--------------------------- MODULE DirectoryListing ---------------------------
(***************************************************************************)
(* Clients of the documents provider list one directory.                   *)
(* SambaDocumentsProvider.queryChildDocuments finds its DocumentMetadata   *)
(* in the cache or loads it, loads its children, and leaves a coroutine to *)
(* load the children's stats, which notifies the clients at its end.       *)
(* TaskManager is to keep two loads of the directory apart; a client that  *)
(* closes its cursor cancels the cursor's coroutine.                       *)
(***************************************************************************)
EXTENDS Naturals, FiniteSets

CONSTANTS
  Readers,      \* the clients, each with one query or one cursor at a time
  Files,        \* the names the directory may hold
  Docs,         \* bound: the DocumentMetadata objects of the directory
  Jobs,         \* bound: the coroutines that load stats
  None,         \* no object, no task
  Cached,       \* whether the cache has the directory, as queryDocument leaves it
  LoadsFail,    \* whether loading the directory and its children may fail
  StatsFail,    \* whether loading the stat of a child may fail
  Removals,     \* whether other threads delete the directory
  Disturbances  \* bound: how often the entry gets too old or is removed

ASSUME ListingAssumption ==
  /\ None \notin Docs \cup Jobs \cup Readers
  /\ Jobs \cap Readers = {}
  /\ IsFiniteSet(Readers) /\ IsFiniteSet(Docs)
  /\ Cardinality(Docs) > Cardinality(Readers) + 1
  /\ {Cached, LoadsFail, StatsFail, Removals} \subseteq BOOLEAN
  /\ Disturbances \in Nat

VARIABLES
  entry,      \* DocumentCache.cache[uri], or None
  exception,  \* whether DocumentCache.exceptionCache has one for uri
  doc,        \* doc[d]: [children, failed, expired] of a DocumentMetadata
  task,       \* TaskManager.tasks[uri]: who runs the latest one, or None
  pc,         \* pc[r]: where r's query is, "open" when r has the cursor
  result,     \* result[r]: [item, expired], the CacheResult r works with
  cursor,     \* cursor[r]: the loadingJob of r's cursor, or None
  notified,   \* the readers whose cursor has been told of a change
  job,        \* job[j]: [at, doc, todo, cancelled], see NoJob
  disturbed   \* how often the entry has expired or been removed

cacheVars == <<entry, exception, doc, disturbed>>
readerVars == <<pc, result, cursor>>
vars == <<cacheVars, readerVars, task, notified, job>>

(* A child is not there, or there with or without a stat, or its latest stat  *)
(* failed (a failure does not matter when the stat of another job is there).  *)
ChildStates == {"absent", "bare", "failed", "stat"}

(* A directory that has been read is told from one that has not. *)
ASSUME ChildrenAssumption == None \notin [Files -> ChildStates]

NewDoc == [children |-> None, failed |-> FALSE, expired |-> FALSE]

(* A coroutine loads the stats of the files in todo into the children of doc; *)
(* doc is None once these have been replaced, and nobody sees what it does.   *)
NoJob == [at |-> "none", doc |-> None, todo |-> {}, cancelled |-> FALSE]

NoResult == [item |-> None, expired |-> FALSE]

Loading(r) == cursor[r] # None

TypeOK ==
  /\ entry \in Docs \cup {None}
  /\ exception \in BOOLEAN
  /\ doc \in [Docs -> [children : [Files -> ChildStates] \cup {None},
                   failed : BOOLEAN, expired : BOOLEAN]]
  /\ task \in Readers \cup Jobs \cup {None}
  /\ pc \in [Readers -> {"idle", "find", "fetch", "get", "consult", "check",
                         "store", "load", "close", "rows", "built", "open"}]
  /\ result \in [Readers -> [item : Docs \cup {None}, expired : BOOLEAN]]
  /\ cursor \in [Readers -> Jobs \cup {None}]
  /\ notified \in SUBSET Readers
  /\ job \in [Jobs -> [at : {"none", "check", "store", "begin", "stat", "notify", "done"},
                       doc : Docs \cup {None}, todo : SUBSET Files, cancelled : BOOLEAN]]
  /\ disturbed \in 0 .. Disturbances
  /\ \A r \in Readers : cursor[r] # None =>
       pc[r] \in {"built", "open"} /\ job[cursor[r]].at # "none"
  /\ \A r, s \in Readers : cursor[r] = cursor[s] => r = s \/ cursor[r] = None
  /\ \A r \in notified : pc[r] = "open"

Init ==
  /\ entry = IF Cached THEN CHOOSE d \in Docs : TRUE ELSE None
  /\ exception = FALSE
  /\ doc = [d \in Docs |-> NewDoc]
  /\ task = None
  /\ pc = [r \in Readers |-> "idle"]
  /\ result = [r \in Readers |-> NoResult]
  /\ cursor = [r \in Readers |-> None]
  /\ notified = {}
  /\ job = [j \in Jobs |-> NoJob]
  /\ disturbed = 0

(* The objects somebody may still look at; any other has been collected.      *)
Items(R) == {result[r].item : r \in R}
NewObject == CHOOSE d \in Docs : d \notin {entry} \cup Items(Readers)

(* What is left of docs and jobs when only those of live are referred to.     *)
Kept(docs, live) == [d \in Docs |-> IF d \in live THEN docs[d] ELSE NewDoc]
KeptJobs(jobs, live) ==
  [j \in Jobs |-> IF jobs[j].doc \in live THEN jobs[j] ELSE [jobs[j] EXCEPT !.doc = None]]

(* The objects that are left when r has done with its own. *)
Without(r) == {entry} \cup Items(Readers \ {r})

(* tasks[uri]?.isActive: cancelling a coroutine ends this at once, although   *)
(* what it was doing goes on.                                                 *)
TaskActive ==
  \/ \E r \in Readers : task = r /\ pc[r] \in {"load", "close"}
  \/ \E j \in Jobs : task = j /\ job[j].at \in {"begin", "stat"} /\ ~ job[j].cancelled

(* A query ends with an exception. *)
Throw(r) ==
  /\ pc' = [pc EXCEPT ![r] = "idle"]
  /\ result' = [result EXCEPT ![r] = NoResult]
  /\ UNCHANGED cursor

Go(r, state) ==
  /\ pc' = [pc EXCEPT ![r] = state]
  /\ UNCHANGED <<result, cursor>>

-----------------------------------------------------------------------------
(* The clients *)

Query(r) ==
  /\ pc[r] = "idle"
  /\ pc' = [pc EXCEPT ![r] = "find"]
  /\ UNCHANGED <<cacheVars, result, cursor, task, notified, job>>

(* Mutant: the closed cursor is still told of changes. *)
CloseKeepsNotified(r, state) ==
  /\ pc[r] = "open"
  /\ job' = [j \in Jobs |-> IF j = cursor[r] THEN [job[j] EXCEPT !.cancelled = TRUE] ELSE job[j]]
  /\ cursor' = [cursor EXCEPT ![r] = None]
  /\ pc' = [pc EXCEPT ![r] = state]
  /\ UNCHANGED <<cacheVars, result, task, notified>>

(* Mutant: what is cancelled is the directory's task, whoever's it is. *)
CloseCancelsTask(r, state) ==
  /\ pc[r] = "open"
  /\ job' = [j \in Jobs |->
       IF j # task THEN job[j]
       ELSE IF job[j].at = "done" THEN NoJob
       ELSE [job[j] EXCEPT !.cancelled = TRUE]]
  /\ cursor' = [cursor EXCEPT ![r] = None]
  /\ notified' = notified \ {r}
  /\ pc' = [pc EXCEPT ![r] = state]
  /\ UNCHANGED <<cacheVars, result, task>>

(* DocumentCursor.close cancels the coroutine, which may be over already. *)
CloseTo(r, state) ==
  /\ pc[r] = "open"
  /\ job' = [j \in Jobs |->
       IF j # cursor[r] THEN job[j]
       ELSE IF job[j].at = "done" THEN NoJob
       ELSE [job[j] EXCEPT !.cancelled = TRUE]]
  /\ cursor' = [cursor EXCEPT ![r] = None]
  /\ notified' = notified \ {r}
  /\ pc' = [pc EXCEPT ![r] = state]
  /\ UNCHANGED <<cacheVars, result, task>>

Close(r) == CloseTo(r, "idle")

(* A client that was told of a change asks again. *)
Refresh(r) == r \in notified /\ CloseTo(r, "find")

-----------------------------------------------------------------------------
(* queryChildDocuments *)

(* After a miss the failure of an earlier load is thrown, ... *)
Find(r) ==
  /\ pc[r] = "find"
  /\ IF entry # None
     THEN Go(r, "get") /\ UNCHANGED exception
     ELSE /\ exception' = FALSE
          /\ IF exception THEN Throw(r) ELSE Go(r, "fetch")
  /\ UNCHANGED <<entry, doc, disturbed, task, notified, job>>

(* ... or the directory loaded, and put in the place of the one that another *)
(* query may have put meanwhile; a failure is kept for the next query.       *)
LoadDocument(r) ==
  /\ pc[r] = "fetch"
  /\ \/ LET live == {NewObject} \cup Items(Readers) IN
        /\ entry' = NewObject
        /\ doc' = Kept([doc EXCEPT ![NewObject] = NewDoc], live)
        /\ job' = KeptJobs(job, live)
        /\ Go(r, "get")
        /\ UNCHANGED exception
     \/ /\ LoadsFail
        /\ exception' = TRUE
        /\ Throw(r)
        /\ UNCHANGED <<entry, doc, job>>
  /\ UNCHANGED <<disturbed, task, notified>>

(* The cache is asked again; item asserts that this is no miss. *)
Get(r) ==
  /\ pc[r] = "get"
  /\ IF entry = None
     THEN Throw(r)
     ELSE /\ pc' = [pc EXCEPT ![r] = "consult"]
          /\ result' = [result EXCEPT ![r] = [item |-> entry, expired |-> doc[entry].expired]]
          /\ UNCHANGED cursor
  /\ UNCHANGED <<cacheVars, task, notified, job>>

(* The failure of an earlier load of the children is thrown once. *)
Consult(r) ==
  /\ pc[r] = "consult"
  /\ LET d == result[r].item IN
     IF doc[d].failed
     THEN /\ Throw(r)
          /\ doc' = Kept([doc EXCEPT ![d].failed = FALSE], Without(r))
          /\ job' = KeptJobs(job, Without(r))
     ELSE /\ Go(r, IF doc[d].children = None \/ result[r].expired THEN "check" ELSE "rows")
          /\ UNCHANGED <<doc, job>>
  /\ UNCHANGED <<entry, exception, disturbed, task, notified>>

(* runTask, first step: while another task is active this one is ignored. *)
Check(r) ==
  /\ pc[r] = "check"
  /\ Go(r, IF TaskActive THEN "rows" ELSE "store")
  /\ UNCHANGED <<cacheVars, task, notified, job>>

(* runTask, second step. *)
Store(r) ==
  /\ pc[r] = "store"
  /\ task' = r
  /\ Go(r, "load")
  /\ UNCHANGED <<cacheVars, notified, job>>

(* The children of d are others from now on. *)
Detached(d) == [j \in Jobs |-> IF job[j].doc = d THEN [job[j] EXCEPT !.doc = None] ELSE job[j]]

(* The failure is kept for the next query of d, and ends this one. *)
FailChildren(r) ==
  LET d == result[r].item IN
  /\ LoadsFail
  /\ Throw(r)
  /\ doc' = Kept([doc EXCEPT ![d].failed = TRUE], Without(r))
  /\ job' = KeptJobs(job, Without(r))

(* DocumentMetadata.loadChildren: new objects for whatever is read, ... *)
LoadChildren(r) ==
  /\ pc[r] = "load"
  /\ LET d == result[r].item IN
     \/ \E there \in SUBSET Files :
          LET children == [f \in Files |-> IF f \in there THEN "bare" ELSE "absent"] IN
          /\ doc' = [doc EXCEPT ![d].children = children, ![d].expired = FALSE]
          /\ job' = Detached(d)
          /\ Go(r, "close")
     \/ FailChildren(r)
  /\ UNCHANGED <<entry, exception, disturbed, task, notified>>

(* ... which stay when the directory cannot be closed after it.  For every   *)
(* child the code then puts the directory, not the child, into the cache.    *)
PutBack(r) ==
  /\ entry' = result[r].item
  /\ doc' = Kept(doc, Items(Readers))
  /\ job' = KeptJobs(job, Items(Readers))

CloseDir(r) ==
  /\ pc[r] = "close"
  /\ \/ /\ Go(r, "rows")
        /\ IF \E f \in Files : doc[result[r].item].children[f] # "absent"
           THEN PutBack(r)
           ELSE UNCHANGED <<entry, doc, job>>
     \/ FailChildren(r) /\ UNCHANGED entry
  /\ UNCHANGED <<exception, disturbed, task, notified>>

(* The children a coroutine is launched for. *)
ToLoad(children) == {f \in Files : children[f] = "bare"}

(* hasLoadingStatFailed takes the failure away: the next query tries again. *)
Consulted(children) ==
  [f \in Files |-> IF children[f] = "failed" THEN "bare" ELSE children[f]]

(* The rows of the cursor, and the coroutine for those without a stat. *)
Rows(r) ==
  /\ pc[r] = "rows"
  /\ pc' = [pc EXCEPT ![r] = "built"]
  /\ result' = [result EXCEPT ![r] = NoResult]
  /\ LET d == result[r].item
         children == doc[d].children
     IN  IF children = None
         THEN /\ doc' = Kept(doc, Without(r))
              /\ job' = KeptJobs(job, Without(r))
              /\ UNCHANGED cursor
         ELSE /\ doc' = Kept([doc EXCEPT ![d].children = Consulted(children)], Without(r))
              /\ IF ToLoad(children) = {}
                 THEN /\ job' = KeptJobs(job, Without(r))
                      /\ UNCHANGED cursor
                 ELSE \E j \in Jobs :
                        /\ job[j].at = "none"
                        /\ job' = KeptJobs([job EXCEPT ![j] =
                             [at |-> "check", doc |-> d, todo |-> ToLoad(children),
                              cancelled |-> FALSE]], Without(r))
                        /\ cursor' = [cursor EXCEPT ![r] = j]
  /\ UNCHANGED <<entry, exception, disturbed, task, notified>>

(* setNotificationUri: from here on the client hears of changes. *)
Register(r) ==
  /\ pc[r] = "built"
  /\ pc' = [pc EXCEPT ![r] = "open"]
  /\ UNCHANGED <<cacheVars, result, cursor, task, notified, job>>

-----------------------------------------------------------------------------
(* The coroutine that loads stats *)

(* A coroutine that no cursor refers to any more is gone at its end. *)
Finished(j) ==
  IF \E r \in Readers : cursor[r] = j THEN [NoJob EXCEPT !.at = "done"] ELSE NoJob
Finish(j) == job' = [job EXCEPT ![j] = Finished(j)]

Continue(j, state) == job' = [job EXCEPT ![j].at = state]

(* Mutant: a coroutine whose task is ignored ends without a notification. *)
JobCheckSilently(j) ==
  /\ job[j].at = "check"
  /\ IF job[j].cancelled \/ TaskActive THEN Finish(j) ELSE Continue(j, "store")
  /\ UNCHANGED <<cacheVars, readerVars, task, notified>>

(* runTask, first step; a coroutine cancelled before it starts never does. *)
JobCheck(j) ==
  /\ job[j].at = "check"
  /\ IF job[j].cancelled THEN Finish(j)
     ELSE Continue(j, IF TaskActive THEN "notify" ELSE "store")
  /\ UNCHANGED <<cacheVars, readerVars, task, notified>>

JobStore(j) ==
  /\ job[j].at = "store"
  /\ task' = j
  /\ Continue(j, "begin")
  /\ UNCHANGED <<cacheVars, readerVars, notified>>

(* withContext switches to another thread, unless cancelled in the meantime. *)
JobBegin(j) ==
  /\ job[j].at = "begin"
  /\ IF job[j].cancelled THEN Finish(j) ELSE Continue(j, "stat")
  /\ UNCHANGED <<cacheVars, readerVars, task, notified>>

(* Mutant: a failure is stored, a stat is not. *)
SetFailure(d, f, state) ==
  doc' = IF state = "stat" THEN doc ELSE [doc EXCEPT ![d].children[f] = state]

(* What a stat changes in the children of d, if anybody still sees them. *)
SetChild(d, f, state) ==
  doc' = [doc EXCEPT ![d].children[f] = IF @ = "stat" THEN @ ELSE state]

(* One child, in no particular order; only success looks for a cancellation. *)
LoadStat(j, f) ==
  /\ job[j].at = "stat"
  /\ f \in job[j].todo
  /\ IF job[j].doc = None THEN UNCHANGED doc ELSE SetChild(job[j].doc, f, "stat")
  /\ IF job[j].cancelled THEN Finish(j) ELSE job' = [job EXCEPT ![j].todo = @ \ {f}]
  /\ UNCHANGED <<entry, exception, disturbed, readerVars, task, notified>>

FailStat(j, f) ==
  /\ StatsFail
  /\ job[j].at = "stat"
  /\ f \in job[j].todo
  /\ IF job[j].doc = None THEN UNCHANGED doc ELSE SetChild(job[j].doc, f, "failed")
  /\ job' = [job EXCEPT ![j].todo = @ \ {f}]
  /\ UNCHANGED <<entry, exception, disturbed, readerVars, task, notified>>

JobEnd(j) ==
  /\ job[j].at = "stat"
  /\ job[j].todo = {}
  /\ IF job[j].cancelled THEN Finish(j) ELSE Continue(j, "notify")
  /\ UNCHANGED <<cacheVars, readerVars, task, notified>>

Notify(j) ==
  /\ job[j].at = "notify"
  /\ notified' = notified \cup {r \in Readers : pc[r] = "open"}
  /\ Finish(j)
  /\ UNCHANGED <<cacheVars, readerVars, task>>

-----------------------------------------------------------------------------
(* The rest of the provider, and time *)

(* deleteDocument of the directory by another thread. *)
Remove ==
  /\ Removals
  /\ disturbed < Disturbances
  /\ entry # None
  /\ entry' = None
  /\ exception' = FALSE
  /\ disturbed' = disturbed + 1
  /\ doc' = Kept(doc, Items(Readers))
  /\ job' = KeptJobs(job, Items(Readers))
  /\ UNCHANGED <<readerVars, task, notified>>

Expire ==
  /\ disturbed < Disturbances
  /\ entry # None /\ ~ doc[entry].expired
  /\ doc' = [doc EXCEPT ![entry].expired = TRUE]
  /\ disturbed' = disturbed + 1
  /\ UNCHANGED <<entry, exception, readerVars, task, notified, job>>

QueryStep(r) ==
  \/ Find(r) \/ LoadDocument(r) \/ Get(r) \/ Consult(r)
  \/ Check(r) \/ Store(r) \/ LoadChildren(r) \/ CloseDir(r)
  \/ Rows(r) \/ Register(r)

JobStep(j) ==
  \/ JobCheck(j) \/ JobStore(j) \/ JobBegin(j)
  \/ \E f \in Files : LoadStat(j, f) \/ FailStat(j, f)
  \/ JobEnd(j) \/ Notify(j)

Next ==
  \/ \E r \in Readers : Query(r) \/ Close(r) \/ Refresh(r) \/ QueryStep(r)
  \/ \E j \in Jobs : JobStep(j)
  \/ Remove
  \/ Expire

(* Threads and coroutines that can run do, and requests to servers end.    *)
(* Nobody has to query or close.                                           *)
Fairness ==
  /\ \A r \in Readers : WF_vars(QueryStep(r))
  /\ \A j \in Jobs : WF_vars(JobStep(j))

Safe == Init /\ [][Next]_vars

Spec == Safe /\ Fairness

(* Clients that ask again when they are told of a change. *)
SpecRefreshing == Spec /\ \A r \in Readers : WF_vars(Refresh(r))
-----------------------------------------------------------------------------
UnderWay(r) == Loading(r) /\ job[cursor[r]].at # "done"

(***************************************************************************)
(* The coroutine of an open cursor does not end without telling the client *)
(* of it: closing another cursor of the directory, which cancels that      *)
(* one's coroutine, ends no other, whichever of them runs the task.        *)
(***************************************************************************)
EndIsTold ==
  [][\A r \in Readers :
       pc[r] = "open" /\ UnderWay(r) =>
         pc'[r] # "open" \/ UnderWay(r)' \/ r \in notified']_vars

(***************************************************************************)
(* A cursor that says it is loading (EXTRA_LOADING) while its coroutine is *)
(* under way hears of a change or is closed, whatever becomes of the       *)
(* coroutine's task: loaded, failed, or ignored for another one's sake.    *)
(***************************************************************************)
LoadingIsNotified ==
  \A r \in Readers :
    pc[r] = "open" /\ UnderWay(r) ~> r \in notified \/ pc[r] # "open"

(* r's coroutine was over before r could hear of it. *)
Missed(r) == pc[r] = "built" /\ Loading(r) /\ ~ UnderWay(r)

(***************************************************************************)
(* A client that asks again whenever it is told to comes to an end: its    *)
(* query fails, or it gets a cursor that is not loading.  It goes on for   *)
(* ever only if stats fail for ever (as the comment in loadStat has it) or *)
(* coroutines are cancelled for ever, as two clients can do to each other: *)
(* one whose task is ignored notifies the other, which closes the cursor   *)
(* that was loading.  It is stuck only if its cursor was notified before   *)
(* setNotificationUri.                                                     *)
(***************************************************************************)
Settled(r) == pc[r] = "idle" \/ (pc[r] = "open" /\ ~ Loading(r))

StatsFailForEver == []<><<\E j \in Jobs, f \in Files : FailStat(j, f)>>_vars

Interrupt(r) == UnderWay(r) /\ (Close(r) \/ Refresh(r))
InterruptedForEver == []<><<\E r \in Readers : Interrupt(r)>>_vars

ListingSettles ==
  \/ <>(\E r \in Readers : Missed(r))
  \/ StatsFailForEver
  \/ InterruptedForEver
  \/ \A r \in Readers : pc[r] = "find" ~> Settled(r)
=============================================================================
