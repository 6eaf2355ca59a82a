------------------------ MODULE DirectoryListingProofs ------------------------
(***************************************************************************)
(* What holds of DirectoryListing for any clients, files, objects and      *)
(* coroutines.  The type invariant: what a coroutine writes its stats into *)
(* are children that somebody has loaded and still sees, and no coroutine  *)
(* belongs to two cursors.  And an action property: the client of an open  *)
(* cursor is told when the coroutine that loads its stats ends, which      *)
(* needs that nobody but the cursor itself cancels it.                     *)
(***************************************************************************)
EXTENDS DirectoryListing, FiniteSetTheorems, TLAPS

DocStates ==
  [children : [Files -> ChildStates] \cup {None}, failed : BOOLEAN, expired : BOOLEAN]
ReaderStates ==
  {"idle", "find", "fetch", "get", "consult", "check", "store", "load", "close", "rows",
   "built", "open"}
Results == [item : Docs \cup {None}, expired : BOOLEAN]
JobStates ==
  [at : {"none", "check", "store", "begin", "stat", "notify", "done"},
   doc : Docs \cup {None}, todo : SUBSET Files, cancelled : BOOLEAN]

(* The types of the variables that do not change alone. *)
Fields ==
  /\ entry \in Docs \cup {None}
  /\ exception \in BOOLEAN
  /\ doc \in [Docs -> DocStates]
  /\ task \in Readers \cup Jobs \cup {None}
  /\ pc \in [Readers -> ReaderStates]
  /\ result \in [Readers -> Results]
  /\ cursor \in [Readers -> Jobs \cup {None}]
  /\ notified \in SUBSET Readers
  /\ job \in [Jobs -> JobStates]
  /\ disturbed \in 0 .. Disturbances

(* A query has an object from Get to Rows. *)
Held == {"consult", "check", "store", "load", "close", "rows"}
Carried ==
  \A r \in Readers : IF pc[r] \in Held THEN result[r].item \in Docs ELSE result[r] = NoResult

(* The children that a coroutine fills are there, and somebody's. *)
Live == {entry} \cup Items(Readers)
Attached ==
  \A j \in Jobs : job[j].doc # None =>
    job[j].doc \in Live /\ doc[job[j].doc].children # None

(* A coroutine is one cursor's. *)
Cursors ==
  /\ \A r \in Readers : cursor[r] # None =>
       pc[r] \in {"built", "open"} /\ job[cursor[r]].at # "none"
  /\ \A r, s \in Readers : cursor[r] = cursor[s] => r = s \/ cursor[r] = None
  /\ \A r \in notified : pc[r] = "open"

IInv == Fields /\ Carried /\ Attached /\ Cursors

LEMMA TypesFollow == IInv => TypeOK
BY DEF IInv, Fields, Cursors, TypeOK, DocStates, ReaderStates, Results, JobStates

-----------------------------------------------------------------------------
(* Objects and garbage *)

LEMMA NewTypes == NewDoc \in DocStates /\ NoJob \in JobStates /\ NoResult \in Results
BY DEF NewDoc, DocStates, NoJob, JobStates, NoResult, Results

(* There is an object that nobody looks at. *)
LEMMA NewObjectFacts ==
  ASSUME Fields
  PROVE  NewObject \in Docs /\ NewObject \notin Live
<1> DEFINE f == [r \in Readers |-> result[r].item]
<1>1. IsFiniteSet(Readers) /\ IsFiniteSet(Docs) /\ Cardinality(Docs) > Cardinality(Readers) + 1
  BY ListingAssumption
<1>2. f \in Surjection(Readers, Items(Readers))
  BY DEF Surjection, Items
<1>3. IsFiniteSet(Items(Readers)) /\ Cardinality(Items(Readers)) <= Cardinality(Readers)
  BY <1>1, <1>2, FS_Surjection
<1>4. /\ IsFiniteSet(Live)
      /\ Cardinality(Live) \in {Cardinality(Items(Readers)), Cardinality(Items(Readers)) + 1}
  <2>1. Live = Items(Readers) \cup {entry}
    BY DEF Live
  <2>2. QED
    BY <1>3, <2>1, FS_AddElement
<1>5. /\ Cardinality(Live) \in Nat /\ Cardinality(Docs) \in Nat
      /\ Cardinality(Readers) \in Nat /\ Cardinality(Items(Readers)) \in Nat
  BY <1>1, <1>3, <1>4, FS_CardinalityType
<1>6. ~ Docs \subseteq Live
  <2>1. Docs \subseteq Live => Cardinality(Docs) <= Cardinality(Live)
    BY <1>4, FS_Subset
  <2>2. QED
    BY <1>1, <1>3, <1>4, <1>5, <2>1
<1>7. QED
  BY <1>6 DEF NewObject, Live

(* What is left when only live objects are referred to. *)
LEMMA KeptFacts ==
  ASSUME NEW docs \in [Docs -> DocStates], NEW live
  PROVE  /\ Kept(docs, live) \in [Docs -> DocStates]
         /\ \A d \in Docs : d \in live => Kept(docs, live)[d] = docs[d]
BY NewTypes DEF Kept

LEMMA KeptJobsFacts ==
  ASSUME NEW jobs \in [Jobs -> JobStates], NEW live
  PROVE  /\ KeptJobs(jobs, live) \in [Jobs -> JobStates]
         /\ \A j \in Jobs :
              /\ KeptJobs(jobs, live)[j].at = jobs[j].at
              /\ KeptJobs(jobs, live)[j].doc # None =>
                   /\ KeptJobs(jobs, live)[j].doc = jobs[j].doc
                   /\ jobs[j].doc \in live
<1> SUFFICES ASSUME NEW j \in Jobs
             PROVE  /\ KeptJobs(jobs, live)[j] \in JobStates
                    /\ KeptJobs(jobs, live)[j].at = jobs[j].at
                    /\ KeptJobs(jobs, live)[j].doc # None =>
                         /\ KeptJobs(jobs, live)[j].doc = jobs[j].doc
                         /\ jobs[j].doc \in live
  <2>1. KeptJobs(jobs, live) = [j \in Jobs |-> KeptJobs(jobs, live)[j]]
    BY DEF KeptJobs
  <2>2. QED
    BY <2>1
<1>1. jobs[j] \in JobStates
  OBVIOUS
<1>2. KeptJobs(jobs, live)[j] =
        IF jobs[j].doc \in live THEN jobs[j] ELSE [jobs[j] EXCEPT !.doc = None]
  BY DEF KeptJobs
<1>3. QED
  BY <1>1, <1>2 DEF JobStates

(* The garbage collected, coroutines fill what is left. *)
LEMMA KeptAttached ==
  ASSUME NEW docs \in [Docs -> DocStates], NEW jobs \in [Jobs -> JobStates], NEW live,
         \A j \in Jobs : jobs[j].doc \in live /\ jobs[j].doc # None =>
           docs[jobs[j].doc].children # None,
         doc' = Kept(docs, live), job' = KeptJobs(jobs, live),
         live \subseteq Live'
  PROVE  /\ doc' \in [Docs -> DocStates]
         /\ job' \in [Jobs -> JobStates]
         /\ \A j \in Jobs : job'[j].at = jobs[j].at
         /\ Attached'
<1>1. /\ doc' \in [Docs -> DocStates]
      /\ \A d \in Docs : d \in live => doc'[d] = docs[d]
  BY KeptFacts
<1>2. /\ job' \in [Jobs -> JobStates]
      /\ \A j \in Jobs :
           /\ job'[j].at = jobs[j].at
           /\ job'[j].doc # None => job'[j].doc = jobs[j].doc /\ jobs[j].doc \in live
  BY KeptJobsFacts
<1>3. \A j \in Jobs : jobs[j].doc \in Docs \cup {None}
  BY DEF JobStates
<1>4. Attached'
  BY <1>1, <1>2, <1>3 DEF Attached
<1>5. QED
  BY <1>1, <1>2, <1>4

-----------------------------------------------------------------------------
(* What the steps of a query do to the clients *)

LEMMA GoFacts ==
  ASSUME Fields, Carried, NEW r \in Readers, NEW state \in ReaderStates,
         pc[r] \in Held <=> state \in Held, Go(r, state)
  PROVE  /\ pc' \in [Readers -> ReaderStates] /\ result' = result /\ cursor' = cursor
         /\ pc'[r] = state /\ \A s \in Readers \ {r} : pc'[s] = pc[s]
         /\ Carried'
<1>1. /\ pc' \in [Readers -> ReaderStates] /\ result' = result /\ cursor' = cursor
      /\ pc'[r] = state /\ \A s \in Readers \ {r} : pc'[s] = pc[s]
  BY DEF Fields, Go
<1>2. QED
  BY <1>1 DEF Carried

LEMMA ThrowFacts ==
  ASSUME Fields, Carried, NEW r \in Readers, Throw(r)
  PROVE  /\ pc' \in [Readers -> ReaderStates] /\ result' \in [Readers -> Results]
         /\ cursor' = cursor
         /\ pc'[r] = "idle" /\ \A s \in Readers \ {r} : pc'[s] = pc[s]
         /\ Items(Readers \ {r})' = Items(Readers \ {r})
         /\ Items(Readers \ {r}) \subseteq Items(Readers)'
         /\ Carried'
<1>1. /\ pc' \in [Readers -> ReaderStates] /\ result' \in [Readers -> Results]
      /\ cursor' = cursor
      /\ pc'[r] = "idle" /\ \A s \in Readers \ {r} : pc'[s] = pc[s]
      /\ result'[r] = NoResult /\ \A s \in Readers \ {r} : result'[s] = result[s]
  BY NewTypes DEF Fields, Throw, ReaderStates
<1>2. Carried'
  BY <1>1 DEF Carried, Held
<1>3. /\ Items(Readers \ {r})' = Items(Readers \ {r})
      /\ Items(Readers \ {r}) \subseteq Items(Readers)'
  BY <1>1 DEF Items
<1>4. QED
  BY <1>1, <1>2, <1>3

(* A step of a query that has no cursor yet leaves the cursors alone. *)
LEMMA QueryingCursors ==
  ASSUME Fields, Cursors, NEW r \in Readers, pc[r] \notin {"built", "open"},
         \A s \in Readers \ {r} : pc'[s] = pc[s],
         cursor' = cursor, notified' = notified, \A j \in Jobs : job'[j].at = job[j].at
  PROVE  Cursors'
<1>1. cursor[r] = None /\ r \notin notified
  BY DEF Cursors
<1>2. \A s \in Readers : cursor[s] # None => cursor[s] \in Jobs /\ s # r
  BY <1>1 DEF Fields
<1>3. ASSUME NEW s \in Readers, cursor'[s] # None
      PROVE  pc'[s] \in {"built", "open"} /\ job'[cursor'[s]].at # "none"
  BY <1>2, <1>3 DEF Cursors
<1>4. \A s, t \in Readers : cursor'[s] = cursor'[t] => s = t \/ cursor'[s] = None
  BY DEF Cursors
<1>5. \A s \in notified' : pc'[s] = "open"
  BY <1>1 DEF Cursors, Fields
<1>6. QED
  BY <1>3, <1>4, <1>5 DEF Cursors

(* Nothing changes that coroutines fill. *)
LEMMA SameAttached ==
  ASSUME Attached, UNCHANGED <<entry, doc, job, result>>
  PROVE  Attached'
BY DEF Attached, Live, Items

LEMMA DisturbedStays == ASSUME Fields, disturbed' = disturbed PROVE disturbed' \in 0 .. Disturbances
BY DEF Fields

-----------------------------------------------------------------------------
(* Every step keeps the invariant *)

LEMMA InitIInv == Init => IInv
<1> SUFFICES ASSUME Init PROVE IInv
  OBVIOUS
<1>1. Fields
  <2>1. doc \in [Docs -> DocStates] /\ result \in [Readers -> Results] /\ job \in [Jobs -> JobStates]
    BY NewTypes DEF Init
  <2>2. pc \in [Readers -> ReaderStates] /\ cursor \in [Readers -> Jobs \cup {None}]
    BY DEF Init, ReaderStates
  <2>3. disturbed \in 0 .. Disturbances
    BY ListingAssumption DEF Init
  <2>4. Docs # {}
    <3>1. Cardinality(Docs) > Cardinality(Readers) + 1 /\ Cardinality(Readers) \in Nat
      BY ListingAssumption, FS_CardinalityType
    <3>2. Cardinality({}) = 0
      BY FS_EmptySet
    <3>3. QED
      BY <3>1, <3>2
  <2>5. entry \in Docs \cup {None}
    BY <2>4 DEF Init
  <2>6. QED
    BY <2>1, <2>2, <2>3, <2>5 DEF Init, Fields
<1>2. Carried
  BY DEF Init, Carried, Held
<1>3. Attached /\ Cursors
  BY DEF Init, Attached, Cursors, NoJob
<1>4. QED
  BY <1>1, <1>2, <1>3 DEF IInv

LEMMA QueryStepIInv == ASSUME IInv, NEW r \in Readers, Query(r) PROVE IInv'
<1>1. /\ pc' \in [Readers -> ReaderStates]
      /\ pc[r] = "idle" /\ pc'[r] = "find" /\ \A s \in Readers \ {r} : pc'[s] = pc[s]
  BY DEF IInv, Fields, Query, ReaderStates
<1>2. Carried'
  BY <1>1 DEF IInv, Carried, Held, Query
<1>3. Cursors'
  BY <1>1, QueryingCursors DEF IInv, Query
<1>4. QED
  BY <1>1, <1>2, <1>3, SameAttached DEF IInv, Fields, Query, cacheVars

LEMMA CloseIInv ==
  ASSUME IInv, NEW r \in Readers, NEW state \in {"idle", "find"}, CloseTo(r, state)
  PROVE  IInv'
<1>1. /\ pc' \in [Readers -> ReaderStates] /\ pc[r] = "open"
      /\ pc'[r] = state /\ \A s \in Readers \ {r} : pc'[s] = pc[s]
      /\ cursor' \in [Readers -> Jobs \cup {None}]
      /\ cursor'[r] = None /\ \A s \in Readers \ {r} : cursor'[s] = cursor[s]
      /\ notified' = notified \ {r}
      /\ UNCHANGED <<cacheVars, result, task>>
  BY DEF IInv, Fields, CloseTo, ReaderStates
<1>2. ASSUME NEW j \in Jobs
      PROVE  /\ job'[j] \in JobStates
             /\ job'[j].doc \in {job[j].doc, None}
             /\ j # cursor[r] => job'[j] = job[j]
  <2>1. job[j] \in JobStates
    BY DEF IInv, Fields
  <2>2. \/ job'[j] = job[j]
        \/ j = cursor[r] /\ job'[j] \in {NoJob, [job[j] EXCEPT !.cancelled = TRUE]}
    BY DEF CloseTo
  <2>3. [job[j] EXCEPT !.cancelled = TRUE] \in JobStates
        /\ [job[j] EXCEPT !.cancelled = TRUE].doc = job[j].doc
    BY <2>1 DEF JobStates
  <2>4. CASE job'[j] = job[j]
    BY <2>1, <2>4
  <2>5. CASE j = cursor[r] /\ job'[j] = NoJob
    BY <2>5, NewTypes DEF NoJob
  <2>6. CASE j = cursor[r] /\ job'[j] = [job[j] EXCEPT !.cancelled = TRUE]
    BY <2>3, <2>6
  <2>7. QED
    BY <2>2, <2>4, <2>5, <2>6
<1>3. job' \in [Jobs -> JobStates]
  <2>1. job' = [j \in Jobs |-> job'[j]]
    BY DEF CloseTo
  <2>2. QED
    BY <1>2, <2>1
<1>4. Carried'
  BY <1>1 DEF IInv, Carried, Held
<1>5. Attached'
  BY <1>1, <1>2 DEF IInv, Attached, Live, Items, cacheVars
<1>6. Cursors'
  <2>1. ASSUME NEW s \in Readers, s # r, cursor[s] # None
        PROVE  cursor[s] \in Jobs /\ cursor[s] # cursor[r]
    BY <2>1 DEF IInv, Fields, Cursors
  <2>2. ASSUME NEW s \in Readers, cursor'[s] # None
        PROVE  pc'[s] \in {"built", "open"} /\ job'[cursor'[s]].at # "none"
    <3>1. s # r /\ cursor'[s] = cursor[s] /\ pc'[s] = pc[s]
      BY <1>1, <2>2
    <3>2. job'[cursor[s]] = job[cursor[s]]
      BY <1>2, <2>1, <2>2, <3>1
    <3>3. QED
      BY <2>2, <3>1, <3>2 DEF IInv, Cursors
  <2>3. ASSUME NEW s \in Readers, NEW t \in Readers, cursor'[s] = cursor'[t], cursor'[s] # None
        PROVE  s = t
    BY <1>1, <2>3 DEF IInv, Cursors
  <2>4. \A s \in notified' : pc'[s] = "open"
    BY <1>1 DEF IInv, Cursors, Fields
  <2>5. QED
    BY <2>2, <2>3, <2>4 DEF Cursors
<1>7. QED
  BY <1>1, <1>3, <1>4, <1>5, <1>6 DEF IInv, Fields, cacheVars

LEMMA FindIInv == ASSUME IInv, NEW r \in Readers, Find(r) PROVE IInv'
<1> USE DEF IInv
<1>1. /\ pc[r] = "find" /\ result[r] = NoResult /\ exception' \in BOOLEAN
      /\ UNCHANGED <<entry, doc, disturbed, task, notified, job>>
  BY DEF Find, Carried, Held, Fields
<1>2. CASE Go(r, "get") \/ Go(r, "fetch")
  <2>1. /\ pc' \in [Readers -> ReaderStates] /\ result' = result /\ cursor' = cursor
        /\ \A s \in Readers \ {r} : pc'[s] = pc[s]
        /\ Carried'
    BY <1>1, <1>2, GoFacts DEF Held, ReaderStates
  <2>2. Cursors'
    BY <1>1, <2>1, QueryingCursors
  <2>3. QED
    BY <1>1, <2>1, <2>2, SameAttached DEF Fields
<1>3. CASE Throw(r)
  <2>1. /\ pc' \in [Readers -> ReaderStates] /\ result' \in [Readers -> Results]
        /\ cursor' = cursor /\ \A s \in Readers \ {r} : pc'[s] = pc[s]
        /\ Carried'
    BY <1>3, ThrowFacts
  <2>2. result' = result
    BY <1>1, <1>3 DEF Throw, Fields
  <2>3. Cursors'
    BY <1>1, <2>1, QueryingCursors
  <2>4. QED
    BY <1>1, <2>1, <2>2, <2>3, SameAttached DEF Fields
<1>4. QED
  BY <1>2, <1>3 DEF Find

LEMMA LoadDocumentIInv == ASSUME IInv, NEW r \in Readers, LoadDocument(r) PROVE IInv'
<1> USE DEF IInv
<1>1. /\ pc[r] = "fetch" /\ result[r] = NoResult
      /\ UNCHANGED <<disturbed, task, notified>>
  BY DEF LoadDocument, Carried, Held
<1>2. CASE exception' = TRUE /\ Throw(r) /\ UNCHANGED <<entry, doc, job>>
  <2>1. /\ pc' \in [Readers -> ReaderStates] /\ result' \in [Readers -> Results]
        /\ cursor' = cursor /\ \A s \in Readers \ {r} : pc'[s] = pc[s]
        /\ Carried'
    BY <1>2, ThrowFacts
  <2>2. result' = result
    BY <1>1, <1>2 DEF Throw, Fields
  <2>3. Cursors'
    BY <1>1, <1>2, <2>1, QueryingCursors
  <2>4. QED
    BY <1>1, <1>2, <2>1, <2>2, <2>3, SameAttached DEF Fields
<1>3. CASE LET live == {NewObject} \cup Items(Readers) IN
           /\ entry' = NewObject
           /\ doc' = Kept([doc EXCEPT ![NewObject] = NewDoc], live)
           /\ job' = KeptJobs(job, live)
           /\ Go(r, "get")
           /\ UNCHANGED exception
  <2> DEFINE live == {NewObject} \cup Items(Readers)
             docs == [doc EXCEPT ![NewObject] = NewDoc]
  <2>1. Go(r, "get") /\ entry' = NewObject /\ exception' = exception
    BY <1>3
  <2>2. /\ pc' \in [Readers -> ReaderStates] /\ result' = result /\ cursor' = cursor
        /\ \A s \in Readers \ {r} : pc'[s] = pc[s]
        /\ Carried'
    BY <1>1, <2>1, GoFacts DEF Held, ReaderStates
  <2>3. NewObject \in Docs /\ NewObject \notin Live
    BY NewObjectFacts
  <2>4. docs \in [Docs -> DocStates] /\ \A d \in Docs \ {NewObject} : docs[d] = doc[d]
    BY <2>3, NewTypes DEF Fields
  <2>5. doc' = Kept(docs, live) /\ job' = KeptJobs(job, live)
    BY <1>3
  <2>6. job \in [Jobs -> JobStates]
    BY DEF Fields
  <2>7. \A j \in Jobs : job[j].doc # None => docs[job[j].doc].children # None
    BY <2>3, <2>4, <2>6 DEF Attached, JobStates
  <2>8. live \subseteq Live'
    BY <2>1, <2>2 DEF Live, Items
  <2> HIDE DEF live, docs
  <2>9. /\ doc' \in [Docs -> DocStates]
        /\ job' \in [Jobs -> JobStates]
        /\ \A j \in Jobs : job'[j].at = job[j].at
        /\ Attached'
    BY <2>4, <2>5, <2>6, <2>7, <2>8, KeptAttached
  <2>10. Cursors'
    BY <1>1, <2>2, <2>9, QueryingCursors
  <2>11. QED
    BY <1>1, <2>1, <2>2, <2>3, <2>9, <2>10 DEF Fields
<1>4. QED
  BY <1>2, <1>3 DEF LoadDocument

LEMMA GetIInv == ASSUME IInv, NEW r \in Readers, Get(r) PROVE IInv'
<1> USE DEF IInv
<1>a. pc[r] = "get" /\ result[r] = NoResult /\ UNCHANGED <<cacheVars, task, notified, job>>
  BY DEF Get, Carried, Held
<1>1. CASE entry = None
  <2>1. /\ pc' \in [Readers -> ReaderStates] /\ result' \in [Readers -> Results]
        /\ cursor' = cursor /\ \A s \in Readers \ {r} : pc'[s] = pc[s]
        /\ Carried'
    BY <1>1, ThrowFacts DEF Get
  <2>2. result' = result
    BY <1>a, <1>1 DEF Get, Throw, Fields
  <2>3. Cursors'
    BY <1>a, <2>1, QueryingCursors
  <2>4. QED
    BY <1>a, <2>1, <2>2, <2>3, SameAttached DEF Fields, cacheVars
<1>2. CASE entry # None
  <2> DEFINE new == [item |-> entry, expired |-> doc[entry].expired]
  <2>1. new \in Results /\ new.item \in Docs
    BY <1>2 DEF Fields, Results, DocStates
  <2>2. /\ pc' = [pc EXCEPT ![r] = "consult"] /\ result' = [result EXCEPT ![r] = new]
        /\ cursor' = cursor
    BY <1>2 DEF Get
  <2> HIDE DEF new
  <2>3. /\ pc' \in [Readers -> ReaderStates] /\ result' \in [Readers -> Results]
        /\ pc'[r] = "consult" /\ result'[r] = new
        /\ \A s \in Readers \ {r} : pc'[s] = pc[s] /\ result'[s] = result[s]
    BY <2>1, <2>2 DEF Fields, ReaderStates
  <2>4. Carried'
    BY <2>1, <2>3 DEF Carried, Held
  <2>5. Cursors'
    BY <1>a, <2>2, <2>3, QueryingCursors
  <2>6. Live \ {None} \subseteq Live'
    BY <1>a, <2>3 DEF Live, Items, NoResult, cacheVars
  <2>7. Attached'
    BY <1>a, <2>6 DEF Attached, cacheVars
  <2>8. QED
    BY <1>a, <2>2, <2>3, <2>4, <2>5, <2>7 DEF Fields, cacheVars
<1>3. QED
  BY <1>1, <1>2

LEMMA ConsultIInv == ASSUME IInv, NEW r \in Readers, Consult(r) PROVE IInv'
<1> USE DEF IInv
<1> DEFINE d == result[r].item
<1>a. pc[r] = "consult" /\ d \in Docs /\ UNCHANGED <<entry, exception, disturbed, task, notified>>
  BY DEF Consult, Carried, Held
<1>1. CASE doc[d].failed
  <2> DEFINE docs == [doc EXCEPT ![d].failed = FALSE]
  <2>1. Throw(r) /\ doc' = Kept(docs, Without(r)) /\ job' = KeptJobs(job, Without(r))
    BY <1>1 DEF Consult
  <2>2. /\ pc' \in [Readers -> ReaderStates] /\ result' \in [Readers -> Results]
        /\ cursor' = cursor /\ \A s \in Readers \ {r} : pc'[s] = pc[s]
        /\ Items(Readers \ {r}) \subseteq Items(Readers)'
        /\ Carried'
    BY <2>1, ThrowFacts
  <2>3. docs \in [Docs -> DocStates] /\ \A e \in Docs : docs[e].children = doc[e].children
    BY <1>a DEF Fields, DocStates
  <2>4. Without(r) \subseteq Live'
    BY <1>a, <2>2 DEF Without, Live
  <2>5. job \in [Jobs -> JobStates]
    BY DEF Fields
  <2>6. \A j \in Jobs : job[j].doc # None => docs[job[j].doc].children # None
    BY <2>3, <2>5 DEF Attached, JobStates
  <2> HIDE DEF docs
  <2>7. /\ doc' \in [Docs -> DocStates]
        /\ job' \in [Jobs -> JobStates]
        /\ \A j \in Jobs : job'[j].at = job[j].at
        /\ Attached'
    BY <2>1, <2>3, <2>4, <2>5, <2>6, KeptAttached
  <2>8. Cursors'
    BY <1>a, <2>2, <2>7, QueryingCursors
  <2>9. QED
    BY <1>a, <2>2, <2>7, <2>8 DEF Fields
<1>2. CASE ~ doc[d].failed
  <2>1. \E state \in {"check", "rows"} : Go(r, state)
    BY <1>2 DEF Consult
  <2>2. UNCHANGED <<doc, job>>
    BY <1>2 DEF Consult
  <2>3. /\ pc' \in [Readers -> ReaderStates] /\ result' = result /\ cursor' = cursor
        /\ \A s \in Readers \ {r} : pc'[s] = pc[s]
        /\ Carried'
    BY <1>a, <2>1, GoFacts DEF Held, ReaderStates
  <2>4. Cursors'
    BY <1>a, <2>2, <2>3, QueryingCursors
  <2>5. QED
    BY <1>a, <2>2, <2>3, <2>4, SameAttached DEF Fields
<1>3. QED
  BY <1>1, <1>2

LEMMA CheckIInv == ASSUME IInv, NEW r \in Readers, Check(r) PROVE IInv'
<1> USE DEF IInv
<1>1. \E state \in {"store", "rows"} : Go(r, state)
  BY DEF Check
<1>2. pc[r] = "check" /\ UNCHANGED <<cacheVars, task, notified, job>>
  BY DEF Check
<1>3. /\ pc' \in [Readers -> ReaderStates] /\ result' = result /\ cursor' = cursor
      /\ \A s \in Readers \ {r} : pc'[s] = pc[s]
      /\ Carried'
  BY <1>1, <1>2, GoFacts DEF Held, ReaderStates
<1>4. Cursors'
  BY <1>2, <1>3, QueryingCursors
<1>5. QED
  BY <1>2, <1>3, <1>4, SameAttached DEF Fields, cacheVars

LEMMA StoreIInv == ASSUME IInv, NEW r \in Readers, Store(r) PROVE IInv'
<1> USE DEF IInv
<1>1. pc[r] = "store" /\ Go(r, "load") /\ task' = r /\ UNCHANGED <<cacheVars, notified, job>>
  BY DEF Store
<1>2. /\ pc' \in [Readers -> ReaderStates] /\ result' = result /\ cursor' = cursor
      /\ \A s \in Readers \ {r} : pc'[s] = pc[s]
      /\ Carried'
  BY <1>1, GoFacts DEF Held, ReaderStates
<1>3. Cursors'
  BY <1>1, <1>2, QueryingCursors
<1>4. QED
  BY <1>1, <1>2, <1>3, SameAttached DEF Fields, cacheVars

LEMMA FailChildrenIInv ==
  ASSUME IInv, NEW r \in Readers, pc[r] \in {"load", "close"}, FailChildren(r),
         UNCHANGED <<entry, exception, disturbed, task, notified>>
  PROVE  IInv'
<1> USE DEF IInv
<1> DEFINE d == result[r].item
<1>A. /\ d \in Docs /\ Throw(r)
      /\ doc' = Kept([doc EXCEPT ![d].failed = TRUE], Without(r))
      /\ job' = KeptJobs(job, Without(r))
  BY DEF FailChildren, Carried, Held
<1>B. job \in [Jobs -> JobStates] /\ doc \in [Docs -> DocStates]
  BY DEF Fields
<1> DEFINE docs == [doc EXCEPT ![d].failed = TRUE]
<1>2. /\ pc' \in [Readers -> ReaderStates] /\ result' \in [Readers -> Results]
      /\ cursor' = cursor /\ \A s \in Readers \ {r} : pc'[s] = pc[s]
      /\ Items(Readers \ {r}) \subseteq Items(Readers)'
      /\ Carried'
  BY <1>A, ThrowFacts
<1>3. docs \in [Docs -> DocStates] /\ \A e \in Docs : docs[e].children = doc[e].children
  BY <1>A, <1>B DEF DocStates
<1>4. Without(r) \subseteq Live'
  BY <1>A, <1>2 DEF Without, Live
<1>6. \A j \in Jobs : job[j].doc # None => docs[job[j].doc].children # None
  BY <1>B, <1>3 DEF Attached, JobStates
<1>7. doc' = Kept(docs, Without(r)) /\ job' = KeptJobs(job, Without(r))
  BY <1>A
<1> HIDE DEF docs
<1>8. /\ doc' \in [Docs -> DocStates]
      /\ job' \in [Jobs -> JobStates]
      /\ \A j \in Jobs : job'[j].at = job[j].at
      /\ Attached'
  BY <1>B, <1>3, <1>4, <1>6, <1>7, KeptAttached
<1>9. Cursors'
  BY <1>A, <1>2, <1>8, QueryingCursors
<1>10. QED
  BY <1>A, <1>2, <1>8, <1>9 DEF Fields

LEMMA LoadChildrenIInv == ASSUME IInv, NEW r \in Readers, LoadChildren(r) PROVE IInv'
<1> USE DEF IInv
<1> DEFINE d == result[r].item
<1>a. pc[r] = "load" /\ d \in Docs /\ UNCHANGED <<entry, exception, disturbed, task, notified>>
  BY DEF LoadChildren, Carried, Held
<1>b. job \in [Jobs -> JobStates] /\ doc \in [Docs -> DocStates]
  BY DEF Fields
<1>1. ASSUME NEW children \in [Files -> ChildStates],
             doc' = [doc EXCEPT ![d].children = children, ![d].expired = FALSE],
             job' = Detached(d), Go(r, "close")
      PROVE  IInv'
  <2>1. /\ pc' \in [Readers -> ReaderStates] /\ result' = result /\ cursor' = cursor
        /\ \A s \in Readers \ {r} : pc'[s] = pc[s]
        /\ Carried'
    BY <1>a, <1>1, GoFacts DEF Held, ReaderStates
  <2>2. doc' \in [Docs -> DocStates] /\ \A e \in Docs \ {d} : doc'[e] = doc[e]
    BY <1>a, <1>b, <1>1 DEF DocStates
  <2>3. ASSUME NEW j \in Jobs
        PROVE  /\ job'[j] \in JobStates /\ job'[j].at = job[j].at
               /\ job'[j].doc # None => job'[j].doc = job[j].doc /\ job[j].doc # d
    <3>1. job'[j] = IF job[j].doc = d THEN [job[j] EXCEPT !.doc = None] ELSE job[j]
      BY <1>1 DEF Detached
    <3>2. QED
      BY <1>b, <3>1 DEF JobStates
  <2>4. job' \in [Jobs -> JobStates]
    <3>1. job' = [j \in Jobs |-> job'[j]]
      BY <1>1 DEF Detached
    <3>2. QED
      BY <2>3, <3>1
  <2>5. Attached'
    <3>1. Live' = Live
      BY <1>a, <2>1 DEF Live, Items
    <3>2. \A j \in Jobs : job[j].doc \in Docs \cup {None}
      BY <1>b DEF JobStates
    <3>3. QED
      BY <2>2, <2>3, <3>1, <3>2 DEF Attached
  <2>6. Cursors'
    BY <1>a, <2>1, <2>3, QueryingCursors
  <2>7. QED
    BY <1>a, <2>1, <2>2, <2>4, <2>5, <2>6 DEF Fields
<1>3. QED
  <2>1. CASE \E there \in SUBSET Files :
               LET children == [f \in Files |-> IF f \in there THEN "bare" ELSE "absent"] IN
               /\ doc' = [doc EXCEPT ![d].children = children, ![d].expired = FALSE]
               /\ job' = Detached(d)
               /\ Go(r, "close")
    <3>1. PICK there \in SUBSET Files :
            LET children == [f \in Files |-> IF f \in there THEN "bare" ELSE "absent"] IN
            /\ doc' = [doc EXCEPT ![d].children = children, ![d].expired = FALSE]
            /\ job' = Detached(d)
            /\ Go(r, "close")
      BY <2>1
    <3> DEFINE children == [f \in Files |-> IF f \in there THEN "bare" ELSE "absent"]
    <3>2. children \in [Files -> ChildStates]
      BY DEF ChildStates
    <3>3. /\ doc' = [doc EXCEPT ![d].children = children, ![d].expired = FALSE]
          /\ job' = Detached(d) /\ Go(r, "close")
      BY <3>1
    <3> HIDE DEF children
    <3>4. QED
      BY <1>1, <3>2, <3>3
  <2>2. CASE FailChildren(r)
    BY <1>a, <2>2, FailChildrenIInv
  <2>3. QED
    BY <2>1, <2>2 DEF LoadChildren

LEMMA CloseDirIInv == ASSUME IInv, NEW r \in Readers, CloseDir(r) PROVE IInv'
<1> USE DEF IInv
<1>1. /\ pc[r] = "close" /\ result[r].item \in Docs
      /\ UNCHANGED <<exception, disturbed, task, notified>>
  BY DEF CloseDir, Carried, Held
<1>2. CASE FailChildren(r) /\ UNCHANGED entry
  BY <1>1, <1>2, FailChildrenIInv
<1>3. ASSUME Go(r, "rows")
      PROVE  /\ pc' \in [Readers -> ReaderStates] /\ result' = result /\ cursor' = cursor
             /\ \A s \in Readers \ {r} : pc'[s] = pc[s]
             /\ Carried'
  BY <1>1, <1>3, GoFacts DEF Held, ReaderStates
<1>4. CASE Go(r, "rows") /\ UNCHANGED <<entry, doc, job>>
  <2>1. Cursors'
    BY <1>1, <1>3, <1>4, QueryingCursors
  <2>2. QED
    BY <1>1, <1>3, <1>4, <2>1, SameAttached DEF Fields
<1>5. CASE Go(r, "rows") /\ PutBack(r)
  <2>1. /\ entry' = result[r].item
        /\ doc' = Kept(doc, Items(Readers)) /\ job' = KeptJobs(job, Items(Readers))
    BY <1>5 DEF PutBack
  <2>2. Items(Readers) \subseteq Live'
    BY <1>3, <1>5 DEF Live, Items
  <2>3. doc \in [Docs -> DocStates] /\ job \in [Jobs -> JobStates]
    BY DEF Fields
  <2>4. \A j \in Jobs : job[j].doc # None => doc[job[j].doc].children # None
    BY DEF Attached
  <2>5. /\ doc' \in [Docs -> DocStates]
        /\ job' \in [Jobs -> JobStates]
        /\ \A j \in Jobs : job'[j].at = job[j].at
        /\ Attached'
    BY <2>1, <2>2, <2>3, <2>4, KeptAttached
  <2>6. Cursors'
    BY <1>1, <1>3, <1>5, <2>5, QueryingCursors
  <2>7. QED
    BY <1>1, <1>3, <1>5, <2>1, <2>5, <2>6 DEF Fields
<1>6. QED
  BY <1>2, <1>4, <1>5 DEF CloseDir

LEMMA RegisterIInv == ASSUME IInv, NEW r \in Readers, Register(r) PROVE IInv'
<1> USE DEF IInv
<1>1. /\ pc[r] = "built" /\ pc' = [pc EXCEPT ![r] = "open"]
      /\ UNCHANGED <<cacheVars, result, cursor, task, notified, job>>
  BY DEF Register
<1>2. /\ pc' \in [Readers -> ReaderStates] /\ pc'[r] = "open"
      /\ \A s \in Readers \ {r} : pc'[s] = pc[s]
  BY <1>1 DEF Fields, ReaderStates
<1>3. Carried' /\ Cursors'
  BY <1>1, <1>2 DEF Carried, Held, Cursors, Fields
<1>4. QED
  BY <1>1, <1>2, <1>3, SameAttached DEF Fields, cacheVars

(* The rows: the object is done with, and a coroutine may be launched. *)
LEMMA RowsIInv == ASSUME IInv, NEW r \in Readers, Rows(r) PROVE IInv'
<1> USE DEF IInv
<1> DEFINE d == result[r].item
           children == doc[d].children
           launched(j) == [job EXCEPT ![j] =
             [at |-> "check", doc |-> d, todo |-> ToLoad(children), cancelled |-> FALSE]]
           docs == [doc EXCEPT ![d].children = Consulted(children)]
<1>a. /\ pc[r] = "rows" /\ d \in Docs
      /\ pc' = [pc EXCEPT ![r] = "built"] /\ result' = [result EXCEPT ![r] = NoResult]
      /\ UNCHANGED <<entry, exception, disturbed, task, notified>>
  BY DEF Rows, Carried, Held
<1>b. doc \in [Docs -> DocStates] /\ job \in [Jobs -> JobStates]
  BY DEF Fields
<1>1. /\ pc' \in [Readers -> ReaderStates] /\ result' \in [Readers -> Results]
      /\ pc'[r] = "built" /\ result'[r] = NoResult
      /\ \A s \in Readers \ {r} : pc'[s] = pc[s] /\ result'[s] = result[s]
  BY <1>a, NewTypes DEF Fields, ReaderStates
<1>2. Carried'
  BY <1>1 DEF Carried, Held
<1>3. Without(r) \subseteq Live'
  BY <1>a, <1>1 DEF Without, Live, Items
<1>4. \A j \in Jobs : job[j].doc # None => doc[job[j].doc].children # None /\ job[j].doc \in Docs
  BY <1>b DEF Attached, JobStates
<1>5. CASE children = None
  <2>1. /\ doc' = Kept(doc, Without(r)) /\ job' = KeptJobs(job, Without(r))
        /\ cursor' = cursor
    BY <1>5 DEF Rows
  <2>2. /\ doc' \in [Docs -> DocStates]
        /\ job' \in [Jobs -> JobStates]
        /\ \A j \in Jobs : job'[j].at = job[j].at
        /\ Attached'
    BY <1>b, <1>3, <1>4, <2>1, KeptAttached
  <2>3. Cursors'
    BY <1>a, <1>1, <2>1, <2>2, QueryingCursors
  <2>4. QED
    BY <1>a, <1>1, <1>2, <2>1, <2>2, <2>3 DEF Fields
<1>6. CASE children # None
  <2>1. children \in [Files -> ChildStates]
    BY <1>a, <1>b, <1>6 DEF DocStates
  <2>2. Consulted(children) \in [Files -> ChildStates]
    <3> HIDE DEF children
    <3>1. QED
      BY <2>1 DEF Consulted, ChildStates
  <2>3. Consulted(children) # None
    BY <2>2, ChildrenAssumption
  <2>4. /\ docs \in [Docs -> DocStates]
        /\ docs[d].children = Consulted(children)
        /\ \A e \in Docs \ {d} : docs[e] = doc[e]
    BY <1>a, <1>b, <2>2 DEF DocStates
  <2>5. \A e \in Docs : doc[e].children # None => docs[e].children # None
    BY <2>3, <2>4
  <2>6. CASE ToLoad(children) = {}
    <3>1. /\ doc' = Kept(docs, Without(r)) /\ job' = KeptJobs(job, Without(r))
          /\ cursor' = cursor
      BY <1>6, <2>6 DEF Rows
    <3> HIDE DEF docs
    <3>2. /\ doc' \in [Docs -> DocStates]
          /\ job' \in [Jobs -> JobStates]
          /\ \A j \in Jobs : job'[j].at = job[j].at
          /\ Attached'
      BY <1>b, <1>3, <1>4, <2>4, <2>5, <3>1, KeptAttached
    <3>3. Cursors'
      BY <1>a, <1>1, <3>1, <3>2, QueryingCursors
    <3>4. QED
      BY <1>a, <1>1, <1>2, <3>1, <3>2, <3>3 DEF Fields
  <2>7. CASE ToLoad(children) # {}
    <3>1. PICK j \in Jobs : /\ job[j].at = "none"
                            /\ job' = KeptJobs(launched(j), Without(r))
                            /\ cursor' = [cursor EXCEPT ![r] = j]
      BY <1>6, <2>7 DEF Rows
    <3>2. doc' = Kept(docs, Without(r))
      BY <1>6 DEF Rows
    <3> DEFINE jobs == launched(j)
               new == [at |-> "check", doc |-> d, todo |-> ToLoad(children), cancelled |-> FALSE]
    <3>2a. job' = KeptJobs(jobs, Without(r))
      BY <3>1
    <3>3. new \in JobStates /\ new.at = "check" /\ new.doc = d
      BY <1>a DEF JobStates, ToLoad
    <3>4. jobs = [job EXCEPT ![j] = new]
      OBVIOUS
    <3> HIDE DEF new, jobs, docs, children
    <3>5. jobs \in [Jobs -> JobStates] /\ jobs[j] = new /\ \A k \in Jobs \ {j} : jobs[k] = job[k]
      BY <1>b, <3>3, <3>4
    <3>6. \A k \in Jobs : jobs[k].doc # None => docs[jobs[k].doc].children # None
      <4>1. docs[d].children # None
        BY <2>3, <2>4
      <4>2. QED
        BY <1>4, <2>5, <3>3, <3>5, <4>1
    <3>7. /\ doc' \in [Docs -> DocStates]
          /\ job' \in [Jobs -> JobStates]
          /\ \A k \in Jobs : job'[k].at = jobs[k].at
          /\ Attached'
      BY <1>3, <2>4, <3>2, <3>2a, <3>5, <3>6, KeptAttached
    <3>8. /\ cursor' \in [Readers -> Jobs \cup {None}]
          /\ cursor'[r] = j /\ \A s \in Readers \ {r} : cursor'[s] = cursor[s]
      BY <3>1 DEF Fields
    <3>9. \A s \in Readers : cursor[s] # None => cursor[s] \in Jobs /\ cursor[s] # j
      BY <3>1 DEF Cursors, Fields
    <3>10. ASSUME NEW s \in Readers, cursor'[s] # None
           PROVE  pc'[s] \in {"built", "open"} /\ job'[cursor'[s]].at # "none"
      <4>1. CASE s = r
        BY <1>1, <3>3, <3>5, <3>7, <3>8, <4>1
      <4>2. CASE s # r
        BY <1>1, <3>5, <3>7, <3>8, <3>9, <3>10, <4>2 DEF Cursors
      <4>3. QED
        BY <4>1, <4>2
    <3>11. ASSUME NEW s \in Readers, NEW t \in Readers, cursor'[s] = cursor'[t], cursor'[s] # None
           PROVE  s = t
      <4>1. j # None
        BY ListingAssumption
      <4>2. QED
        BY <3>8, <3>9, <3>11, <4>1 DEF Cursors
    <3>12. \A s \in notified' : pc'[s] = "open"
      BY <1>a, <1>1 DEF Cursors, Fields
    <3>13. Cursors'
      BY <3>10, <3>11, <3>12 DEF Cursors
    <3>14. QED
      BY <1>a, <1>1, <1>2, <3>7, <3>8, <3>13 DEF Fields
  <2>8. QED
    BY <2>6, <2>7
<1>7. QED
  BY <1>5, <1>6

-----------------------------------------------------------------------------
(* The steps of a coroutine *)

(* One coroutine goes on, or is gone when no cursor refers to it. *)
LEMMA JobGoesOn ==
  ASSUME IInv, NEW j \in Jobs, NEW n \in JobStates,
         job' = [job EXCEPT ![j] = n], n.doc \in {job[j].doc, None},
         n.at = "none" => \A r \in Readers : cursor[r] # j,
         doc' \in [Docs -> DocStates],
         \A d \in Docs : doc[d].children # None => doc'[d].children # None,
         task' \in Readers \cup Jobs \cup {None},
         notified' \subseteq Readers, \A r \in notified' : r \in notified \/ pc[r] = "open",
         UNCHANGED <<entry, exception, disturbed, readerVars>>
  PROVE  IInv'
<1> USE DEF IInv
<1>1. /\ job' \in [Jobs -> JobStates]
      /\ job'[j] = n /\ \A k \in Jobs \ {j} : job'[k] = job[k]
  BY DEF Fields
<1>2. UNCHANGED <<pc, result, cursor>>
  BY DEF readerVars
<1>3. Carried'
  BY <1>2 DEF Carried
<1>4. Attached'
  <2>1. Live' = Live
    BY <1>2 DEF Live, Items
  <2>2. \A k \in Jobs : job[k].doc \in Docs \cup {None}
    BY DEF Fields, JobStates
  <2>3. QED
    BY <1>1, <2>1, <2>2 DEF Attached
<1>5. Cursors'
  <2>1. ASSUME NEW r \in Readers, cursor[r] # None
        PROVE  pc[r] \in {"built", "open"} /\ job'[cursor[r]].at # "none"
    <3>1. cursor[r] \in Jobs /\ pc[r] \in {"built", "open"} /\ job[cursor[r]].at # "none"
      BY <2>1 DEF Fields, Cursors
    <3>2. QED
      BY <1>1, <3>1
  <2>2. QED
    BY <1>2, <2>1 DEF Cursors
<1>6. QED
  BY <1>1, <1>2, <1>3, <1>4, <1>5 DEF Fields

LEMMA ContinueFacts ==
  ASSUME Fields, NEW j \in Jobs, NEW state \in {"store", "begin", "stat", "notify"}
  PROVE  /\ [job[j] EXCEPT !.at = state] \in JobStates
         /\ [job[j] EXCEPT !.at = state].doc = job[j].doc
         /\ [job[j] EXCEPT !.at = state].at # "none"
<1>1. job[j] \in JobStates
  BY DEF Fields
<1>2. QED
  BY <1>1 DEF JobStates

LEMMA TodoFacts ==
  ASSUME Fields, NEW j \in Jobs, NEW f, job[j].at # "none"
  PROVE  /\ [job[j] EXCEPT !.todo = @ \ {f}] \in JobStates
         /\ [job[j] EXCEPT !.todo = @ \ {f}].doc = job[j].doc
         /\ [job[j] EXCEPT !.todo = @ \ {f}].at # "none"
<1>1. job[j] \in JobStates
  BY DEF Fields
<1>2. QED
  BY <1>1 DEF JobStates

LEMMA FinishedFacts ==
  ASSUME NEW j \in Jobs
  PROVE  /\ Finished(j) \in JobStates /\ Finished(j).doc = None
         /\ Finished(j).at = "none" => \A r \in Readers : cursor[r] # j
BY DEF Finished, NoJob, JobStates

(* It goes on with nothing changed but where it is. *)
LEMMA JobOnly ==
  ASSUME IInv, NEW j \in Jobs, NEW state \in {"store", "begin", "stat", "notify"},
         Finish(j) \/ Continue(j, state),
         task' \in Readers \cup Jobs \cup {None},
         UNCHANGED <<cacheVars, readerVars, notified>>
  PROVE  IInv'
<1>1. PICK n \in JobStates :
        /\ job' = [job EXCEPT ![j] = n] /\ n.doc \in {job[j].doc, None}
        /\ n.at = "none" => \A r \in Readers : cursor[r] # j
  <2>1. CASE Finish(j)
    BY <2>1, FinishedFacts DEF Finish
  <2>2. CASE Continue(j, state)
    <3>1. job' = [job EXCEPT ![j] = [job[j] EXCEPT !.at = state]]
      BY <2>2 DEF Continue
    <3>2. QED
      BY <3>1, ContinueFacts DEF IInv
  <2>3. QED
    BY <2>1, <2>2
<1>2. UNCHANGED <<entry, exception, doc, disturbed>>
  BY DEF cacheVars
<1>3. doc \in [Docs -> DocStates] /\ notified \subseteq Readers
  BY DEF IInv, Fields
<1>4. QED
  BY <1>1, <1>2, <1>3, JobGoesOn

(* A stat, or its failure, comes to the children that are there. *)
LEMMA SetChildFacts ==
  ASSUME Fields, Attached, NEW j \in Jobs, job[j].doc # None, NEW f \in Files,
         NEW state \in {"stat", "failed"}, SetChild(job[j].doc, f, state)
  PROVE  /\ doc' \in [Docs -> DocStates]
         /\ \A d \in Docs : doc[d].children # None => doc'[d].children # None
<1> DEFINE e == job[j].doc
           children == doc[e].children
           new == [children EXCEPT ![f] = IF @ = "stat" THEN @ ELSE state]
<1>1. e \in Docs /\ doc[e] \in DocStates /\ children # None /\ doc \in [Docs -> DocStates]
  BY DEF Fields, Attached, JobStates
<1>2. children \in [Files -> ChildStates]
  BY <1>1 DEF DocStates
<1>3. new \in [Files -> ChildStates]
  <2> HIDE DEF children
  <2>1. QED
    BY <1>2 DEF ChildStates
<1>4. doc' = [doc EXCEPT ![e] = [doc[e] EXCEPT !.children = new]]
  BY DEF SetChild
<1> HIDE DEF new
<1>5. [doc[e] EXCEPT !.children = new] \in DocStates
      /\ [doc[e] EXCEPT !.children = new].children = new
  BY <1>1, <1>3 DEF DocStates
<1>6. new # None
  BY <1>3, ChildrenAssumption
<1>7. QED
  BY <1>1, <1>4, <1>5, <1>6

LEMMA StatIInv ==
  ASSUME IInv, NEW j \in Jobs, NEW f \in Files, LoadStat(j, f) \/ FailStat(j, f)
  PROVE  IInv'
<1>1. job[j].at = "stat" /\ UNCHANGED <<entry, exception, disturbed, readerVars, task, notified>>
  BY DEF LoadStat, FailStat
<1>2. PICK n \in JobStates :
        /\ job' = [job EXCEPT ![j] = n] /\ n.doc \in {job[j].doc, None}
        /\ n.at = "none" => \A r \in Readers : cursor[r] # j
  <2>1. CASE Finish(j)
    BY <2>1, FinishedFacts DEF Finish
  <2>2. CASE job' = [job EXCEPT ![j].todo = @ \ {f}]
    <3>1. job' = [job EXCEPT ![j] = [job[j] EXCEPT !.todo = @ \ {f}]]
      BY <2>2
    <3>2. QED
      BY <1>1, <3>1, TodoFacts DEF IInv
  <2>3. QED
    BY <2>1, <2>2 DEF LoadStat, FailStat
<1>3. /\ doc' \in [Docs -> DocStates]
      /\ \A d \in Docs : doc[d].children # None => doc'[d].children # None
  <2>1. CASE job[j].doc = None
    BY <2>1 DEF LoadStat, FailStat, IInv, Fields
  <2>2. CASE job[j].doc # None
    <3>1. SetChild(job[j].doc, f, "stat") \/ SetChild(job[j].doc, f, "failed")
      BY <2>2 DEF LoadStat, FailStat
    <3>2. QED
      BY <2>2, <3>1, SetChildFacts DEF IInv
  <2>3. QED
    BY <2>1, <2>2
<1>4. task \in Readers \cup Jobs \cup {None} /\ notified \subseteq Readers
  BY DEF IInv, Fields
<1>5. QED
  BY <1>1, <1>2, <1>3, <1>4, JobGoesOn

LEMMA JobStepIInv == ASSUME IInv, NEW j \in Jobs, JobStep(j) PROVE IInv'
<1>a. task \in Readers \cup Jobs \cup {None}
  BY DEF IInv, Fields
<1>1. CASE JobCheck(j)
  <2>1. \E state \in {"store", "notify"} : Finish(j) \/ Continue(j, state)
    BY <1>1 DEF JobCheck
  <2>2. QED
    BY <1>a, <1>1, <2>1, JobOnly DEF JobCheck
<1>2. CASE JobStore(j)
  BY <1>a, <1>2, JobOnly DEF JobStore
<1>3. CASE JobBegin(j)
  BY <1>a, <1>3, JobOnly DEF JobBegin
<1>4. ASSUME NEW f \in Files, LoadStat(j, f) \/ FailStat(j, f) PROVE IInv'
  BY <1>4, StatIInv
<1>5. CASE JobEnd(j)
  BY <1>a, <1>5, JobOnly DEF JobEnd
<1>6. CASE Notify(j)
  <2>1. /\ job' = [job EXCEPT ![j] = Finished(j)]
        /\ notified' = notified \cup {r \in Readers : pc[r] = "open"}
        /\ UNCHANGED <<entry, exception, doc, disturbed, readerVars, task>>
    BY <1>6 DEF Notify, Finish, cacheVars
  <2>2. doc \in [Docs -> DocStates] /\ notified' \subseteq Readers
    BY <2>1 DEF IInv, Fields
  <2>3. QED
    BY <1>a, <2>1, <2>2, FinishedFacts, JobGoesOn
<1>7. QED
  BY <1>1, <1>2, <1>3, <1>4, <1>5, <1>6 DEF JobStep

-----------------------------------------------------------------------------
(* The rest of the provider, and time *)

LEMMA RemoveIInv == ASSUME IInv, Remove PROVE IInv'
<1> USE DEF IInv
<1>1. /\ disturbed < Disturbances /\ disturbed' = disturbed + 1
      /\ entry' = None /\ exception' = FALSE
      /\ doc' = Kept(doc, Items(Readers)) /\ job' = KeptJobs(job, Items(Readers))
      /\ UNCHANGED <<pc, result, cursor, task, notified>>
  BY DEF Remove, readerVars
<1>2. doc \in [Docs -> DocStates] /\ job \in [Jobs -> JobStates]
  BY DEF Fields
<1>3. \A j \in Jobs : job[j].doc # None => doc[job[j].doc].children # None
  BY DEF Attached
<1>4. Items(Readers) \subseteq Live'
  BY <1>1 DEF Live, Items
<1>5. /\ doc' \in [Docs -> DocStates]
      /\ job' \in [Jobs -> JobStates]
      /\ \A j \in Jobs : job'[j].at = job[j].at
      /\ Attached'
  BY <1>1, <1>2, <1>3, <1>4, KeptAttached
<1>6. Carried' /\ Cursors'
  <2>1. \A r \in Readers : cursor[r] # None => cursor[r] \in Jobs
    BY DEF Fields
  <2>2. QED
    BY <1>1, <1>5, <2>1 DEF Carried, Cursors
<1>7. disturbed' \in 0 .. Disturbances
  BY <1>1, ListingAssumption DEF Fields
<1>8. QED
  BY <1>1, <1>5, <1>6, <1>7 DEF Fields

LEMMA ExpireIInv == ASSUME IInv, Expire PROVE IInv'
<1> USE DEF IInv
<1>1. /\ disturbed < Disturbances /\ disturbed' = disturbed + 1
      /\ entry \in Docs
      /\ doc' = [doc EXCEPT ![entry] = [doc[entry] EXCEPT !.expired = TRUE]]
      /\ UNCHANGED <<entry, exception, pc, result, cursor, task, notified, job>>
  BY DEF Expire, readerVars, Fields
<1>2. doc[entry] \in DocStates /\ doc \in [Docs -> DocStates]
  BY <1>1 DEF Fields
<1>3. /\ [doc[entry] EXCEPT !.expired = TRUE] \in DocStates
      /\ [doc[entry] EXCEPT !.expired = TRUE].children = doc[entry].children
  BY <1>2 DEF DocStates
<1>4. /\ doc' \in [Docs -> DocStates]
      /\ \A d \in Docs : doc'[d].children = doc[d].children
  BY <1>1, <1>2, <1>3
<1>5. Attached'
  <2>1. Live' = Live /\ \A j \in Jobs : job[j].doc \in Docs \cup {None}
    BY <1>1 DEF Live, Items, Fields, JobStates
  <2>2. QED
    BY <1>1, <1>4, <2>1 DEF Attached
<1>6. Carried' /\ Cursors'
  BY <1>1 DEF Carried, Cursors
<1>7. disturbed' \in 0 .. Disturbances
  BY <1>1, ListingAssumption DEF Fields
<1>8. QED
  BY <1>1, <1>4, <1>5, <1>6, <1>7 DEF Fields

LEMMA IInvNext == IInv /\ [Next]_vars => IInv'
<1> SUFFICES ASSUME IInv, [Next]_vars PROVE IInv'
  OBVIOUS
<1>1. ASSUME NEW r \in Readers, Query(r) \/ Close(r) \/ Refresh(r) \/ QueryStep(r)
      PROVE  IInv'
  <2>1. CASE Query(r)
    BY <2>1, QueryStepIInv
  <2>2. CASE Close(r) \/ Refresh(r)
    BY <2>2, CloseIInv DEF Close, Refresh
  <2>3. CASE QueryStep(r)
    BY <2>3, FindIInv, LoadDocumentIInv, GetIInv, ConsultIInv, CheckIInv, StoreIInv,
       LoadChildrenIInv, CloseDirIInv, RowsIInv, RegisterIInv DEF QueryStep
  <2>4. QED
    BY <1>1, <2>1, <2>2, <2>3
<1>2. ASSUME NEW j \in Jobs, JobStep(j) PROVE IInv'
  BY <1>2, JobStepIInv
<1>3. CASE Remove
  BY <1>3, RemoveIInv
<1>4. CASE Expire
  BY <1>4, ExpireIInv
<1>5. CASE UNCHANGED vars
  <2>1. UNCHANGED <<entry, exception, doc, disturbed, pc, result, cursor, task, notified, job>>
    BY <1>5 DEF vars, cacheVars, readerVars
  <2>2. QED
    BY <2>1, SameAttached DEF IInv, Fields, Carried, Cursors
<1>6. QED
  BY <1>1, <1>2, <1>3, <1>4, <1>5 DEF Next

(***************************************************************************)
(* The listing's state is well formed for any clients, files, coroutines   *)
(* and objects: whatever is removed, replaced, cancelled or closed, a      *)
(* coroutine is one cursor's, and only a client with a cursor is told.     *)
(***************************************************************************)
THEOREM TypeCorrect == Safe => []TypeOK
<1>1. Safe => []IInv
  BY InitIInv, IInvNext, PTL DEF Safe
<1>2. QED
  BY <1>1, TypesFollow, PTL

-----------------------------------------------------------------------------
(* What clients are told *)

(* Only the cursor of a coroutine cancels it, and is closed by that. *)
Uncancelled == \A r \in Readers : cursor[r] # None => ~ job[cursor[r]].cancelled

(* What EndIsTold says of one step. *)
Told ==
  \A r \in Readers :
    pc[r] = "open" /\ UnderWay(r) => pc'[r] # "open" \/ UnderWay(r)' \/ r \in notified'

(* A coroutine does not end, and is not cancelled. *)
GoesOn(j) == job'[j].at = job[j].at /\ job'[j].cancelled = job[j].cancelled

LEMMA GoingOn ==
  ASSUME IInv, Uncancelled, cursor' = cursor,
         \A r \in Readers : cursor[r] # None => GoesOn(cursor[r])
  PROVE  Uncancelled' /\ Told
BY DEF Uncancelled, Told, UnderWay, Loading, GoesOn

(* Collecting garbage ends no coroutine. *)
LEMMA KeptGoesOn ==
  ASSUME NEW jobs \in [Jobs -> JobStates], NEW live, job' = KeptJobs(jobs, live), NEW j \in Jobs
  PROVE  job'[j].at = jobs[j].at /\ job'[j].cancelled = jobs[j].cancelled
<1>1. jobs[j] \in JobStates
  OBVIOUS
<1>2. job'[j] = IF jobs[j].doc \in live THEN jobs[j] ELSE [jobs[j] EXCEPT !.doc = None]
  BY DEF KeptJobs
<1>3. QED
  BY <1>1, <1>2 DEF JobStates

(* A reader whose cursor is closed cancels its own coroutine, nobody else's. *)
LEMMA CloseTold ==
  ASSUME IInv, Uncancelled, NEW r \in Readers, NEW state \in {"idle", "find"}, CloseTo(r, state)
  PROVE  Uncancelled' /\ Told
<1>1. /\ pc'[r] = state /\ \A s \in Readers \ {r} : pc'[s] = pc[s]
      /\ cursor'[r] = None /\ \A s \in Readers \ {r} : cursor'[s] = cursor[s]
  BY DEF IInv, Fields, CloseTo
<1>2. ASSUME NEW s \in Readers \ {r}, cursor[s] # None PROVE job'[cursor[s]] = job[cursor[s]]
  <2>1. cursor[s] \in Jobs /\ cursor[s] # cursor[r]
    BY <1>2 DEF IInv, Fields, Cursors
  <2>2. QED
    BY <2>1 DEF CloseTo
<1>3. QED
  BY <1>1, <1>2 DEF Uncancelled, Told, UnderWay, Loading

(* The coroutine that the rows are launched with is nobody's yet. *)
LEMMA RowsTold ==
  ASSUME IInv, Uncancelled, NEW r \in Readers, Rows(r)
  PROVE  Uncancelled' /\ Told
<1>1. job \in [Jobs -> JobStates] /\ \A s \in Readers : cursor[s] # None => cursor[s] \in Jobs
  BY DEF IInv, Fields
<1>2. CASE job' = KeptJobs(job, Without(r)) /\ cursor' = cursor
  BY <1>1, <1>2, KeptGoesOn, GoingOn DEF GoesOn
<1>3. ASSUME NEW j \in Jobs, NEW d \in Docs, NEW todo \in SUBSET Files, job[j].at = "none",
             cursor' = [cursor EXCEPT ![r] = j],
             job' = KeptJobs([job EXCEPT ![j] =
               [at |-> "check", doc |-> d, todo |-> todo, cancelled |-> FALSE]], Without(r))
      PROVE  Uncancelled' /\ Told
  <2> DEFINE new == [at |-> "check", doc |-> d, todo |-> todo, cancelled |-> FALSE]
             jobs == [job EXCEPT ![j] = new]
  <2>1. new \in JobStates /\ ~ new.cancelled
    BY DEF JobStates
  <2> HIDE DEF new
  <2>2. /\ jobs \in [Jobs -> JobStates]
        /\ ~ jobs[j].cancelled /\ \A k \in Jobs \ {j} : jobs[k] = job[k]
    BY <1>1, <2>1
  <2>3. job' = KeptJobs(jobs, Without(r))
    BY <1>3 DEF new
  <2> HIDE DEF jobs
  <2>4. \A k \in Jobs : job'[k].at = jobs[k].at /\ job'[k].cancelled = jobs[k].cancelled
    BY <2>2, <2>3, KeptGoesOn
  <2>5. cursor'[r] = j /\ \A s \in Readers \ {r} : cursor'[s] = cursor[s]
    BY <1>3 DEF IInv, Fields
  <2>6. \A s \in Readers : cursor[s] # None => cursor[s] # j
    BY <1>3 DEF IInv, Cursors
  <2>7. pc[r] # "open"
    BY DEF Rows
  <2>8. Uncancelled'
    BY <1>1, <2>2, <2>4, <2>5, <2>6 DEF Uncancelled
  <2>9. Told
    BY <1>1, <2>2, <2>4, <2>5, <2>6, <2>7 DEF Told, UnderWay, Loading
  <2>10. QED
    BY <2>8, <2>9
<1>4. result[r].item \in Docs
  BY DEF IInv, Carried, Held, Rows
<1>5. CASE ~ (job' = KeptJobs(job, Without(r)) /\ cursor' = cursor)
  <2> DEFINE todo == ToLoad(doc[result[r].item].children)
  <2>1. PICK j \in Jobs :
          /\ job[j].at = "none"
          /\ cursor' = [cursor EXCEPT ![r] = j]
          /\ job' = KeptJobs([job EXCEPT ![j] =
               [at |-> "check", doc |-> result[r].item, todo |-> todo, cancelled |-> FALSE]],
               Without(r))
    BY <1>5 DEF Rows
  <2>2. todo \in SUBSET Files
    BY DEF ToLoad
  <2> HIDE DEF todo
  <2>3. QED
    BY <1>3, <1>4, <2>1, <2>2
<1>6. QED
  BY <1>2, <1>5

LEMMA QueryStepTold ==
  ASSUME IInv, Uncancelled, NEW r \in Readers, QueryStep(r)
  PROVE  Uncancelled' /\ Told
<1>1. job \in [Jobs -> JobStates] /\ \A s \in Readers : cursor[s] # None => cursor[s] \in Jobs
  BY DEF IInv, Fields
<1>2. CASE Find(r) \/ Get(r) \/ Check(r) \/ Store(r) \/ Register(r)
  BY <1>2, GoingOn DEF Find, Get, Check, Store, Register, Go, Throw, GoesOn
<1>3. CASE Consult(r)
  <2>1. cursor' = cursor /\ (job' = job \/ job' = KeptJobs(job, Without(r)))
    BY <1>3 DEF Consult, Go, Throw
  <2>2. QED
    BY <1>1, <2>1, KeptGoesOn, GoingOn DEF GoesOn
<1>4. CASE LoadChildren(r)
  <2>1. cursor' = cursor
        /\ (job' = Detached(result[r].item) \/ job' = KeptJobs(job, Without(r)))
    BY <1>4 DEF LoadChildren, FailChildren, Go, Throw
  <2>2. ASSUME NEW j \in Jobs, job' = Detached(result[r].item) PROVE GoesOn(j)
    <3>1. job[j] \in JobStates
      BY <1>1
    <3>2. job'[j] = IF job[j].doc = result[r].item THEN [job[j] EXCEPT !.doc = None] ELSE job[j]
      BY <2>2 DEF Detached
    <3>3. QED
      BY <3>1, <3>2 DEF GoesOn, JobStates
  <2>3. QED
    BY <1>1, <2>1, <2>2, KeptGoesOn, GoingOn DEF GoesOn
<1>5. CASE CloseDir(r)
  <2>1. /\ cursor' = cursor
        /\ \/ job' = job
           \/ job' = KeptJobs(job, Items(Readers))
           \/ job' = KeptJobs(job, Without(r))
    BY <1>5 DEF CloseDir, FailChildren, PutBack, Go, Throw
  <2>2. QED
    BY <1>1, <2>1, KeptGoesOn, GoingOn DEF GoesOn
<1>8. CASE LoadDocument(r)
  <2>1. /\ cursor' = cursor
        /\ job' = job \/ job' = KeptJobs(job, {NewObject} \cup Items(Readers))
    BY <1>8 DEF LoadDocument, Go, Throw
  <2>2. QED
    BY <1>1, <2>1, KeptGoesOn, GoingOn DEF GoesOn
<1>6. CASE Rows(r)
  BY <1>6, RowsTold
<1>7. QED
  BY <1>2, <1>3, <1>4, <1>5, <1>6, <1>8 DEF QueryStep

(* A coroutine that is somebody's goes on to notify, and then does. *)
LEMMA JobStepTold ==
  ASSUME IInv, Uncancelled, NEW j \in Jobs, JobStep(j)
  PROVE  Uncancelled' /\ Told
<1>1. /\ job \in [Jobs -> JobStates]
      /\ \A r \in Readers : cursor[r] # None => cursor[r] \in Jobs
      /\ \A r \in Readers : cursor[r] = j => ~ job[j].cancelled
  BY ListingAssumption DEF IInv, Fields, Uncancelled
<1>2. cursor' = cursor /\ pc' = pc
  BY DEF JobStep, JobCheck, JobStore, JobBegin, LoadStat, FailStat, JobEnd, Notify, readerVars
<1>3. \A k \in Jobs \ {j} : job'[k] = job[k]
  BY <1>1 DEF JobStep, JobCheck, JobStore, JobBegin, LoadStat, FailStat, JobEnd, Notify,
     Continue, Finish
<1>4. ~ Finished(j).cancelled
  BY DEF Finished, NoJob
<1>5. \/ job' = [job EXCEPT ![j] = Finished(j)]
      \/ \E state \in {"store", "begin", "stat", "notify"} :
           job' = [job EXCEPT ![j] = [job[j] EXCEPT !.at = state]]
      \/ \E f \in Files : job' = [job EXCEPT ![j] = [job[j] EXCEPT !.todo = @ \ {f}]]
  BY DEF JobStep, JobCheck, JobStore, JobBegin, LoadStat, FailStat, JobEnd, Notify,
     Continue, Finish
<1>6. job[j] \in JobStates
  BY <1>1
<1>7. job'[j].cancelled => job[j].cancelled
  BY <1>1, <1>4, <1>5, <1>6 DEF JobStates
<1>8. Uncancelled'
  BY <1>1, <1>2, <1>3, <1>7 DEF Uncancelled
<1>9. ASSUME NEW r \in Readers, pc[r] = "open", cursor[r] = j, job[j].at # "done"
      PROVE  job'[j].at # "done" \/ r \in notified'
  <2>1. ~ job[j].cancelled
    BY <1>1, <1>9
  <2>2. CASE Notify(j)
    BY <1>9, <2>2 DEF Notify
  <2>3. CASE ~ Notify(j)
    <3>1. \/ \E state \in {"store", "begin", "stat", "notify"} :
               job' = [job EXCEPT ![j] = [job[j] EXCEPT !.at = state]]
          \/ \E f \in Files : job' = [job EXCEPT ![j] = [job[j] EXCEPT !.todo = @ \ {f}]]
      BY <2>1, <2>3 DEF JobStep, JobCheck, JobStore, JobBegin, LoadStat, FailStat, JobEnd, Continue
    <3>2. QED
      BY <1>1, <1>6, <1>9, <3>1 DEF JobStates
  <2>4. QED
    BY <2>2, <2>3
<1>10. Told
  BY <1>1, <1>2, <1>3, <1>9 DEF Told, UnderWay, Loading
<1>11. QED
  BY <1>8, <1>10

LEMMA ToldNext == IInv /\ Uncancelled /\ [Next]_vars => Uncancelled' /\ Told
<1> SUFFICES ASSUME IInv, Uncancelled, [Next]_vars PROVE Uncancelled' /\ Told
  OBVIOUS
<1>1. ASSUME NEW r \in Readers, Query(r) PROVE Uncancelled' /\ Told
  BY <1>1, GoingOn DEF Query, GoesOn
<1>2. ASSUME NEW r \in Readers, Close(r) \/ Refresh(r) PROVE Uncancelled' /\ Told
  BY <1>2, CloseTold DEF Close, Refresh
<1>3. ASSUME NEW r \in Readers, QueryStep(r) PROVE Uncancelled' /\ Told
  BY <1>3, QueryStepTold
<1>4. ASSUME NEW j \in Jobs, JobStep(j) PROVE Uncancelled' /\ Told
  BY <1>4, JobStepTold
<1>5. CASE Remove
  <2>1. job \in [Jobs -> JobStates] /\ \A s \in Readers : cursor[s] # None => cursor[s] \in Jobs
    BY DEF IInv, Fields
  <2>2. cursor' = cursor /\ job' = KeptJobs(job, Items(Readers))
    BY <1>5 DEF Remove, readerVars
  <2>3. QED
    BY <2>1, <2>2, KeptGoesOn, GoingOn DEF GoesOn
<1>6. CASE Expire \/ UNCHANGED vars
  <2>1. cursor' = cursor /\ job' = job
    BY <1>6 DEF Expire, vars, readerVars
  <2>2. QED
    BY <2>1, GoingOn DEF GoesOn
<1>7. QED
  BY <1>1, <1>2, <1>3, <1>4, <1>5, <1>6 DEF Next

(***************************************************************************)
(* The client of an open cursor that is loading hears of the end of its    *)
(* coroutine, however many clients close the cursors of others' tasks and  *)
(* whether its own was done, failed or was ignored.  What LoadingIsNotified*)
(* adds is that the coroutine ends.                                        *)
(***************************************************************************)
THEOREM EndIsToldHolds == Safe => EndIsTold
<1>1. Init => IInv /\ Uncancelled
  BY InitIInv DEF Init, Uncancelled
<1>2. IInv /\ Uncancelled /\ [Next]_vars => IInv' /\ Uncancelled' /\ Told
  BY IInvNext, ToldNext
<1>3. Told => [\A r \in Readers :
        pc[r] = "open" /\ UnderWay(r) =>
          pc'[r] # "open" \/ UnderWay(r)' \/ r \in notified']_vars
  BY DEF Told
<1>4. QED
  BY <1>1, <1>2, <1>3, PTL DEF Safe, EndIsTold
===============================================================================
