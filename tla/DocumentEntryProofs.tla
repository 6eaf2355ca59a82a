------------------------- MODULE DocumentEntryProofs -------------------------
(***************************************************************************)
(* What holds of an entry for any number of threads, coroutines, objects   *)
(* and changes of the file, and for any size of the pool of results.       *)
(***************************************************************************)
EXTENDS DocumentEntry, FiniteSetTheorems, TLAPS

(* Collecting what is not referred to keeps stats or clears them. *)
LEMMA CollectType ==
  ASSUME NEW new \in [Objects -> 0..MaxVersion], Collect(new)
  PROVE  stat' \in [Objects -> 0..MaxVersion]
BY DocumentEntryAssumption DEF Collect

(* The initial state is of the types. *)
LEMMA TypeInit == Init => TypeOK
<1> SUFFICES ASSUME Init PROVE TypeOK
  OBVIOUS
<1>1. 0 \in 0..MaxVersion /\ 1 \in 0..MaxVersion /\ 0 \in 0..PoolSize
  BY DocumentEntryAssumption
<1>2. stat \in [Objects -> 0..MaxVersion] /\ loaded \in [Jobs -> 0..MaxVersion]
  BY <1>1 DEF Init
<1>3. QED
  BY <1>1, <1>2 DEF Init, TypeOK, States

(* Every step keeps the types. *)
LEMMA TypeNext == TypeOK /\ [Next]_vars => TypeOK'
<1> SUFFICES ASSUME TypeOK, [Next]_vars PROVE TypeOK'
  OBVIOUS
<1> USE DocumentEntryAssumption DEF TypeOK, States
<1>1. ASSUME NEW c \in Callers, Query(c) PROVE TypeOK'
  BY <1>1
    DEF Query, Go, Acquire, serverVars, cacheVars, poolVars, jobVars, history
<1>2. ASSUME NEW c \in Callers, Answer(c) PROVE TypeOK'
  BY <1>2 DEF Answer, Go, serverVars, cacheVars, poolVars, jobVars, history
<1>3. ASSUME NEW c \in Callers, Fetch(c) PROVE TypeOK'
  BY <1>3 DEF Fetch, Go, serverVars, cacheVars, poolVars, jobVars, history
<1>4. ASSUME NEW c \in Callers, List(c) PROVE TypeOK'
  BY <1>4
    DEF List, Go, Acquire, serverVars, cacheVars, poolVars, jobVars, history
<1>5. ASSUME NEW c \in Callers, ReadDir(c) PROVE TypeOK'
  BY <1>5 DEF ReadDir, Go, serverVars, cacheVars, poolVars, jobVars, history
<1>6. ASSUME NEW c \in Callers, SetChildren(c) PROVE TypeOK'
  BY <1>6, CollectType
    DEF SetChildren, Go, serverVars, cacheVars, poolVars, jobVars, history
<1>7. ASSUME NEW c \in Callers, Rows(c) PROVE TypeOK'
  BY <1>7 DEF Rows, Go, serverVars, cacheVars, poolVars, jobVars, history
<1>8. ASSUME NEW c \in Callers, Delete(c) PROVE TypeOK'
  BY <1>8 DEF Delete, Go, serverVars, cacheVars, poolVars, jobVars, history
<1>9. ASSUME NEW c \in Callers, Unlink(c) PROVE TypeOK'
  BY <1>9 DEF Unlink, Go, serverVars, cacheVars, poolVars, jobVars, history
<1>10. ASSUME NEW c \in Callers, FailUnlink(c) PROVE TypeOK'
  BY <1>10
    DEF FailUnlink, Go, serverVars, cacheVars, poolVars, jobVars, history
<1>11. ASSUME NEW c \in Callers, Write(c) PROVE TypeOK'
  BY <1>11
    DEF Write, Go, Change, serverVars, cacheVars, poolVars, jobVars, history
<1>12. ASSUME NEW c \in Callers, Written(c) PROVE TypeOK'
  BY <1>12
    DEF Written, Go, Acquire, serverVars, cacheVars, poolVars, jobVars,
      history
<1>13. ASSUME NEW c \in Callers, Reset(c) PROVE TypeOK'
  BY <1>13, CollectType
    DEF Reset, Go, Release, serverVars, cacheVars, poolVars, jobVars, history
<1>14. ASSUME NEW c \in Callers, Create(c) PROVE TypeOK'
  BY <1>14
    DEF Create, Go, Change, serverVars, cacheVars, poolVars, jobVars, history
<1>15. ASSUME NEW c \in Callers, Created(c) PROVE TypeOK'
  BY <1>15
    DEF Created, Acquire, serverVars, cacheVars, poolVars, jobVars, history
<1>16. ASSUME NEW c \in Callers, Truncate(c) PROVE TypeOK'
  BY <1>16, CollectType
    DEF Truncate, Go, Release, serverVars, cacheVars, poolVars, jobVars,
      history
<1>17. ASSUME NEW c \in Callers, PutEntry(c) PROVE TypeOK'
  BY <1>17, CollectType
    DEF PutEntry, Go, serverVars, cacheVars, poolVars, jobVars, history
<1>18. ASSUME NEW c \in Callers, PutChild(c) PROVE TypeOK'
  BY <1>18, CollectType
    DEF PutChild, Go, serverVars, cacheVars, poolVars, jobVars, history
<1>19. ASSUME NEW c \in Callers, RemoveEntry(c) PROVE TypeOK'
  BY <1>19, CollectType
    DEF RemoveEntry, Go, serverVars, cacheVars, poolVars, jobVars, history
<1>20. ASSUME NEW c \in Callers, RemoveChild(c) PROVE TypeOK'
  BY <1>20, CollectType
    DEF RemoveChild, Go, serverVars, cacheVars, poolVars, jobVars, history
<1>21. ASSUME NEW c \in Callers, Notify(c) PROVE TypeOK'
  BY <1>21 DEF Notify, Go, serverVars, cacheVars, poolVars, jobVars, history
<1>22. ASSUME NEW c \in Callers, Leave(c) PROVE TypeOK'
  BY <1>22
    DEF Leave, Go, Release, serverVars, cacheVars, poolVars, jobVars, history
<1>23. ASSUME NEW j \in Jobs, LoadStat(j) PROVE TypeOK'
  BY <1>23, CollectType
    DEF LoadStat, serverVars, cacheVars, poolVars, jobVars, history
<1>24. ASSUME NEW j \in Jobs, StoreStat(j) PROVE TypeOK'
  <2>1. job[j] \in Objects \/ job[j] = None
    OBVIOUS
  <2>2. [stat EXCEPT ![job[j]] = loaded[j]] \in [Objects -> 0..MaxVersion]
    BY <2>1
  <2>3. stat' \in [Objects -> 0..MaxVersion]
    BY <1>24, <2>2, CollectType DEF StoreStat
  <2>4. QED
    BY <1>24, <2>3
      DEF StoreStat, serverVars, cacheVars, poolVars, jobVars, history
<1>25. CASE UNCHANGED vars
  BY <1>25 DEF serverVars, cacheVars, poolVars, jobVars, history, vars
<1>26. QED
  BY <1>1, <1>2, <1>3, <1>4, <1>5, <1>6, <1>7, <1>8, <1>9, <1>10, <1>11,
      <1>12, <1>13, <1>14, <1>15, <1>16, <1>17, <1>18, <1>19, <1>20, <1>21,
      <1>22, <1>23, <1>24, <1>25
    DEF Next

-----------------------------------------------------------------------------
(* The pool and the results in use are at most one per thread. *)

In == {"hit", "fetch", "expired", "list", "rows", "leave", "reset", "truncate"}
Out == {"idle", "unlink", "removeEntry", "removeChild", "notify", "written", "created"}

(* Where a thread is says whether it has a result, but for a put. *)
InUse ==
  \A c \in Callers : /\ pc[c] \in In => c \in using
                     /\ pc[c] \in Out => c \notin using

Counted ==
  /\ pool + Cardinality(using) <= Cardinality(Callers)
  /\ PoolSuffices

(* A result taken from the pool is in use. *)
LEMMA AcquireCounted ==
  ASSUME TypeOK, Counted, NEW c \in Callers, c \notin using, Acquire(c)
  PROVE  Counted'
<1>1. using \subseteq Callers /\ using \cup {c} \subseteq Callers
  BY DEF TypeOK
<1>2. IsFiniteSet(using) /\ IsFiniteSet(Callers)
  BY <1>1, DocumentEntryAssumption, FS_Subset
<1>3. Cardinality(using \cup {c}) = Cardinality(using) + 1
  BY <1>2, FS_AddElement
<1>4. Cardinality(using \cup {c}) <= Cardinality(Callers)
  BY <1>1, <1>2, FS_Subset
<1>5. Cardinality(using) \in Nat /\ Cardinality(Callers) \in Nat
  BY <1>2, FS_CardinalityType
<1>6. pool \in Nat
  BY DocumentEntryAssumption DEF TypeOK
<1>7. QED
  BY <1>3, <1>4, <1>5, <1>6 DEF Acquire, Counted, PoolSuffices

(* A result that the pool refuses is one more than it has room for. *)
LEMMA ReleaseCounted ==
  ASSUME TypeOK, Counted, NEW c \in Callers, c \in using, Release(c)
  PROVE  Counted'
<1>1. IsFiniteSet(using) /\ IsFiniteSet(Callers)
  BY DocumentEntryAssumption, FS_Subset DEF TypeOK
<1>2. Cardinality(using \ {c}) = Cardinality(using) - 1
  BY <1>1, FS_RemoveElement
<1>3. Cardinality(using) \in Nat /\ Cardinality(using \ {c}) \in Nat /\ Cardinality(Callers) \in Nat
  BY <1>1, FS_CardinalityType, FS_RemoveElement
<1>4. pool \in Nat /\ PoolSize \in Nat
  BY DocumentEntryAssumption DEF TypeOK
<1>5. (pool + Cardinality(using) <= Cardinality(Callers))'
  <2>1. using' = using \ {c} /\ pool' \in {pool, pool + 1}
    BY DEF Release
  <2>2. QED
    BY <1>2, <1>3, <1>4, <2>1 DEF Counted
<1>6. pool = PoolSize => Cardinality(Callers) > PoolSize
  BY <1>2, <1>3, <1>4 DEF Counted
<1>7. refused' => refused \/ pool = PoolSize
  BY DEF Release
<1>8. QED
  BY <1>5, <1>6, <1>7 DEF Counted, PoolSuffices

(* Every step keeps both. *)
LEMMA PoolNext == TypeOK /\ InUse /\ Counted /\ [Next]_vars => InUse' /\ Counted'
<1> SUFFICES ASSUME TypeOK, InUse, Counted, [Next]_vars PROVE InUse' /\ Counted'
  OBVIOUS
<1>1. ASSUME NEW c \in Callers, Query(c) PROVE InUse' /\ Counted'
  <2>1. c \notin using
    BY <1>1 DEF Query, Go, InUse, In, Out
  <2>2. Counted'
    BY <1>1, <2>1, AcquireCounted DEF Query
  <2>3. InUse'
    BY <1>1, <2>1 DEF Query, Acquire, Go, TypeOK, InUse, In, Out
  <2>4. QED
    BY <2>2, <2>3
<1>2. ASSUME NEW c \in Callers, Answer(c) PROVE InUse' /\ Counted'
  BY <1>2
    DEF Answer, Go, TypeOK, InUse, Counted, PoolSuffices, In, Out, poolVars
<1>3. ASSUME NEW c \in Callers, Fetch(c) PROVE InUse' /\ Counted'
  BY <1>3
    DEF Fetch, Go, TypeOK, InUse, Counted, PoolSuffices, In, Out, poolVars
<1>4. ASSUME NEW c \in Callers, List(c) PROVE InUse' /\ Counted'
  <2>1. c \notin using
    BY <1>4 DEF List, Go, InUse, In, Out
  <2>2. Counted'
    BY <1>4, <2>1, AcquireCounted DEF List
  <2>3. InUse'
    BY <1>4, <2>1 DEF List, Acquire, Go, TypeOK, InUse, In, Out
  <2>4. QED
    BY <2>2, <2>3
<1>5. ASSUME NEW c \in Callers, ReadDir(c) PROVE InUse' /\ Counted'
  BY <1>5
    DEF ReadDir, Go, TypeOK, InUse, Counted, PoolSuffices, In, Out, poolVars
<1>6. ASSUME NEW c \in Callers, SetChildren(c) PROVE InUse' /\ Counted'
  BY <1>6
    DEF SetChildren, Go, TypeOK, InUse, Counted, PoolSuffices, In, Out,
      poolVars
<1>7. ASSUME NEW c \in Callers, Rows(c) PROVE InUse' /\ Counted'
  BY <1>7
    DEF Rows, Go, TypeOK, InUse, Counted, PoolSuffices, In, Out, poolVars
<1>8. ASSUME NEW c \in Callers, Delete(c) PROVE InUse' /\ Counted'
  BY <1>8
    DEF Delete, Go, TypeOK, InUse, Counted, PoolSuffices, In, Out, poolVars
<1>9. ASSUME NEW c \in Callers, Unlink(c) PROVE InUse' /\ Counted'
  BY <1>9
    DEF Unlink, Go, TypeOK, InUse, Counted, PoolSuffices, In, Out, poolVars
<1>10. ASSUME NEW c \in Callers, FailUnlink(c) PROVE InUse' /\ Counted'
  BY <1>10
    DEF FailUnlink, Go, TypeOK, InUse, Counted, PoolSuffices, In, Out,
      poolVars
<1>11. ASSUME NEW c \in Callers, Write(c) PROVE InUse' /\ Counted'
  BY <1>11
    DEF Write, Go, Change, TypeOK, InUse, Counted, PoolSuffices, In, Out,
      poolVars
<1>12. ASSUME NEW c \in Callers, Written(c) PROVE InUse' /\ Counted'
  <2>1. c \notin using
    BY <1>12 DEF Written, Go, InUse, In, Out
  <2>2. Counted'
    BY <1>12, <2>1, AcquireCounted DEF Written
  <2>3. InUse'
    BY <1>12, <2>1 DEF Written, Acquire, Go, TypeOK, InUse, In, Out
  <2>4. QED
    BY <2>2, <2>3
<1>13. ASSUME NEW c \in Callers, Reset(c) PROVE InUse' /\ Counted'
  <2>1. c \in using
    BY <1>13 DEF Reset, Go, InUse, In, Out
  <2>2. Counted'
    BY <1>13, <2>1, ReleaseCounted DEF Reset
  <2>3. InUse'
    BY <1>13, <2>1 DEF Reset, Release, Go, TypeOK, InUse, In, Out
  <2>4. QED
    BY <2>2, <2>3
<1>14. ASSUME NEW c \in Callers, Create(c) PROVE InUse' /\ Counted'
  BY <1>14
    DEF Create, Go, Change, TypeOK, InUse, Counted, PoolSuffices, In, Out,
      poolVars
<1>15. ASSUME NEW c \in Callers, Created(c) PROVE InUse' /\ Counted'
  <2>1. c \notin using
    BY <1>15 DEF Created, InUse, Out
  <2>2. Counted'
    BY <1>15, <2>1, AcquireCounted
      DEF Created, Counted, PoolSuffices, poolVars
  <2>3. InUse'
    BY <1>15, <2>1 DEF Created, Acquire, TypeOK, InUse, In, Out, poolVars
  <2>4. QED
    BY <2>2, <2>3
<1>16. ASSUME NEW c \in Callers, Truncate(c) PROVE InUse' /\ Counted'
  <2>1. c \in using
    BY <1>16 DEF Truncate, Go, InUse, In, Out
  <2>2. Counted'
    BY <1>16, <2>1, ReleaseCounted DEF Truncate
  <2>3. InUse'
    BY <1>16, <2>1 DEF Truncate, Release, Go, TypeOK, InUse, In, Out
  <2>4. QED
    BY <2>2, <2>3
<1>17. ASSUME NEW c \in Callers, PutEntry(c) PROVE InUse' /\ Counted'
  BY <1>17
    DEF PutEntry, Go, TypeOK, InUse, Counted, PoolSuffices, In, Out, poolVars
<1>18. ASSUME NEW c \in Callers, PutChild(c) PROVE InUse' /\ Counted'
  BY <1>18
    DEF PutChild, Go, TypeOK, InUse, Counted, PoolSuffices, In, Out, poolVars
<1>19. ASSUME NEW c \in Callers, RemoveEntry(c) PROVE InUse' /\ Counted'
  BY <1>19
    DEF RemoveEntry, Go, TypeOK, InUse, Counted, PoolSuffices, In, Out,
      poolVars
<1>20. ASSUME NEW c \in Callers, RemoveChild(c) PROVE InUse' /\ Counted'
  BY <1>20
    DEF RemoveChild, Go, TypeOK, InUse, Counted, PoolSuffices, In, Out,
      poolVars
<1>21. ASSUME NEW c \in Callers, Notify(c) PROVE InUse' /\ Counted'
  BY <1>21
    DEF Notify, Go, TypeOK, InUse, Counted, PoolSuffices, In, Out, poolVars
<1>22. ASSUME NEW c \in Callers, Leave(c) PROVE InUse' /\ Counted'
  <2>1. c \in using
    BY <1>22 DEF Leave, Go, InUse, In, Out
  <2>2. Counted'
    BY <1>22, <2>1, ReleaseCounted DEF Leave
  <2>3. InUse'
    BY <1>22, <2>1 DEF Leave, Release, Go, TypeOK, InUse, In, Out
  <2>4. QED
    BY <2>2, <2>3
<1>23. ASSUME NEW j \in Jobs, LoadStat(j) PROVE InUse' /\ Counted'
  BY <1>23
    DEF LoadStat, TypeOK, InUse, Counted, PoolSuffices, In, Out, poolVars
<1>24. ASSUME NEW j \in Jobs, StoreStat(j) PROVE InUse' /\ Counted'
  BY <1>24
    DEF StoreStat, TypeOK, InUse, Counted, PoolSuffices, In, Out, poolVars
<1>25. CASE UNCHANGED vars
  BY <1>25 DEF TypeOK, InUse, Counted, PoolSuffices, In, Out, poolVars, vars
<1>26. QED
  BY <1>1, <1>2, <1>3, <1>4, <1>5, <1>6, <1>7, <1>8, <1>9, <1>10, <1>11,
      <1>12, <1>13, <1>14, <1>15, <1>16, <1>17, <1>18, <1>19, <1>20, <1>21,
      <1>22, <1>23, <1>24, <1>25
    DEF Next

-----------------------------------------------------------------------------
(* Only who puts or resets an object has one. *)

Carried ==
  \A c \in Callers :
    pc[c] \in {"put", "putChild", "list", "reset", "truncate"} \/ obj[c] = None

(* Every step keeps this. *)
LEMMA CarriedNext == TypeOK /\ Carried /\ [Next]_vars => Carried'
<1> SUFFICES ASSUME TypeOK, Carried, [Next]_vars PROVE Carried'
  OBVIOUS
<1>1. ASSUME NEW c \in Callers, Query(c) PROVE Carried'
  BY <1>1 DEF Query, Go, Acquire, TypeOK, Carried
<1>2. ASSUME NEW c \in Callers, Answer(c) PROVE Carried'
  BY <1>2 DEF Answer, Go, TypeOK, Carried
<1>3. ASSUME NEW c \in Callers, Fetch(c) PROVE Carried'
  BY <1>3 DEF Fetch, Go, TypeOK, Carried
<1>4. ASSUME NEW c \in Callers, List(c) PROVE Carried'
  BY <1>4 DEF List, Go, Acquire, TypeOK, Carried
<1>5. ASSUME NEW c \in Callers, ReadDir(c) PROVE Carried'
  BY <1>5 DEF ReadDir, Go, TypeOK, Carried
<1>6. ASSUME NEW c \in Callers, SetChildren(c) PROVE Carried'
  BY <1>6 DEF SetChildren, Go, TypeOK, Carried
<1>7. ASSUME NEW c \in Callers, Rows(c) PROVE Carried'
  BY <1>7 DEF Rows, Go, TypeOK, Carried
<1>8. ASSUME NEW c \in Callers, Delete(c) PROVE Carried'
  BY <1>8 DEF Delete, Go, TypeOK, Carried
<1>9. ASSUME NEW c \in Callers, Unlink(c) PROVE Carried'
  BY <1>9 DEF Unlink, Go, TypeOK, Carried
<1>10. ASSUME NEW c \in Callers, FailUnlink(c) PROVE Carried'
  BY <1>10 DEF FailUnlink, Go, TypeOK, Carried
<1>11. ASSUME NEW c \in Callers, Write(c) PROVE Carried'
  BY <1>11 DEF Write, Go, Change, TypeOK, Carried
<1>12. ASSUME NEW c \in Callers, Written(c) PROVE Carried'
  BY <1>12 DEF Written, Go, Acquire, TypeOK, Carried
<1>13. ASSUME NEW c \in Callers, Reset(c) PROVE Carried'
  BY <1>13 DEF Reset, Go, Release, TypeOK, Carried
<1>14. ASSUME NEW c \in Callers, Create(c) PROVE Carried'
  BY <1>14 DEF Create, Go, Change, TypeOK, Carried
<1>15. ASSUME NEW c \in Callers, Created(c) PROVE Carried'
  BY <1>15 DEF Created, Acquire, TypeOK, Carried
<1>16. ASSUME NEW c \in Callers, Truncate(c) PROVE Carried'
  BY <1>16 DEF Truncate, Go, Release, TypeOK, Carried
<1>17. ASSUME NEW c \in Callers, PutEntry(c) PROVE Carried'
  BY <1>17 DEF PutEntry, Go, TypeOK, Carried
<1>18. ASSUME NEW c \in Callers, PutChild(c) PROVE Carried'
  BY <1>18 DEF PutChild, Go, TypeOK, Carried
<1>19. ASSUME NEW c \in Callers, RemoveEntry(c) PROVE Carried'
  BY <1>19 DEF RemoveEntry, Go, TypeOK, Carried
<1>20. ASSUME NEW c \in Callers, RemoveChild(c) PROVE Carried'
  BY <1>20 DEF RemoveChild, Go, TypeOK, Carried
<1>21. ASSUME NEW c \in Callers, Notify(c) PROVE Carried'
  BY <1>21 DEF Notify, Go, TypeOK, Carried
<1>22. ASSUME NEW c \in Callers, Leave(c) PROVE Carried'
  BY <1>22 DEF Leave, Go, Release, TypeOK, Carried
<1>23. ASSUME NEW j \in Jobs, LoadStat(j) PROVE Carried'
  BY <1>23 DEF LoadStat, TypeOK, Carried
<1>24. ASSUME NEW j \in Jobs, StoreStat(j) PROVE Carried'
  BY <1>24 DEF StoreStat, TypeOK, Carried
<1>25. CASE UNCHANGED vars
  BY <1>25 DEF TypeOK, Carried, vars
<1>26. QED
  BY <1>1, <1>2, <1>3, <1>4, <1>5, <1>6, <1>7, <1>8, <1>9, <1>10, <1>11,
      <1>12, <1>13, <1>14, <1>15, <1>16, <1>17, <1>18, <1>19, <1>20, <1>21,
      <1>22, <1>23, <1>24, <1>25
    DEF Next

-----------------------------------------------------------------------------
(* A deleted file: nobody still puts it, and who has deleted it removes it. *)

Unfound == ~ exists /\ ~ overtaken => \A c \in Callers : ~ Finds(c)

Forgotten ==
  ~ exists /\ ~ overtaken =>
    /\ entry = None \/ \E c \in Callers : pc[c] = "removeEntry"
    /\ child = None \/ \E c \in Callers : pc[c] \in {"removeEntry", "removeChild"}

(* Every step keeps both. *)
LEMMA ForgottenNext ==
  TypeOK /\ Carried /\ Unfound /\ Forgotten /\ [Next]_vars => Unfound' /\ Forgotten'
<1> SUFFICES ASSUME TypeOK, Carried, Unfound, Forgotten, [Next]_vars
             PROVE  Unfound' /\ Forgotten'
  OBVIOUS
<1>1. ASSUME NEW c \in Callers, Query(c) PROVE Unfound' /\ Forgotten'
  BY <1>1
    DEF Query, Go, Acquire, TypeOK, Carried, Unfound, Forgotten, Finds,
      serverVars, cacheVars, history
<1>2. ASSUME NEW c \in Callers, Answer(c) PROVE Unfound' /\ Forgotten'
  BY <1>2
    DEF Answer, Go, TypeOK, Carried, Unfound, Forgotten, Finds, serverVars,
      cacheVars, history
<1>3. ASSUME NEW c \in Callers, Fetch(c) PROVE Unfound' /\ Forgotten'
  BY <1>3
    DEF Fetch, Go, TypeOK, Carried, Unfound, Forgotten, Finds, serverVars,
      cacheVars, history
<1>4. ASSUME NEW c \in Callers, List(c) PROVE Unfound' /\ Forgotten'
  BY <1>4
    DEF List, Go, Acquire, TypeOK, Carried, Unfound, Forgotten, Finds,
      serverVars, cacheVars, history
<1>5. ASSUME NEW c \in Callers, ReadDir(c) PROVE Unfound' /\ Forgotten'
  BY <1>5
    DEF ReadDir, Go, TypeOK, Carried, Unfound, Forgotten, Finds, serverVars,
      cacheVars, history
<1>6. ASSUME NEW c \in Callers, SetChildren(c) PROVE Unfound' /\ Forgotten'
  BY <1>6
    DEF SetChildren, Go, TypeOK, Carried, Unfound, Forgotten, Finds,
      serverVars, cacheVars, history
<1>7. ASSUME NEW c \in Callers, Rows(c) PROVE Unfound' /\ Forgotten'
  BY <1>7
    DEF Rows, Go, TypeOK, Carried, Unfound, Forgotten, Finds, serverVars,
      cacheVars, history
<1>8. ASSUME NEW c \in Callers, Delete(c) PROVE Unfound' /\ Forgotten'
  BY <1>8
    DEF Delete, Go, TypeOK, Carried, Unfound, Forgotten, Finds, serverVars,
      cacheVars, history
<1>9. ASSUME NEW c \in Callers, Unlink(c) PROVE Unfound' /\ Forgotten'
  BY <1>9
    DEF Unlink, Go, TypeOK, Carried, Unfound, Forgotten, Finds, serverVars,
      cacheVars, history
<1>10. ASSUME NEW c \in Callers, FailUnlink(c) PROVE Unfound' /\ Forgotten'
  BY <1>10
    DEF FailUnlink, Go, TypeOK, Carried, Unfound, Forgotten, Finds,
      serverVars, cacheVars, history
<1>11. ASSUME NEW c \in Callers, Write(c) PROVE Unfound' /\ Forgotten'
  BY <1>11
    DEF Write, Go, Change, TypeOK, Carried, Unfound, Forgotten, Finds,
      serverVars, cacheVars, history
<1>12. ASSUME NEW c \in Callers, Written(c) PROVE Unfound' /\ Forgotten'
  BY <1>12
    DEF Written, Go, Acquire, TypeOK, Carried, Unfound, Forgotten, Finds,
      serverVars, cacheVars, history
<1>13. ASSUME NEW c \in Callers, Reset(c) PROVE Unfound' /\ Forgotten'
  BY <1>13
    DEF Reset, Go, Release, TypeOK, Carried, Unfound, Forgotten, Finds,
      serverVars, cacheVars, history
<1>14. ASSUME NEW c \in Callers, Create(c) PROVE Unfound' /\ Forgotten'
  BY <1>14
    DEF Create, Go, Change, TypeOK, Carried, Unfound, Forgotten, Finds,
      serverVars, cacheVars, history
<1>15. ASSUME NEW c \in Callers, Created(c) PROVE Unfound' /\ Forgotten'
  BY <1>15
    DEF Created, Acquire, TypeOK, Carried, Unfound, Forgotten, Finds,
      serverVars, cacheVars, history
<1>16. ASSUME NEW c \in Callers, Truncate(c) PROVE Unfound' /\ Forgotten'
  BY <1>16
    DEF Truncate, Go, Release, TypeOK, Carried, Unfound, Forgotten, Finds,
      serverVars, cacheVars, history
<1>17. ASSUME NEW c \in Callers, PutEntry(c) PROVE Unfound' /\ Forgotten'
  BY <1>17
    DEF PutEntry, Go, TypeOK, Carried, Unfound, Forgotten, Finds, serverVars,
      cacheVars, history
<1>18. ASSUME NEW c \in Callers, PutChild(c) PROVE Unfound' /\ Forgotten'
  BY <1>18
    DEF PutChild, Go, TypeOK, Carried, Unfound, Forgotten, Finds, serverVars,
      cacheVars, history
<1>19. ASSUME NEW c \in Callers, RemoveEntry(c) PROVE Unfound' /\ Forgotten'
  BY <1>19
    DEF RemoveEntry, Go, TypeOK, Carried, Unfound, Forgotten, Finds,
      serverVars, cacheVars, history
<1>20. ASSUME NEW c \in Callers, RemoveChild(c) PROVE Unfound' /\ Forgotten'
  BY <1>20
    DEF RemoveChild, Go, TypeOK, Carried, Unfound, Forgotten, Finds,
      serverVars, cacheVars, history
<1>21. ASSUME NEW c \in Callers, Notify(c) PROVE Unfound' /\ Forgotten'
  BY <1>21
    DEF Notify, Go, TypeOK, Carried, Unfound, Forgotten, Finds, serverVars,
      cacheVars, history
<1>22. ASSUME NEW c \in Callers, Leave(c) PROVE Unfound' /\ Forgotten'
  BY <1>22
    DEF Leave, Go, Release, TypeOK, Carried, Unfound, Forgotten, Finds,
      serverVars, cacheVars, history
<1>23. ASSUME NEW j \in Jobs, LoadStat(j) PROVE Unfound' /\ Forgotten'
  BY <1>23
    DEF LoadStat, TypeOK, Carried, Unfound, Forgotten, Finds, serverVars,
      cacheVars, history
<1>24. ASSUME NEW j \in Jobs, StoreStat(j) PROVE Unfound' /\ Forgotten'
  BY <1>24
    DEF StoreStat, TypeOK, Carried, Unfound, Forgotten, Finds, serverVars,
      cacheVars, history
<1>25. CASE UNCHANGED vars
  BY <1>25
    DEF TypeOK, Carried, Unfound, Forgotten, Finds, serverVars, cacheVars,
      history, vars
<1>26. QED
  BY <1>1, <1>2, <1>3, <1>4, <1>5, <1>6, <1>7, <1>8, <1>9, <1>10, <1>11,
      <1>12, <1>13, <1>14, <1>15, <1>16, <1>17, <1>18, <1>19, <1>20, <1>21,
      <1>22, <1>23, <1>24, <1>25
    DEF Next

-----------------------------------------------------------------------------
(* What is stored is current unless it was overtaken on its way. *)

Unreferred == \A o \in Objects : Free(o) => stat[o] = 0

FoundIsCurrent ==
  ~ outdated => \A c \in Callers :
    Finds(c) /\ obj[c] # None => stat[obj[c]] \in {0, version}

LoadedIsCurrent == ~ outdated => \A j \in Jobs : loaded[j] \in {0, version}

(* c knows that the file has changed and will reset the entry. *)
Covers(c) ==
  \/ pc[c] \in {"written", "created"}
  \/ pc[c] \in {"reset", "truncate"} /\ obj[c] = entry

EntryIsCovered ==
  ~ outdated /\ entry # None =>
    stat[entry] \in {0, version} \/ \E c \in Callers : Covers(c)

(* Every stat is kept or cleared, and cleared where nothing refers to it. *)
LEMMA CollectKeeps ==
  ASSUME NEW new \in [Objects -> 0..MaxVersion], Collect(new)
  PROVE  /\ Unreferred'
         /\ \A o \in Objects : stat'[o] \in {0, new[o]}
BY DocumentEntryAssumption DEF Collect, Unreferred, Free, Live

(* Every step forgets the stats of what nothing refers to. *)
LEMMA UnreferredNext == TypeOK /\ Carried /\ Unreferred /\ [Next]_vars => Unreferred'
<1> SUFFICES ASSUME TypeOK, Carried, Unreferred, [Next]_vars PROVE Unreferred'
  OBVIOUS
<1> USE DocumentEntryAssumption
<1>1. ASSUME NEW c \in Callers, Query(c) PROVE Unreferred'
  BY <1>1
    DEF Query, Go, Acquire, TypeOK, Carried, Unreferred, Free, Live,
      cacheVars, jobVars
<1>2. ASSUME NEW c \in Callers, Answer(c) PROVE Unreferred'
  BY <1>2
    DEF Answer, Go, TypeOK, Carried, Unreferred, Free, Live, cacheVars,
      jobVars
<1>3. ASSUME NEW c \in Callers, Fetch(c) PROVE Unreferred'
  BY <1>3
    DEF Fetch, Go, TypeOK, Carried, Unreferred, Free, Live, cacheVars, jobVars
<1>4. ASSUME NEW c \in Callers, List(c) PROVE Unreferred'
  BY <1>4
    DEF List, Go, Acquire, TypeOK, Carried, Unreferred, Free, Live,
      cacheVars, jobVars
<1>5. ASSUME NEW c \in Callers, ReadDir(c) PROVE Unreferred'
  BY <1>5
    DEF ReadDir, Go, TypeOK, Carried, Unreferred, Free, Live, cacheVars,
      jobVars
<1>6. ASSUME NEW c \in Callers, SetChildren(c) PROVE Unreferred'
  <2>1. stat \in [Objects -> 0..MaxVersion]
    BY DEF TypeOK
  <2>2. QED
    BY <1>6, <2>1, CollectKeeps DEF SetChildren
<1>7. ASSUME NEW c \in Callers, Rows(c) PROVE Unreferred'
  BY <1>7
    DEF Rows, Go, TypeOK, Carried, Unreferred, Free, Live, cacheVars, jobVars
<1>8. ASSUME NEW c \in Callers, Delete(c) PROVE Unreferred'
  BY <1>8
    DEF Delete, Go, TypeOK, Carried, Unreferred, Free, Live, cacheVars,
      jobVars
<1>9. ASSUME NEW c \in Callers, Unlink(c) PROVE Unreferred'
  BY <1>9
    DEF Unlink, Go, TypeOK, Carried, Unreferred, Free, Live, cacheVars,
      jobVars
<1>10. ASSUME NEW c \in Callers, FailUnlink(c) PROVE Unreferred'
  BY <1>10
    DEF FailUnlink, Go, TypeOK, Carried, Unreferred, Free, Live, cacheVars,
      jobVars
<1>11. ASSUME NEW c \in Callers, Write(c) PROVE Unreferred'
  BY <1>11
    DEF Write, Go, Change, TypeOK, Carried, Unreferred, Free, Live,
      cacheVars, jobVars
<1>12. ASSUME NEW c \in Callers, Written(c) PROVE Unreferred'
  BY <1>12
    DEF Written, Go, Acquire, TypeOK, Carried, Unreferred, Free, Live,
      cacheVars, jobVars
<1>13. ASSUME NEW c \in Callers, Reset(c) PROVE Unreferred'
  <2>1. [o \in Objects |-> IF o = obj[c] THEN 0 ELSE stat[o]] \in [Objects -> 0..MaxVersion]
    BY DEF TypeOK
  <2>2. QED
    BY <1>13, <2>1, CollectKeeps DEF Reset
<1>14. ASSUME NEW c \in Callers, Create(c) PROVE Unreferred'
  BY <1>14
    DEF Create, Go, Change, TypeOK, Carried, Unreferred, Free, Live,
      cacheVars, jobVars
<1>15. ASSUME NEW c \in Callers, Created(c) PROVE Unreferred'
  BY <1>15
    DEF Created, Acquire, TypeOK, Carried, Unreferred, Free, Live, cacheVars,
      jobVars
<1>16. ASSUME NEW c \in Callers, Truncate(c) PROVE Unreferred'
  <2>1. [o \in Objects |-> IF o = obj[c] THEN 0 ELSE stat[o]] \in [Objects -> 0..MaxVersion]
    BY DEF TypeOK
  <2>2. QED
    BY <1>16, <2>1, CollectKeeps DEF Truncate
<1>17. ASSUME NEW c \in Callers, PutEntry(c) PROVE Unreferred'
  <2>1. stat \in [Objects -> 0..MaxVersion]
    BY DEF TypeOK
  <2>2. QED
    BY <1>17, <2>1, CollectKeeps DEF PutEntry
<1>18. ASSUME NEW c \in Callers, PutChild(c) PROVE Unreferred'
  <2>1. stat \in [Objects -> 0..MaxVersion]
    BY DEF TypeOK
  <2>2. QED
    BY <1>18, <2>1, CollectKeeps DEF PutChild
<1>19. ASSUME NEW c \in Callers, RemoveEntry(c) PROVE Unreferred'
  <2>1. stat \in [Objects -> 0..MaxVersion]
    BY DEF TypeOK
  <2>2. QED
    BY <1>19, <2>1, CollectKeeps DEF RemoveEntry
<1>20. ASSUME NEW c \in Callers, RemoveChild(c) PROVE Unreferred'
  <2>1. stat \in [Objects -> 0..MaxVersion]
    BY DEF TypeOK
  <2>2. QED
    BY <1>20, <2>1, CollectKeeps DEF RemoveChild
<1>21. ASSUME NEW c \in Callers, Notify(c) PROVE Unreferred'
  BY <1>21
    DEF Notify, Go, TypeOK, Carried, Unreferred, Free, Live, cacheVars,
      jobVars
<1>22. ASSUME NEW c \in Callers, Leave(c) PROVE Unreferred'
  BY <1>22
    DEF Leave, Go, Release, TypeOK, Carried, Unreferred, Free, Live,
      cacheVars, jobVars
<1>23. ASSUME NEW j \in Jobs, LoadStat(j) PROVE Unreferred'
  <2>1. CASE UNCHANGED <<job, stat>>
    BY <1>23, <2>1 DEF LoadStat, Unreferred, Free, Live
  <2>2. CASE Collect(stat)
    BY <2>2, CollectKeeps DEF TypeOK
  <2>3. QED
    BY <1>23, <2>1, <2>2 DEF LoadStat
<1>24. ASSUME NEW j \in Jobs, StoreStat(j) PROVE Unreferred'
  <2>1. job[j] \in Objects \/ job[j] = None
    BY DEF TypeOK
  <2>2. [stat EXCEPT ![job[j]] = loaded[j]] \in [Objects -> 0..MaxVersion]
    BY <2>1 DEF TypeOK
  <2>3. QED
    BY <1>24, <2>2, CollectKeeps DEF StoreStat
<1>25. CASE UNCHANGED vars
  BY <1>25
    DEF TypeOK, Carried, Unreferred, Free, Live, cacheVars, jobVars, vars
<1>26. QED
  BY <1>1, <1>2, <1>3, <1>4, <1>5, <1>6, <1>7, <1>8, <1>9, <1>10, <1>11,
      <1>12, <1>13, <1>14, <1>15, <1>16, <1>17, <1>18, <1>19, <1>20, <1>21,
      <1>22, <1>23, <1>24, <1>25
    DEF Next

Current == FoundIsCurrent /\ LoadedIsCurrent /\ EntryIsCovered

(* Every step keeps what is stored or on its way current. *)
LEMMA CurrentNext ==
  TypeOK /\ Carried /\ Unreferred /\ Current /\ [Next]_vars => Current'
<1> SUFFICES ASSUME TypeOK, Carried, Unreferred, Current, [Next]_vars
             PROVE  Current'
  OBVIOUS
<1> USE DocumentEntryAssumption
<1>1. ASSUME NEW c \in Callers, Query(c) PROVE Current'
  BY <1>1
    DEF Query, Go, Acquire, TypeOK, Carried, Current, FoundIsCurrent,
      LoadedIsCurrent, EntryIsCovered, Covers, Finds, serverVars, cacheVars,
      jobVars, history
<1>2. ASSUME NEW c \in Callers, Answer(c) PROVE Current'
  BY <1>2
    DEF Answer, Go, TypeOK, Carried, Current, FoundIsCurrent,
      LoadedIsCurrent, EntryIsCovered, Covers, Finds, serverVars, cacheVars,
      jobVars, history
<1>3. ASSUME NEW c \in Callers, Fetch(c) PROVE Current'
  BY <1>3
    DEF Fetch, Go, TypeOK, Carried, Current, FoundIsCurrent, LoadedIsCurrent,
      EntryIsCovered, Covers, Finds, serverVars, cacheVars, jobVars, history
<1>4. ASSUME NEW c \in Callers, List(c) PROVE Current'
  BY <1>4
    DEF List, Go, Acquire, TypeOK, Carried, Current, FoundIsCurrent,
      LoadedIsCurrent, EntryIsCovered, Covers, Finds, serverVars, cacheVars,
      jobVars, history
<1>5. ASSUME NEW c \in Callers, ReadDir(c) PROVE Current'
  BY <1>5
    DEF ReadDir, Go, Unreferred, TypeOK, Carried, Current, FoundIsCurrent,
      LoadedIsCurrent, EntryIsCovered, Covers, Finds, serverVars, cacheVars,
      jobVars, history
<1>6. ASSUME NEW c \in Callers, SetChildren(c) PROVE Current'
  <2>1. stat \in [Objects -> 0..MaxVersion]
    BY DEF TypeOK
  <2>2. \A o \in Objects : stat'[o] \in {0, stat[o]}
    BY <1>6, <2>1, CollectKeeps DEF SetChildren
  <2>3. \A o \in Objects : stat'[o] \in {0, stat[o]}
    BY <2>2
  <2>4. FoundIsCurrent'
    BY <1>6, <2>3
      DEF SetChildren, Go, TypeOK, Current, FoundIsCurrent, Finds,
        serverVars, history
  <2>5. LoadedIsCurrent'
    BY <1>6
      DEF SetChildren, Current, LoadedIsCurrent, serverVars, jobVars, history
  <2>6. EntryIsCovered'
    BY <1>6, <2>2, <2>3
      DEF SetChildren, Go, TypeOK, Current, FoundIsCurrent, EntryIsCovered,
        Covers, Finds, serverVars, history
  <2>7. QED
    BY <2>4, <2>5, <2>6 DEF Current
<1>7. ASSUME NEW c \in Callers, Rows(c) PROVE Current'
  BY <1>7
    DEF Rows, Go, TypeOK, Carried, Current, FoundIsCurrent, LoadedIsCurrent,
      EntryIsCovered, Covers, Finds, serverVars, cacheVars, jobVars, history
<1>8. ASSUME NEW c \in Callers, Delete(c) PROVE Current'
  BY <1>8
    DEF Delete, Go, TypeOK, Carried, Current, FoundIsCurrent,
      LoadedIsCurrent, EntryIsCovered, Covers, Finds, serverVars, cacheVars,
      jobVars, history
<1>9. ASSUME NEW c \in Callers, Unlink(c) PROVE Current'
  BY <1>9
    DEF Unlink, Go, TypeOK, Carried, Current, FoundIsCurrent,
      LoadedIsCurrent, EntryIsCovered, Covers, Finds, serverVars, cacheVars,
      jobVars, history
<1>10. ASSUME NEW c \in Callers, FailUnlink(c) PROVE Current'
  BY <1>10
    DEF FailUnlink, Go, TypeOK, Carried, Current, FoundIsCurrent,
      LoadedIsCurrent, EntryIsCovered, Covers, Finds, serverVars, cacheVars,
      jobVars, history
<1>11. ASSUME NEW c \in Callers, Write(c) PROVE Current'
  BY <1>11
    DEF Write, Go, Change, TypeOK, Carried, Current, FoundIsCurrent,
      LoadedIsCurrent, EntryIsCovered, Covers, Finds, serverVars, cacheVars,
      jobVars, history
<1>12. ASSUME NEW c \in Callers, Written(c) PROVE Current'
  BY <1>12
    DEF Written, Go, Acquire, TypeOK, Carried, Current, FoundIsCurrent,
      LoadedIsCurrent, EntryIsCovered, Covers, Finds, serverVars, cacheVars,
      jobVars, history
<1>13. ASSUME NEW c \in Callers, Reset(c) PROVE Current'
  <2>1. [o \in Objects |-> IF o = obj[c] THEN 0 ELSE stat[o]] \in [Objects -> 0..MaxVersion]
    BY DEF TypeOK
  <2>2. \A p \in Objects : stat'[p] \in {0, [o \in Objects |-> IF o = obj[c] THEN 0 ELSE stat[o]][p]}
    BY <1>13, <2>1, CollectKeeps DEF Reset
  <2>3. \A o \in Objects : stat'[o] \in {0, stat[o]}
    BY <2>2
  <2>4. FoundIsCurrent'
    BY <1>13, <2>3
      DEF Reset, Go, Release, TypeOK, Current, FoundIsCurrent, Finds,
        serverVars, history
  <2>5. LoadedIsCurrent'
    BY <1>13 DEF Reset, Current, LoadedIsCurrent, serverVars, jobVars, history
  <2>6. EntryIsCovered'
    BY <1>13, <2>2, <2>3
      DEF Reset, Go, Release, TypeOK, Current, FoundIsCurrent,
        EntryIsCovered, Covers, Finds, serverVars, history
  <2>7. QED
    BY <2>4, <2>5, <2>6 DEF Current
<1>14. ASSUME NEW c \in Callers, Create(c) PROVE Current'
  BY <1>14
    DEF Create, Go, Change, TypeOK, Carried, Current, FoundIsCurrent,
      LoadedIsCurrent, EntryIsCovered, Covers, Finds, serverVars, cacheVars,
      jobVars, history
<1>15. ASSUME NEW c \in Callers, Created(c) PROVE Current'
  BY <1>15
    DEF Created, Acquire, Unreferred, TypeOK, Carried, Current,
      FoundIsCurrent, LoadedIsCurrent, EntryIsCovered, Covers, Finds,
      serverVars, cacheVars, jobVars, history
<1>16. ASSUME NEW c \in Callers, Truncate(c) PROVE Current'
  <2>1. [o \in Objects |-> IF o = obj[c] THEN 0 ELSE stat[o]] \in [Objects -> 0..MaxVersion]
    BY DEF TypeOK
  <2>2. \A p \in Objects : stat'[p] \in {0, [o \in Objects |-> IF o = obj[c] THEN 0 ELSE stat[o]][p]}
    BY <1>16, <2>1, CollectKeeps DEF Truncate
  <2>3. \A o \in Objects : stat'[o] \in {0, stat[o]}
    BY <2>2
  <2>4. FoundIsCurrent'
    BY <1>16, <2>3
      DEF Truncate, Go, Release, TypeOK, Current, FoundIsCurrent, Finds,
        serverVars, history
  <2>5. LoadedIsCurrent'
    BY <1>16
      DEF Truncate, Current, LoadedIsCurrent, serverVars, jobVars, history
  <2>6. EntryIsCovered'
    BY <1>16, <2>2, <2>3
      DEF Truncate, Go, Release, TypeOK, Current, FoundIsCurrent,
        EntryIsCovered, Covers, Finds, serverVars, history
  <2>7. QED
    BY <2>4, <2>5, <2>6 DEF Current
<1>17. ASSUME NEW c \in Callers, PutEntry(c) PROVE Current'
  <2>1. stat \in [Objects -> 0..MaxVersion]
    BY DEF TypeOK
  <2>2. \A o \in Objects : stat'[o] \in {0, stat[o]}
    BY <1>17, <2>1, CollectKeeps DEF PutEntry
  <2>3. \A o \in Objects : stat'[o] \in {0, stat[o]}
    BY <2>2
  <2>4. FoundIsCurrent'
    BY <1>17, <2>3
      DEF PutEntry, Go, TypeOK, Current, FoundIsCurrent, Finds, serverVars,
        history
  <2>5. LoadedIsCurrent'
    BY <1>17
      DEF PutEntry, Current, LoadedIsCurrent, serverVars, jobVars, history
  <2>6. EntryIsCovered'
    BY <1>17, <2>2, <2>3
      DEF PutEntry, Go, TypeOK, Current, FoundIsCurrent, EntryIsCovered,
        Covers, Finds, serverVars, history
  <2>7. QED
    BY <2>4, <2>5, <2>6 DEF Current
<1>18. ASSUME NEW c \in Callers, PutChild(c) PROVE Current'
  <2>1. stat \in [Objects -> 0..MaxVersion]
    BY DEF TypeOK
  <2>2. \A o \in Objects : stat'[o] \in {0, stat[o]}
    BY <1>18, <2>1, CollectKeeps DEF PutChild
  <2>3. \A o \in Objects : stat'[o] \in {0, stat[o]}
    BY <2>2
  <2>4. FoundIsCurrent'
    BY <1>18, <2>3
      DEF PutChild, Go, TypeOK, Current, FoundIsCurrent, Finds, serverVars,
        history
  <2>5. LoadedIsCurrent'
    BY <1>18
      DEF PutChild, Current, LoadedIsCurrent, serverVars, jobVars, history
  <2>6. EntryIsCovered'
    BY <1>18, <2>2, <2>3
      DEF PutChild, Go, TypeOK, Current, FoundIsCurrent, EntryIsCovered,
        Covers, Finds, serverVars, history
  <2>7. QED
    BY <2>4, <2>5, <2>6 DEF Current
<1>19. ASSUME NEW c \in Callers, RemoveEntry(c) PROVE Current'
  <2>1. stat \in [Objects -> 0..MaxVersion]
    BY DEF TypeOK
  <2>2. \A o \in Objects : stat'[o] \in {0, stat[o]}
    BY <1>19, <2>1, CollectKeeps DEF RemoveEntry
  <2>3. \A o \in Objects : stat'[o] \in {0, stat[o]}
    BY <2>2
  <2>4. FoundIsCurrent'
    BY <1>19, <2>3
      DEF RemoveEntry, Go, TypeOK, Current, FoundIsCurrent, Finds,
        serverVars, history
  <2>5. LoadedIsCurrent'
    BY <1>19
      DEF RemoveEntry, Current, LoadedIsCurrent, serverVars, jobVars, history
  <2>6. EntryIsCovered'
    BY <1>19, <2>2, <2>3
      DEF RemoveEntry, Go, TypeOK, Current, FoundIsCurrent, EntryIsCovered,
        Covers, Finds, serverVars, history
  <2>7. QED
    BY <2>4, <2>5, <2>6 DEF Current
<1>20. ASSUME NEW c \in Callers, RemoveChild(c) PROVE Current'
  <2>1. stat \in [Objects -> 0..MaxVersion]
    BY DEF TypeOK
  <2>2. \A o \in Objects : stat'[o] \in {0, stat[o]}
    BY <1>20, <2>1, CollectKeeps DEF RemoveChild
  <2>3. \A o \in Objects : stat'[o] \in {0, stat[o]}
    BY <2>2
  <2>4. FoundIsCurrent'
    BY <1>20, <2>3
      DEF RemoveChild, Go, TypeOK, Current, FoundIsCurrent, Finds,
        serverVars, history
  <2>5. LoadedIsCurrent'
    BY <1>20
      DEF RemoveChild, Current, LoadedIsCurrent, serverVars, jobVars, history
  <2>6. EntryIsCovered'
    BY <1>20, <2>2, <2>3
      DEF RemoveChild, Go, TypeOK, Current, FoundIsCurrent, EntryIsCovered,
        Covers, Finds, serverVars, history
  <2>7. QED
    BY <2>4, <2>5, <2>6 DEF Current
<1>21. ASSUME NEW c \in Callers, Notify(c) PROVE Current'
  BY <1>21
    DEF Notify, Go, TypeOK, Carried, Current, FoundIsCurrent,
      LoadedIsCurrent, EntryIsCovered, Covers, Finds, serverVars, cacheVars,
      jobVars, history
<1>22. ASSUME NEW c \in Callers, Leave(c) PROVE Current'
  BY <1>22
    DEF Leave, Go, Release, TypeOK, Carried, Current, FoundIsCurrent,
      LoadedIsCurrent, EntryIsCovered, Covers, Finds, serverVars, cacheVars,
      jobVars, history
<1>23. ASSUME NEW j \in Jobs, LoadStat(j) PROVE Current'
  <2>1. CASE UNCHANGED <<job, stat>> /\ loaded' = [loaded EXCEPT ![j] = version]
    BY <1>23, <2>1
      DEF LoadStat, serverVars, history, TypeOK, Carried, Current,
        FoundIsCurrent, LoadedIsCurrent, EntryIsCovered, Covers, Finds
  <2>2. CASE Collect(stat) /\ UNCHANGED loaded
    <3>1. \A o \in Objects : stat'[o] \in {0, stat[o]}
      BY <2>2, CollectKeeps DEF TypeOK
    <3>2. QED
      BY <1>23, <2>2, <3>1
        DEF LoadStat, serverVars, history, TypeOK, Carried, Current,
          FoundIsCurrent, LoadedIsCurrent, EntryIsCovered, Covers, Finds
  <2>3. QED
    BY <1>23, <2>1, <2>2 DEF LoadStat
<1>24. ASSUME NEW j \in Jobs, StoreStat(j) PROVE Current'
  <2>1. job[j] \in Objects \/ job[j] = None
    BY DEF TypeOK
  <2> DEFINE stored == [stat EXCEPT ![job[j]] = loaded[j]]
  <2>2. stored \in [Objects -> 0..MaxVersion]
    BY <2>1 DEF TypeOK
  <2>3. \A o \in Objects : stat'[o] \in {0, stored[o]}
    BY <1>24, <2>2, CollectKeeps DEF StoreStat
  <2>4. \A o \in Objects : stat'[o] \in {0, stat[o], loaded[j]}
    BY <2>3 DEF TypeOK
  <2>5. QED
    BY <1>24, <2>4
      DEF StoreStat, serverVars, history, TypeOK, Carried, Current,
        FoundIsCurrent, LoadedIsCurrent, EntryIsCovered, Covers, Finds
<1>25. CASE UNCHANGED vars
  BY <1>25
    DEF TypeOK, Carried, Current, FoundIsCurrent, LoadedIsCurrent,
      EntryIsCovered, Covers, Finds, serverVars, cacheVars, jobVars, history,
      vars
<1>26. QED
  BY <1>1, <1>2, <1>3, <1>4, <1>5, <1>6, <1>7, <1>8, <1>9, <1>10, <1>11,
      <1>12, <1>13, <1>14, <1>15, <1>16, <1>17, <1>18, <1>19, <1>20, <1>21,
      <1>22, <1>23, <1>24, <1>25
    DEF Next

-----------------------------------------------------------------------------
(* The inductive invariant. *)
IInv ==
  /\ TypeOK
  /\ InUse
  /\ Counted
  /\ Carried
  /\ Unfound
  /\ Forgotten
  /\ Unreferred
  /\ Current

(* At first nothing is cached, found or in use. *)
LEMMA IInvInit == Init => IInv
<1> SUFFICES ASSUME Init PROVE IInv
  OBVIOUS
<1> USE DocumentEntryAssumption DEF Init
<1>1. TypeOK
  BY TypeInit
<1>2. InUse /\ Carried
  BY DEF InUse, In, Out, Carried
<1>3. Counted
  BY FS_CardinalityType, FS_EmptySet DEF Counted, PoolSuffices
<1>4. Unfound /\ Forgotten
  BY DEF Unfound, Forgotten, Finds
<1>5. Unreferred /\ Current
  BY
    DEF Unreferred, Current, FoundIsCurrent, LoadedIsCurrent, EntryIsCovered,
      Finds
<1>6. QED
  BY <1>1, <1>2, <1>3, <1>4, <1>5 DEF IInv

(* Every step keeps all of it. *)
LEMMA IInvNext == IInv /\ [Next]_vars => IInv'
BY TypeNext, PoolNext, CarriedNext, ForgottenNext, UnreferredNext, CurrentNext
  DEF IInv

(* It holds in every reachable state. *)
LEMMA Inductive == Spec => []IInv
BY IInvInit, IInvNext, PTL DEF Spec

(* The state stays well formed, whatever threads and coroutines there are. *)
THEOREM TypeCorrect == Spec => []TypeOK
<1>1. IInv => TypeOK
  BY DEF IInv
<1>2. QED
  BY Inductive, <1>1, PTL

(* The pool refuses no result while it has room for one of each thread. *)
THEOREM PoolSufficesHolds == Spec => []PoolSuffices
<1>1. IInv => PoolSuffices
  BY DEF IInv, Counted
<1>2. QED
  BY Inductive, <1>1, PTL

(* A deleted document that nobody had just found is not in the cache and   *)
(* not in the listing of its parent once its deletion is told.             *)
THEOREM DeletedIsForgottenHolds == Spec => []DeletedIsForgotten
<1>1. IInv => DeletedIsForgotten
  BY DEF IInv, Forgotten, DeletedIsForgotten, Deleting
<1>2. QED
  BY Inductive, <1>1, PTL

(* The entry has no stat from before a write that was told, unless it was  *)
(* loaded during the write.                                                *)
THEOREM EntryIsCurrentHolds == Spec => []EntryIsCurrent
<1>1. IInv => EntryIsCurrent
  BY DEF IInv, Current, EntryIsCovered, Covers, EntryIsCurrent, Changing
<1>2. QED
  BY Inductive, <1>1, PTL

=============================================================================
