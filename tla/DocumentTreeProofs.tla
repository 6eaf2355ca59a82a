------------------------- MODULE DocumentTreeProofs -------------------------
(***************************************************************************)
(* Proofs of DeletedIsGone and NothingInvented for every set of documents. *)
(***************************************************************************)
EXTENDS DocumentTree, SequenceTheorems, TLAPS

(* What an entry of a cache c lists; Listed(u) is Lists(cache, u). *)
Lists(c, u) == IF c[u] = None \/ c[u].children = None THEN {} ELSE c[u].children

Caches == [Uris -> Entries \cup {None}]

-----------------------------------------------------------------------------
(* Uris *)

LEMMA ParentLength ==
  ASSUME NEW u \in Paths
  PROVE  Len(u) \in Nat /\ Len(u) > 0 /\ Len(Parent(u)) = Len(u) - 1
<1>1. u \in Seq(Names) /\ u # <<>>
  BY TreeAssumption DEF Root
<1>2. Len(u) \in Nat /\ Len(u) > 0
  BY <1>1
<1>3. 1 \in Int /\ Len(u) - 1 \in Int /\ \A i \in 1 .. Len(u) - 1 : u[i] \in Names
  BY <1>1, <1>2
<1>4. Len(Parent(u)) = IF 1 <= Len(u) - 1 THEN Len(u) - 1 - 1 + 1 ELSE 0
  BY <1>3, SubSeqProperties DEF Parent
<1>5. Len(Parent(u)) = Len(u) - 1
  <2> DEFINE n == Len(u)
  <2>1. n \in Nat /\ n > 0 /\ Len(Parent(u)) = IF 1 <= n - 1 THEN n - 1 - 1 + 1 ELSE 0
    BY <1>2, <1>4
  <2> HIDE DEF n
  <2>2. Len(Parent(u)) = n - 1
    BY <2>1
  <2>3. QED
    BY <2>2 DEF n
<1>6. QED
  BY <1>2, <1>5

LEMMA ParentFacts ==
  ASSUME NEW u \in Paths
  PROVE  Parent(u) \in Uris /\ Parent(u) # u /\ u \in Uris
<1>1. Parent(u) \in Uris /\ u \in Uris
  BY TreeAssumption DEF Uris
<1>2. Parent(u) # u
  BY ParentLength
<1>3. QED
  BY <1>1, <1>2

(* A child of a document is one of those under it. *)
LEMMA ChildIsUnder ==
  ASSUME NEW g \in Paths, NEW v \in Paths, Parent(g) = v
  PROVE  g \in Under(v)
<1>1. Len(g) \in Nat /\ Len(v) = Len(g) - 1
  BY ParentLength
<1>2. SubSeq(g, 1, Len(v)) = v
  BY <1>1 DEF Parent
<1>3. QED
  BY <1>1, <1>2 DEF Under

-----------------------------------------------------------------------------
(* The operations of DocumentCache *)

LEMMA PutFacts ==
  ASSUME NEW c \in Caches, NEW u \in Paths, NEW e \in Entries
  PROVE  /\ Put(c, u, e) \in Caches
         /\ Put(c, u, e)[u] = e
         /\ \A w \in Uris \ {u} :
              /\ c[w] = None => Put(c, u, e)[w] = None
              /\ Lists(Put(c, u, e), w) \subseteq
                   Lists(c, w) \cup {x \in {u} : w = Parent(u)}
<1>1. Parent(u) \in Uris /\ Parent(u) # u /\ u \in Uris
  BY ParentFacts
<1>2. WithChild(c[Parent(u)], u) \in Entries \cup {None}
  BY <1>1 DEF WithChild, Caches, Entries
<1>3. Put(c, u, e) \in Caches
  BY <1>1, <1>2 DEF Put, Caches
<1>4. Put(c, u, e)[u] = e
  BY <1>1 DEF Put, Caches
<1>5. ASSUME NEW w \in Uris, w # u, w # Parent(u)
      PROVE  Put(c, u, e)[w] = c[w]
  BY <1>1, <1>5 DEF Put, Caches
<1>6. Put(c, u, e)[Parent(u)] = WithChild(c[Parent(u)], u)
  BY <1>1 DEF Put, Caches
<1>7. Lists(Put(c, u, e), Parent(u)) \subseteq Lists(c, Parent(u)) \cup {u}
  BY <1>1, <1>6 DEF Lists, WithChild, Caches, Entries
<1>8. c[Parent(u)] = None => Put(c, u, e)[Parent(u)] = None
  BY <1>6 DEF WithChild
<1>9. QED
  BY <1>3, <1>4, <1>5, <1>7, <1>8 DEF Lists

LEMMA RemoveFacts ==
  ASSUME NEW c \in Caches, NEW u \in Paths
  PROVE  /\ Remove(c, u) \in Caches
         /\ Remove(c, u)[u] = None
         /\ u \notin Lists(Remove(c, u), Parent(u))
         /\ \A w \in Uris :
              /\ c[w] = None => Remove(c, u)[w] = None
              /\ Lists(Remove(c, u), w) \subseteq Lists(c, w)
<1>1. Parent(u) \in Uris /\ Parent(u) # u /\ u \in Uris
  BY ParentFacts
<1>2. WithoutChild(c[Parent(u)], u) \in Entries \cup {None}
  BY <1>1 DEF WithoutChild, Caches, Entries
<1>3. Remove(c, u) \in Caches
  BY <1>1, <1>2 DEF Remove, Caches
<1>4. Remove(c, u)[u] = None
  BY <1>1 DEF Remove, Caches
<1>5. ASSUME NEW w \in Uris, w # u, w # Parent(u)
      PROVE  Remove(c, u)[w] = c[w]
  BY <1>1, <1>5 DEF Remove, Caches
<1>6. Remove(c, u)[Parent(u)] = WithoutChild(c[Parent(u)], u)
  BY <1>1 DEF Remove, Caches
<1>7. /\ u \notin Lists(Remove(c, u), Parent(u))
      /\ Lists(Remove(c, u), Parent(u)) \subseteq Lists(c, Parent(u))
  BY <1>1, <1>6 DEF Lists, WithoutChild, Caches, Entries
<1>8. c[Parent(u)] = None => Remove(c, u)[Parent(u)] = None
  BY <1>6 DEF WithoutChild
<1>9. QED
  BY <1>3, <1>4, <1>5, <1>7, <1>8 DEF Lists

LEMMA ResetFacts ==
  ASSUME NEW c \in Caches, NEW u \in Paths
  PROVE  /\ Reset(c, u) \in Caches
         /\ \A w \in Uris :
              /\ c[w] = None => Reset(c, u)[w] = None
              /\ Lists(Reset(c, u), w) \subseteq Lists(c, w)
<1>1. u \in Uris
  BY ParentFacts
<1>2. CASE c[u] = None
  BY <1>2 DEF Reset
<1>3. CASE c[u] # None
  <2>1. Reset(c, u) = [c EXCEPT ![u] = [c[u] EXCEPT !.children = None]]
    BY <1>3 DEF Reset
  <2>2. [c[u] EXCEPT !.children = None] \in Entries
    BY <1>1, <1>3 DEF Caches, Entries
  <2>3. Reset(c, u) \in Caches
    BY <2>1, <2>2 DEF Caches
  <2>4. ASSUME NEW w \in Uris, w # u
        PROVE  Reset(c, u)[w] = c[w]
    BY <2>1, <2>4 DEF Caches
  <2>5. Lists(Reset(c, u), u) = {}
    BY <1>1, <1>3, <2>1 DEF Lists, Caches, Entries
  <2>6. QED
    BY <1>3, <2>3, <2>4, <2>5 DEF Lists
<1>4. QED
  BY <1>2, <1>3

LEMMA NewEntryType == ASSUME NEW t \in Types PROVE NewEntry(t) \in Entries
BY DEF NewEntry, Entries

-----------------------------------------------------------------------------
(* The inductive invariant *)

Typed ==
  /\ tree \in [Paths -> Types \cup {"none"}]
  /\ cache \in Caches
  /\ deleting \in Seq(Frames)
  /\ doomed \in Paths \cup {None}
  /\ gone \in Paths \cup {None}

(* What is gone is not on the server, and what is on it has been seen. *)
Remembered ==
  /\ gone # None => tree[gone] = "none"
  /\ \A p \in Paths : tree[p] # "none" => p \in seen

(* Both invariants, of a cache c, a deleted document g, whose parent has   *)
(* its listing from elsewhere (k) or not, and seen documents s.            *)
Good(c, g, k, s) ==
  /\ c \in Caches
  /\ g # None => c[g] = None /\ (g \in Lists(c, Parent(g)) => k)
  /\ \A u \in Uris : (c[u] # None => u = Root \/ u \in s) /\ Lists(c, u) \subseteq s

IInv == Typed /\ Remembered /\ Good(cache, gone, carried, seen)

LEMMA IInvImplies == IInv => DeletedIsGone /\ NothingInvented
BY DEF IInv, DeletedIsGone, NothingInvented, Good, Listed, Lists

(* A cache that knows no more than a good one is good. *)
LEMMA LessIsGood ==
  ASSUME NEW c \in Caches, NEW d \in Caches, NEW g \in Paths \cup {None},
         NEW k, NEW s, NEW t, s \subseteq t, Good(c, g, k, s),
         \A w \in Uris : (c[w] = None => d[w] = None) /\ Lists(d, w) \subseteq Lists(c, w)
  PROVE  Good(d, g, k, t)
<1>1. g # None => g \in Uris /\ Parent(g) \in Uris
  BY ParentFacts
<1>2. g # None => d[g] = None /\ (g \in Lists(d, Parent(g)) => k)
  BY <1>1 DEF Good
<1>3. QED
  BY <1>2 DEF Good

(* Putting a document that is there into a good cache. *)
LEMMA PutIsGood ==
  ASSUME NEW c \in Caches, NEW g \in Paths \cup {None}, NEW k, NEW s,
         Good(c, g, k, s), NEW u \in Paths, g # None => u # g, u \in s, NEW e \in Entries,
         e.children # None => e.children \subseteq s,
         g # None /\ Parent(g) = u /\ e.children # None /\ g \in e.children => k
  PROVE  Good(Put(c, u, e), g, k, s)
<1> DEFINE d == Put(c, u, e)
<1>1. /\ d \in Caches
      /\ d[u] = e
      /\ \A w \in Uris \ {u} :
           /\ c[w] = None => d[w] = None
           /\ Lists(d, w) \subseteq Lists(c, w) \cup {x \in {u} : w = Parent(u)}
  BY PutFacts
<1> HIDE DEF d
<1>2. u \in Uris /\ (g # None => g \in Uris /\ Parent(g) \in Uris)
  BY ParentFacts
<1>3. Lists(d, u) \subseteq s /\ (g # None /\ Parent(g) = u /\ g \in Lists(d, u) => k)
  BY <1>1 DEF Lists
<1>4. ASSUME g # None
      PROVE  d[g] = None /\ (g \in Lists(d, Parent(g)) => k)
  <2>1. d[g] = None
    BY <1>1, <1>2, <1>4 DEF Good
  <2>2. CASE Parent(g) = u
    BY <1>3, <1>4, <2>1, <2>2
  <2>3. CASE Parent(g) # u
    BY <1>1, <1>2, <1>4, <2>1, <2>3 DEF Good
  <2>4. QED
    BY <2>2, <2>3
<1>5. ASSUME NEW w \in Uris
      PROVE  (d[w] # None => w = Root \/ w \in s) /\ Lists(d, w) \subseteq s
  BY <1>1, <1>3, <1>5 DEF Good
<1>6. QED
  BY <1>1, <1>4, <1>5 DEF Good, d

(* The server's side of a change. *)
LEMMA TreeBecomesFacts ==
  ASSUME NEW t \in [Paths -> Types \cup {"none"}], NEW g \in Paths \cup {None},
         NEW k, TreeBecomes(t, g, k)
  PROVE  /\ tree' \in [Paths -> Types \cup {"none"}] /\ gone' \in Paths \cup {None}
         /\ Remembered'
         /\ seen \subseteq seen' /\ gone' \in {g, None}
         /\ gone' # None /\ k => carried'
BY DEF TreeBecomes, Remembered

LEMMA ForgetIsGood ==
  ASSUME NEW c \in Caches, NEW g, NEW k, NEW s, NEW t, s \subseteq t,
         Good(c, g, k, s), NEW h \in {g, None}, NEW l, h # None /\ k => l
  PROVE  Good(c, h, l, t)
BY DEF Good

LEMMA RemoveIsGood ==
  ASSUME NEW c \in Caches, NEW g \in Paths \cup {None}, NEW k, NEW s, NEW t,
         s \subseteq t, Good(c, g, k, s), NEW u \in Paths, NEW h \in {g, u, None},
         NEW l, h # None /\ h = g /\ h # u /\ k => l
  PROVE  Good(Remove(c, u), h, l, t)
<1>1. Remove(c, u) \in Caches
  BY RemoveFacts
<1>2. Good(Remove(c, u), g, k, t)
  BY <1>1, RemoveFacts, LessIsGood
<1>3. Remove(c, u)[u] = None /\ u \notin Lists(Remove(c, u), Parent(u))
  BY RemoveFacts
<1>4. QED
  BY <1>2, <1>3 DEF Good

-----------------------------------------------------------------------------
(* Every step keeps it *)

LEMMA InitIInv == Init => IInv
<1> SUFFICES ASSUME Init PROVE IInv
  OBVIOUS
<1>1. cache \in Caches
  <2>1. NewEntry("dir") \in Entries
    BY NewEntryType DEF Types
  <2>2. QED
    BY <2>1 DEF Init, Caches
<1>2. Typed
  BY <1>1 DEF Init, Typed
<1>3. Remembered
  BY DEF Init, Remembered
<1>4. \A u \in Uris : (cache[u] # None => u = Root) /\ Lists(cache, u) = {}
  BY DEF Init, Lists, NewEntry
<1>5. gone = None
  BY DEF Init
<1>6. QED
  BY <1>1, <1>2, <1>3, <1>4, <1>5 DEF IInv, Good

LEMMA QueryDocumentStep ==
  ASSUME IInv, NEW u \in Paths, QueryDocument(u)
  PROVE  IInv'
<1>1. tree[u] \in Types /\ u \in seen /\ (gone # None => u # gone)
  BY DEF IInv, Typed, Remembered, QueryDocument
<1>2. NewEntry(tree[u]) \in Entries /\ NewEntry(tree[u]).children = None
  BY <1>1, NewEntryType DEF NewEntry
<1>3. cache \in Caches /\ gone \in Paths \cup {None} /\ Good(cache, gone, carried, seen)
  BY DEF IInv, Typed
<1>4. Good(Put(cache, u, NewEntry(tree[u])), gone, carried, seen)
  BY <1>1, <1>2, <1>3, PutIsGood
<1>5. Put(cache, u, NewEntry(tree[u])) \in Caches
  BY <1>4 DEF Good
<1>6. QED
  BY <1>4, <1>5 DEF IInv, Typed, Remembered, QueryDocument

LEMMA QueryChildDocumentsStep ==
  ASSUME IInv, NEW u \in Uris, QueryChildDocuments(u)
  PROVE  IInv'
<1> DEFINE listed == [cache EXCEPT ![u].children = ChildrenOf(u)]
<1>1. cache \in Caches /\ gone \in Paths \cup {None} /\ Good(cache, gone, carried, seen)
  BY DEF IInv, Typed
<1>2. cache[u] \in Entries /\ cache[u] # None
  BY <1>1 DEF QueryChildDocuments, Caches
<1>3. ChildrenOf(u) \subseteq Paths /\ ChildrenOf(u) \subseteq seen
  BY DEF IInv, Remembered, ChildrenOf
<1>4. gone # None => gone \notin ChildrenOf(u)
  BY DEF IInv, Remembered, ChildrenOf
<1>5. [cache[u] EXCEPT !.children = ChildrenOf(u)] \in Entries
  BY <1>2, <1>3 DEF Entries
<1>6. listed = [cache EXCEPT ![u] = [cache[u] EXCEPT !.children = ChildrenOf(u)]]
  OBVIOUS
<1>7. listed \in Caches
  BY <1>1, <1>5, <1>6 DEF Caches
<1>8. listed[u] = [cache[u] EXCEPT !.children = ChildrenOf(u)]
  BY <1>1, <1>6 DEF Caches
<1>9. listed[u] \in Entries /\ listed[u].children = ChildrenOf(u)
  BY <1>2, <1>5, <1>8 DEF Entries
<1>10. \A w \in Uris \ {u} : listed[w] = cache[w]
  BY <1>1, <1>6 DEF Caches
<1> HIDE DEF listed
<1>11. Lists(listed, u) \subseteq ChildrenOf(u)
  BY <1>9 DEF Lists
<1>12. \A w \in Uris \ {u} : Lists(listed, w) = Lists(cache, w)
  BY <1>10 DEF Lists
<1>13. gone # None => gone \in Uris /\ Parent(gone) \in Uris /\ gone # u
  BY <1>1, <1>2, ParentFacts DEF Good
<1>14. Good(listed, gone, carried', seen)
  <2>1. gone # None => listed[gone] = None
    BY <1>1, <1>10, <1>13 DEF Good
  <2>2. gone # None => (gone \in Lists(listed, Parent(gone)) => carried')
    BY <1>1, <1>4, <1>11, <1>12, <1>13 DEF Good, QueryChildDocuments
  <2>3. u = Root \/ u \in seen
    BY <1>1, <1>2 DEF Good
  <2>4. ASSUME NEW w \in Uris
        PROVE  (listed[w] # None => w = Root \/ w \in seen) /\ Lists(listed, w) \subseteq seen
    BY <1>1, <1>3, <1>10, <1>11, <1>12, <2>3 DEF Good
  <2>5. QED
    BY <1>7, <2>1, <2>2, <2>4 DEF Good
<1>15. u # Root => Good(Put(listed, u, listed[u]), gone, carried', seen)
  <2>1. SUFFICES ASSUME u # Root PROVE Good(Put(listed, u, listed[u]), gone, carried', seen)
    OBVIOUS
  <2>2. u \in Paths /\ u \in seen /\ (gone # None => u # gone)
    BY <1>1, <1>2, <1>13, <2>1 DEF Good, Uris
  <2>3. QED
    BY <1>1, <1>3, <1>4, <1>7, <1>9, <1>14, <2>2, PutIsGood
<1>16. cache' = listed \/ (u # Root /\ cache' = Put(listed, u, listed[u]))
  BY DEF QueryChildDocuments, listed
<1>17. Good(cache', gone, carried', seen)
  BY <1>14, <1>15, <1>16
<1>18. QED
  BY <1>17 DEF IInv, Typed, Remembered, QueryChildDocuments, Good

(* What every step that changes the documents starts from. *)
LEMMA ChangeFacts ==
  ASSUME IInv, NEW t \in [Paths -> Types \cup {"none"}], TreeBecomes(t, gone, carried)
  PROVE  /\ cache \in Caches
         /\ tree' \in [Paths -> Types \cup {"none"}] /\ gone' \in Paths \cup {None}
         /\ Remembered'
         /\ seen \subseteq seen'
         /\ Good(cache, gone', carried', seen')
<1>1. cache \in Caches /\ gone \in Paths \cup {None} /\ Good(cache, gone, carried, seen)
  BY DEF IInv, Typed
<1>2. /\ tree' \in [Paths -> Types \cup {"none"}] /\ gone' \in Paths \cup {None}
      /\ Remembered'
      /\ seen \subseteq seen' /\ gone' \in {gone, None}
      /\ gone' # None /\ carried => carried'
  BY <1>1, TreeBecomesFacts
<1>3. QED
  BY <1>1, <1>2, ForgetIsGood

LEMMA CreateDocumentStep ==
  ASSUME IInv, NEW u \in Paths, NEW type \in Types, CreateDocument(u, type)
  PROVE  IInv'
<1> DEFINE t == [tree EXCEPT ![u] = type]
<1>1. t \in [Paths -> Types \cup {"none"}] /\ t[u] = type
  BY DEF IInv, Typed
<1>2. TreeBecomes(t, gone, carried)
  BY DEF CreateDocument, CreateRequest, Created
<1>3. tree' = t
  BY <1>2 DEF TreeBecomes
<1> HIDE DEF t
<1>4. /\ cache \in Caches
      /\ tree' \in [Paths -> Types \cup {"none"}] /\ gone' \in Paths \cup {None}
      /\ Remembered'
      /\ seen \subseteq seen'
      /\ Good(cache, gone', carried', seen')
  BY <1>1, <1>2, ChangeFacts
<1>5. Good(cache', gone', carried', seen')
  <2>1. CASE cache[u] # None
    <3>1. cache' = Reset(cache, u)
      BY <2>1 DEF CreateDocument
    <3>2. QED
      BY <1>4, <3>1, ResetFacts, LessIsGood
  <2>2. CASE cache[u] = None
    <3>1. cache' = Put(cache, u, NewEntry(type))
      BY <2>2 DEF CreateDocument
    <3>2. NewEntry(type) \in Entries /\ NewEntry(type).children = None
      BY NewEntryType DEF NewEntry
    <3>3. tree'[u] # "none"
      BY <1>1, <1>3 DEF Types
    <3>4. u \in seen' /\ (gone' # None => u # gone')
      BY <1>4, <3>3 DEF Remembered
    <3>5. QED
      BY <1>4, <3>1, <3>2, <3>4, PutIsGood
  <2>3. QED
    BY <2>1, <2>2
<1>6. deleting' \in Seq(Frames) /\ doomed' \in Paths \cup {None}
  BY DEF IInv, Typed, CreateDocument
<1>7. QED
  BY <1>4, <1>5, <1>6 DEF IInv, Typed, Good

LEMMA RenameStep ==
  ASSUME IInv, NEW u \in Paths, NEW v \in Paths, Rename(u, v)
  PROVE  IInv'
<1> DEFINE R == Remove(cache, u)
<1>1. cache \in Caches /\ gone \in Paths \cup {None} /\ Good(cache, gone, carried, seen)
  BY DEF IInv, Typed
<1>2. TreeBecomes(Renamed(u, v), gone, carried \/ Brings(u, v))
  BY DEF Rename, RenameRequest
<1>3. Renamed(u, v) \in [Paths -> Types \cup {"none"}] /\ Renamed(u, v)[v] = tree[u]
  BY DEF IInv, Typed, Renamed
<1>5. /\ tree' \in [Paths -> Types \cup {"none"}] /\ gone' \in Paths \cup {None}
      /\ Remembered'
      /\ seen \subseteq seen' /\ gone' \in {gone, None}
      /\ gone' # None /\ (carried \/ Brings(u, v)) => carried'
  BY <1>1, <1>2, <1>3, TreeBecomesFacts
<1>6. Good(cache, gone', carried', seen')
  BY <1>1, <1>5, ForgetIsGood
<1>7. tree'[v] # "none"
  BY <1>2, <1>3 DEF TreeBecomes, Rename, RenameRequest, CanRename
<1>8. v \in seen' /\ (gone' # None => v # gone')
  BY <1>5, <1>7 DEF Remembered
<1>9. gone' # None /\ Parent(gone') = v /\ u # v => carried'
  BY <1>5 DEF Brings
<1>10. Good(cache', gone', carried', seen')
  <2>1. CASE cache[u] = None
    BY <1>6, <2>1 DEF Rename, RenamedCache
  <2>2. CASE cache[u] # None
    <3>1. cache' = Put(R, v, cache[u])
      BY <2>2 DEF Rename, RenamedCache
    <3>2. cache[u] \in Entries
      BY <1>1, <2>2, ParentFacts DEF Caches
    <3>3. R \in Caches /\ Good(R, gone', carried', seen')
      BY <1>1, <1>5, <1>6, RemoveIsGood, RemoveFacts
    <3>4. cache[u].children # None => cache[u].children \subseteq seen'
      BY <1>6, <2>2, ParentFacts DEF Good, Lists
    <3>5. gone' # None /\ Parent(gone') = v
            /\ cache[u].children # None /\ gone' \in cache[u].children => carried'
      BY <1>6, <1>9, <2>2 DEF Good, Lists
    <3> HIDE DEF R
    <3>6. QED
      BY <1>5, <1>8, <3>1, <3>2, <3>3, <3>4, <3>5, PutIsGood
  <2>3. QED
    BY <2>1, <2>2
<1>11. deleting' \in Seq(Frames) /\ doomed' \in Paths \cup {None}
  BY DEF IInv, Typed, Rename
<1>12. QED
  BY <1>5, <1>10, <1>11 DEF IInv, Typed, Good

LEMMA WriteEndsStep ==
  ASSUME IInv, NEW u \in Paths, WriteEnds(u)
  PROVE  IInv'
<1>1. cache \in Caches /\ gone \in Paths \cup {None} /\ Good(cache, gone, carried, seen)
  BY DEF IInv, Typed
<1>2. Good(Reset(cache, u), gone, carried, seen)
  BY <1>1, ResetFacts, LessIsGood
<1>3. QED
  BY <1>2 DEF IInv, Typed, Remembered, Good, WriteEnds

-----------------------------------------------------------------------------
(* Deleting *)

LEMMA DeleteFileFacts ==
  ASSUME IInv, NEW p \in Paths, NEW c, c = Remove(cache, p),
         TreeBecomes([tree EXCEPT ![p] = "none"], p, FALSE), cache' = c
  PROVE  /\ tree' \in [Paths -> Types \cup {"none"}] /\ gone' \in Paths \cup {None}
         /\ Remembered'
         /\ Good(cache', gone', carried', seen')
<1>1. cache \in Caches /\ gone \in Paths \cup {None} /\ Good(cache, gone, carried, seen)
  BY DEF IInv, Typed
<1>2. [tree EXCEPT ![p] = "none"] \in [Paths -> Types \cup {"none"}]
  BY DEF IInv, Typed
<1>3. /\ tree' \in [Paths -> Types \cup {"none"}] /\ gone' \in Paths \cup {None}
      /\ Remembered'
      /\ seen \subseteq seen' /\ gone' \in {p, None}
  BY <1>2, TreeBecomesFacts
<1>4. QED
  BY <1>1, <1>3, RemoveIsGood

(* What a document was deleted from, and what is left to do about it. *)
LEMMA FrameFacts ==
  ASSUME IInv, deleting # <<>>
  PROVE  Top \in Frames /\ Popped \in Seq(Frames)
         /\ \A f \in Frames : WithTop(f) \in Seq(Frames)
<1> DEFINE n == Len(deleting)
<1>1. deleting \in Seq(Frames) /\ n \in Nat /\ n > 0
  BY DEF IInv, Typed
<1>2. deleting[n] \in Frames
  <2>1. n \in 1 .. n
    BY <1>1
  <2>2. QED
    BY <1>1, <2>1, ElementOfSeq
<1>3. Popped \in Seq(Frames)
  <2>1. 1 \in Int /\ n - 1 \in Int /\ \A i \in 1 .. n - 1 : deleting[i] \in Frames
    BY <1>1, ElementOfSeq
  <2>2. QED
    BY <2>1, SubSeqProperties DEF Popped
<1>4. \A f \in Frames : WithTop(f) \in Seq(Frames)
  BY <1>1, ExceptSeq DEF WithTop
<1>5. QED
  BY <1>2, <1>3, <1>4 DEF Top

LEMMA DeleteDocumentStep ==
  ASSUME IInv, NEW u \in Paths, DeleteDocument(u)
  PROVE  IInv'
<1>1. Frame(u) \in Frames
  BY DEF Frame, Frames
<1>2. deleting' \in Seq(Frames)
  BY <1>1 DEF DeleteDocument
<1>3. QED
  BY <1>2 DEF IInv, Typed, Remembered, DeleteDocument

LEMMA DeleteDoomedFileStep == ASSUME IInv, DeleteDoomedFile PROVE IInv'
<1>1. doomed \in Paths
  BY DEF IInv, Typed, DeleteDoomedFile
<1>2. /\ tree' \in [Paths -> Types \cup {"none"}] /\ gone' \in Paths \cup {None}
      /\ Remembered'
      /\ Good(cache', gone', carried', seen')
  BY <1>1, DeleteFileFacts DEF DeleteDoomedFile, DeleteFile, Unlink, Removed
<1>3. deleting' \in Seq(Frames) /\ doomed' \in Paths \cup {None}
  BY DEF DeleteDoomedFile, Ended
<1>4. QED
  BY <1>2, <1>3 DEF IInv, Typed, Good

LEMMA LoadFolderStep == ASSUME IInv, LoadFolder PROVE IInv'
<1> DEFINE todo == {[path |-> p, type |-> tree[p]] : p \in ChildrenOf(Top.dir)}
<1>1. todo \in SUBSET [path : Paths, type : Types]
  BY DEF IInv, Typed, ChildrenOf
<1>2. Top \in Frames
  BY FrameFacts DEF LoadFolder
<1>3. [Top EXCEPT !.todo = todo] \in Frames
  <2> HIDE DEF todo
  <2>1. QED
    BY <1>1, <1>2 DEF Frames
<1>4. deleting' = WithTop([Top EXCEPT !.todo = todo])
  BY DEF LoadFolder
<1> HIDE DEF todo
<1>5. deleting' \in Seq(Frames)
  BY <1>3, <1>4, FrameFacts DEF LoadFolder
<1>6. QED
  BY <1>5 DEF IInv, Typed, Remembered, LoadFolder

LEMMA DeleteChildStep ==
  ASSUME IInv, NEW p \in Paths, NEW type \in Types,
         DeleteChild([path |-> p, type |-> type])
  PROVE  IInv'
<1> DEFINE child == [path |-> p, type |-> type]
           rest == WithTop([Top EXCEPT !.todo = @ \ {child}])
<1>1. Top \in Frames /\ Top.todo # None
  BY FrameFacts DEF DeleteChild
<1>2. [Top EXCEPT !.todo = @ \ {child}] \in Frames
  BY <1>1 DEF Frames
<1>3. rest \in Seq(Frames)
  BY <1>2, FrameFacts DEF DeleteChild
<1>4. CASE type = "dir"
  <2>1. deleting' = Append(rest, Frame(p)) /\ UNCHANGED <<tree, cache, gone, carried, seen, doomed>>
    BY <1>4 DEF DeleteChild
  <2>2. Frame(p) \in Frames
    BY DEF Frame, Frames
  <2> HIDE DEF rest
  <2>3. deleting' \in Seq(Frames)
    BY <1>3, <2>1, <2>2
  <2>4. QED
    BY <2>1, <2>3 DEF IInv, Typed, Remembered
<1>5. CASE type # "dir"
  <2>1. DeleteFile(p) /\ deleting' = rest /\ doomed' = doomed
    BY <1>5 DEF DeleteChild
  <2>2. /\ tree' \in [Paths -> Types \cup {"none"}] /\ gone' \in Paths \cup {None}
        /\ Remembered'
        /\ Good(cache', gone', carried', seen')
    BY <2>1, DeleteFileFacts DEF DeleteFile, Unlink, Removed
  <2> HIDE DEF rest
  <2>3. doomed' \in Paths \cup {None}
    BY <2>1 DEF IInv, Typed
  <2>4. QED
    BY <1>3, <2>1, <2>2, <2>3 DEF IInv, Typed, Good
<1>6. QED
  BY <1>4, <1>5

LEMMA RemoveFolderStep == ASSUME IInv, RemoveFolder PROVE IInv'
<1>1. Top.dir \in Paths /\ Popped \in Seq(Frames)
  BY FrameFacts DEF RemoveFolder, Frames
<1>2. /\ tree' \in [Paths -> Types \cup {"none"}] /\ gone' \in Paths \cup {None}
      /\ Remembered'
      /\ Good(cache', gone', carried', seen')
  BY <1>1, DeleteFileFacts DEF RemoveFolder, Rmdir, Removed
<1>3. (deleting' = <<>> /\ doomed' = None) \/ (deleting' = Popped /\ doomed' = doomed)
  BY DEF RemoveFolder, Ended
<1>4. doomed \in Paths \cup {None} /\ <<>> \in Seq(Frames)
  BY DEF IInv, Typed
<1>5. deleting' \in Seq(Frames) /\ doomed' \in Paths \cup {None}
  BY <1>1, <1>3, <1>4
<1>6. QED
  BY <1>2, <1>5 DEF IInv, Typed, Good

(* Finding that there is nothing to delete. *)
LEMMA NothingThere ==
  ASSUME IInv, NEW u \in Paths,
         cache' = Remove(cache, u),
         IF tree[u] = "none" THEN gone' = u /\ carried' = FALSE
                             ELSE UNCHANGED <<gone, carried>>,
         UNCHANGED <<tree, seen>>,
         deleting' \in Seq(Frames), doomed' \in Paths \cup {None}
  PROVE  IInv'
<1>1. cache \in Caches /\ gone \in Paths \cup {None} /\ Good(cache, gone, carried, seen)
  BY DEF IInv, Typed
<1>2. gone' \in {gone, u, None} /\ gone' \in Paths \cup {None}
  BY <1>1
<1>3. Good(cache', gone', carried', seen')
  <2>1. gone' # None /\ gone' = gone /\ gone' # u /\ carried => carried'
    OBVIOUS
  <2>2. seen \subseteq seen'
    OBVIOUS
  <2>3. QED
    BY <1>1, <1>2, <2>1, <2>2, RemoveIsGood
<1>4. Remembered'
  BY DEF IInv, Remembered
<1>5. QED
  BY <1>2, <1>3, <1>4 DEF IInv, Typed, Good

LEMMA NotFoundStep == ASSUME IInv, NotFound PROVE IInv'
<1>1. doomed \in Paths
  BY DEF IInv, Typed, NotFound
<1>2. deleting' \in Seq(Frames) /\ doomed' \in Paths \cup {None}
  BY DEF NotFound, Ended
<1>3. QED
  BY <1>1, <1>2, NothingThere DEF NotFound, FileNotFound

LEMMA DeleteNothingStep ==
  ASSUME IInv, NEW u \in Paths, DeleteNothing(u)
  PROVE  IInv'
<1>1. deleting' \in Seq(Frames) /\ doomed' \in Paths \cup {None}
  BY DEF DeleteNothing, IInv, Typed
<1>2. QED
  BY <1>1, NothingThere DEF DeleteNothing, FileNotFound

-----------------------------------------------------------------------------
(* Other clients *)

LEMMA OthersStep ==
  ASSUME IInv, NEW t \in [Paths -> Types \cup {"none"}], TreeBecomes(t, gone, carried),
         UNCHANGED <<cache, deleting, doomed>>
  PROVE  IInv'
<1>1. /\ cache \in Caches
      /\ tree' \in [Paths -> Types \cup {"none"}] /\ gone' \in Paths \cup {None}
      /\ Remembered'
      /\ Good(cache, gone', carried', seen')
  BY ChangeFacts
<1>2. QED
  BY <1>1 DEF IInv, Typed

LEMMA IInvNext == IInv /\ [Next]_vars => IInv'
<1> SUFFICES ASSUME IInv, [Next]_vars PROVE IInv'
  OBVIOUS
<1>1. ASSUME NEW u \in Paths, QueryDocument(u) PROVE IInv'
  BY <1>1, QueryDocumentStep
<1>2. ASSUME NEW u \in Uris, QueryChildDocuments(u) PROVE IInv'
  BY <1>2, QueryChildDocumentsStep
<1>3. ASSUME NEW u \in Paths, NEW type \in Types, CreateDocument(u, type) PROVE IInv'
  BY <1>3, CreateDocumentStep
<1>4. ASSUME NEW u \in Paths, NEW v \in Paths, RenameDocument(u, v) \/ MoveDocument(u, v)
      PROVE  IInv'
  BY <1>4, RenameStep DEF RenameDocument, MoveDocument
<1>5. ASSUME NEW u \in Paths, OpenForWriting(u) PROVE IInv'
  BY <1>5 DEF OpenForWriting, IInv, Typed, Remembered
<1>6. ASSUME NEW u \in Paths, WriteEnds(u) PROVE IInv'
  BY <1>6, WriteEndsStep
<1>7. ASSUME NEW u \in Paths, DeleteDocument(u) PROVE IInv'
  BY <1>7, DeleteDocumentStep
<1>8. ASSUME NEW u \in Paths, DeleteNothing(u) PROVE IInv'
  BY <1>8, DeleteNothingStep
<1>9. CASE DeleteDoomedFile
  BY <1>9, DeleteDoomedFileStep
<1>10. CASE LoadFolder
  BY <1>10, LoadFolderStep
<1>11. CASE RemoveFolder
  BY <1>11, RemoveFolderStep
<1>12. CASE NotFound
  BY <1>12, NotFoundStep
<1>13. CASE DeleteFails
  BY <1>13 DEF DeleteFails, Ended, IInv, Typed, Remembered
<1>14. ASSUME NEW p \in Paths, NEW type \in Types, DeleteChild([path |-> p, type |-> type])
       PROVE  IInv'
  BY <1>14, DeleteChildStep
<1>15. ASSUME NEW p \in Paths, NEW type \in Types, OthersCreate(p, type) PROVE IInv'
  <2>1. [tree EXCEPT ![p] = type] \in [Paths -> Types \cup {"none"}]
    BY DEF IInv, Typed
  <2>2. QED
    BY <1>15, <2>1, OthersStep DEF OthersCreate, Created
<1>16. ASSUME NEW p \in Paths, OthersRemove(p) PROVE IInv'
  <2>1. [tree EXCEPT ![p] = "none"] \in [Paths -> Types \cup {"none"}]
    BY DEF IInv, Typed
  <2>2. QED
    BY <1>16, <2>1, OthersStep DEF OthersRemove, Removed
<1>17. CASE UNCHANGED vars
  BY <1>17 DEF vars, IInv, Typed, Remembered
<1>18. QED
  BY <1>1, <1>2, <1>3, <1>4, <1>5, <1>6, <1>7, <1>8, <1>9, <1>10, <1>11, <1>12,
     <1>13, <1>14, <1>15, <1>16, <1>17 DEF Next, Provider, Others

(***************************************************************************)
(* A document deleted through the provider stays out of DocumentCache and  *)
(* out of the children its parent's metadata lists until there is one at   *)
(* its uri again, or a directory that was listed under its parent's name   *)
(* is renamed back to it: for any documents, any depth of directories, any *)
(* number of writes in progress, whatever other clients do meanwhile.      *)
(***************************************************************************)
THEOREM DeletedIsGoneHolds == Spec => []DeletedIsGone
<1>1. Spec => []IInv
  BY InitIInv, IInvNext, PTL DEF Spec
<1>2. QED
  BY <1>1, IInvImplies, PTL

(***************************************************************************)
(* DocumentCache has and lists only documents that have been on the server *)
(* at some time, whatever requests fail and whatever moves where.          *)
(***************************************************************************)
THEOREM NothingInventedHolds == Spec => []NothingInvented
<1>1. Spec => []IInv
  BY InitIInv, IInvNext, PTL DEF Spec
<1>2. QED
  BY <1>1, IInvImplies, PTL
=============================================================================
