-------------------------- MODULE DocumentTreeTypes --------------------------
(***************************************************************************)
(* The type invariant of DocumentTree for every set of documents: a rename *)
(* of a directory leaves a tree, and a recursive delete is always inside   *)
(* the document that it deletes.                                           *)
(***************************************************************************)
EXTENDS DocumentTreeProofs

-----------------------------------------------------------------------------
(* Documents under one another *)

LEMMA PathIsSeq ==
  ASSUME NEW p \in Paths
  PROVE  p \in Seq(Names) /\ Len(p) \in Nat /\ Len(p) > 0
BY ParentLength, TreeAssumption

LEMMA ParentElements ==
  ASSUME NEW p \in Paths
  PROVE  /\ Parent(p) \in Seq(Names)
         /\ \A i \in 1 .. Len(p) - 1 : Parent(p)[i] = p[i]
<1> DEFINE n == Len(p)
<1>1. n \in Nat /\ n > 0 /\ \A i \in 1 .. n : p[i] \in Names
  BY PathIsSeq, ElementOfSeq
<1> HIDE DEF n
<1>2. 1 \in Int /\ n - 1 \in Int /\ \A i \in 1 .. n - 1 : p[i] \in Names
  BY <1>1
<1>3. /\ SubSeq(p, 1, n - 1) \in Seq(Names)
      /\ \A i \in 1 .. (n - 1) - 1 + 1 : SubSeq(p, 1, n - 1)[i] = p[1 + i - 1]
  BY <1>2, SubSeqProperties
<1>4. \A i \in 1 .. n - 1 : SubSeq(p, 1, n - 1)[i] = p[i]
  BY <1>1, <1>3
<1>5. QED
  BY <1>3, <1>4 DEF Parent, n

(* What is under a directory begins as the directory does. *)
LEMMA UnderMeans ==
  ASSUME NEW p \in Paths, NEW d \in Paths
  PROVE  p \in Under(d) <=> Len(p) > Len(d) /\ \A i \in 1 .. Len(d) : p[i] = d[i]
<1> DEFINE n == Len(p)
           m == Len(d)
           s == SubSeq(p, 1, m)
<1>1. n \in Nat /\ m \in Nat /\ m > 0 /\ d \in Seq(Names) /\ \A i \in 1 .. n : p[i] \in Names
  BY PathIsSeq, ElementOfSeq
<1>2. ASSUME n > m
      PROVE  s = d <=> \A i \in 1 .. m : p[i] = d[i]
  <2> HIDE DEF n, m
  <2>1. 1 \in Int /\ m \in Int /\ \A i \in 1 .. m : p[i] \in Names
    BY <1>1, <1>2
  <2>2. s \in Seq(Names) /\ Len(s) = (IF 1 <= m THEN m - 1 + 1 ELSE 0)
        /\ \A i \in 1 .. m - 1 + 1 : s[i] = p[1 + i - 1]
    BY <2>1, SubSeqProperties
  <2>3. Len(s) = m /\ \A i \in 1 .. m : s[i] = p[i]
    BY <1>1, <2>2
  <2> HIDE DEF s
  <2>4. (\A i \in 1 .. m : p[i] = d[i]) => s = d
    <3>1. Len(s) = Len(d)
      BY <2>3 DEF m
    <3>2. ASSUME \A i \in 1 .. m : p[i] = d[i]
          PROVE  \A i \in 1 .. Len(s) : s[i] = d[i]
      BY <2>3, <3>2
    <3>3. QED
      BY <1>1, <2>2, <3>1, <3>2, SeqEqual
  <2>5. QED
    BY <2>3, <2>4
<1>3. QED
  BY <1>2 DEF Under

(* What is in a directory is under it, and so is what is in that. *)
LEMMA InIsUnder ==
  ASSUME NEW p \in Paths, NEW d \in Paths, Parent(p) \in {d} \cup Under(d)
  PROVE  p \in Under(d)
<1>1. CASE Parent(p) = d
  BY <1>1, ChildIsUnder
<1>2. CASE Parent(p) \in Under(d)
  <2>1. Parent(p) \in Paths
    BY <1>2 DEF Under
  <2>2. Len(Parent(p)) > Len(d) /\ \A i \in 1 .. Len(d) : Parent(p)[i] = d[i]
    BY <1>2, <2>1, UnderMeans
  <2>3. Len(p) > Len(d) /\ \A i \in 1 .. Len(d) : p[i] = d[i]
    BY <2>2, ParentLength, PathIsSeq, ParentElements
  <2>4. QED
    BY <2>3, UnderMeans
<1>3. QED
  BY <1>1, <1>2

LEMMA UnderIsIn ==
  ASSUME NEW p \in Paths, NEW d \in Paths, p \in Under(d)
  PROVE  Parent(p) \in Paths /\ Parent(p) \in {d} \cup Under(d)
<1>1. Len(p) > Len(d) /\ \A i \in 1 .. Len(d) : p[i] = d[i]
  BY UnderMeans
<1>2. /\ Len(p) \in Nat /\ Len(d) \in Nat /\ Len(d) > 0 /\ Len(Parent(p)) = Len(p) - 1
      /\ d \in Seq(Names) /\ Parent(p) \in Seq(Names)
  BY ParentLength, ParentElements, PathIsSeq
<1>3. \A i \in 1 .. Len(d) : Parent(p)[i] = d[i]
  BY <1>1, <1>2, ParentElements
<1>4. Parent(p) \in Paths
  <2>1. Parent(p) # Root
    BY <1>1, <1>2 DEF Root
  <2>2. QED
    BY <2>1, TreeAssumption
<1>5. CASE Len(Parent(p)) = Len(d)
  BY <1>2, <1>3, <1>4, <1>5, SeqEqual
<1>6. CASE Len(Parent(p)) # Len(d)
  BY <1>1, <1>2, <1>3, <1>4, <1>6, UnderMeans
<1>7. QED
  BY <1>4, <1>5, <1>6

(* The document that comes to p when u becomes v. *)
LEMMA SourceFacts ==
  ASSUME NEW u \in Paths, NEW v \in Paths, NEW p \in Under(v)
  PROVE  /\ Source(u, v, p) \in Seq(Names)
         /\ Len(Source(u, v, p)) = Len(u) + (Len(p) - Len(v))
         /\ \A i \in 1 .. Len(u) : Source(u, v, p)[i] = u[i]
         /\ \A i \in 1 .. Len(p) - Len(v) : Source(u, v, p)[Len(u) + i] = p[Len(v) + i]
<1> DEFINE n == Len(p)
           m == Len(v)
           k == Len(u)
           s == SubSeq(p, m + 1, n)
<1>1. /\ n \in Nat /\ m \in Nat /\ k \in Nat /\ n > m
      /\ u \in Seq(Names) /\ \A i \in 1 .. n : p[i] \in Names
  <2>1. p \in Paths
    BY DEF Under
  <2>2. QED
    BY <2>1, PathIsSeq, ElementOfSeq DEF Under
<1>2. s \in Seq(Names) /\ Len(s) = n - m /\ \A i \in 1 .. n - m : s[i] = p[m + i]
  <2> HIDE DEF n, m
  <2>1. m + 1 \in Int /\ n \in Int /\ \A i \in m + 1 .. n : p[i] \in Names
    BY <1>1
  <2>2. /\ s \in Seq(Names) /\ Len(s) = (IF m + 1 <= n THEN n - (m + 1) + 1 ELSE 0)
        /\ \A i \in 1 .. n - (m + 1) + 1 : s[i] = p[(m + 1) + i - 1]
    BY <2>1, SubSeqProperties
  <2>3. QED
    BY <1>1, <2>2
<1> HIDE DEF s
<1>3. /\ u \o s \in Seq(Names)
      /\ Len(u \o s) = k + Len(s)
      /\ \A i \in 1 .. k + Len(s) : (u \o s)[i] = IF i <= k THEN u[i] ELSE s[i - k]
  BY <1>1, <1>2, ConcatProperties
<1>4. Source(u, v, p) = u \o s
  BY DEF Source, s
<1>5. QED
  <2> HIDE DEF n, m, k
  <2>1. \A i \in 1 .. k : (u \o s)[i] = u[i]
    BY <1>1, <1>2, <1>3
  <2>2. \A i \in 1 .. n - m : (u \o s)[k + i] = p[m + i]
    <3> SUFFICES ASSUME NEW i \in 1 .. n - m PROVE (u \o s)[k + i] = p[m + i]
      OBVIOUS
    <3>1. k + i \in 1 .. k + Len(s) /\ ~ (k + i <= k) /\ (k + i) - k = i
      BY <1>1, <1>2
    <3>2. QED
      BY <1>2, <1>3, <3>1
  <2>3. QED
    BY <1>2, <1>3, <1>4, <2>1, <2>2 DEF n, m, k

(* It is under u, and comes to p by the same name; so do their parents. *)
LEMMA SourceIsUnder ==
  ASSUME NEW u \in Paths, NEW v \in Paths, NEW p \in Under(v), Source(u, v, p) \in Paths
  PROVE  /\ Source(u, v, p) \in Under(u)
         /\ Source(v, u, Source(u, v, p)) = p
         /\ Parent(p) = v => Parent(Source(u, v, p)) = u
         /\ Parent(p) \in Under(v) => Source(u, v, Parent(p)) = Parent(Source(u, v, p))
<1> DEFINE q == Source(u, v, p)
           n == Len(p)
           m == Len(v)
           k == Len(u)
<1>a. p \in Paths /\ q \in Paths
  BY DEF Under
<1>1. /\ n \in Nat /\ m \in Nat /\ k \in Nat /\ m > 0 /\ k > 0 /\ n > m
      /\ p \in Seq(Names) /\ u \in Seq(Names) /\ v \in Seq(Names)
      /\ \A i \in 1 .. m : p[i] = v[i]
  BY <1>a, PathIsSeq, UnderMeans
<1>2. /\ q \in Seq(Names) /\ Len(q) = k + (n - m)
      /\ \A i \in 1 .. k : q[i] = u[i]
      /\ \A i \in 1 .. n - m : q[k + i] = p[m + i]
  BY SourceFacts
<1>3. q \in Under(u)
  <2> HIDE DEF q
  <2>1. Len(q) > Len(u)
    <3> HIDE DEF n, m
    <3>1. Len(q) > k
      BY <1>1, <1>2
    <3>2. QED
      BY <3>1 DEF k
  <2>2. QED
    BY <1>a, <1>2, <2>1, UnderMeans
<1>4. /\ Source(v, u, q) \in Seq(Names) /\ Len(Source(v, u, q)) = m + (Len(q) - k)
      /\ \A i \in 1 .. m : Source(v, u, q)[i] = v[i]
      /\ \A i \in 1 .. Len(q) - k : Source(v, u, q)[m + i] = q[k + i]
  <2> HIDE DEF q
  <2>1. QED
    BY <1>3, SourceFacts
<1>5. Source(v, u, q) = p
  <2> DEFINE r == Source(v, u, q)
  <2> HIDE DEF q, n, m, k, r
  <2>1. r \in Seq(Names) /\ Len(r) = n
    BY <1>1, <1>2, <1>4 DEF r
  <2>2. ASSUME NEW i \in 1 .. n PROVE r[i] = p[i]
    <3>1. CASE i <= m
      BY <1>1, <1>4, <3>1 DEF r
    <3>2. CASE i > m
      <4>1. i - m \in 1 .. n - m /\ m + (i - m) = i /\ Len(q) - k = n - m
        BY <1>1, <1>2, <3>2
      <4>2. r[m + (i - m)] = q[k + (i - m)] /\ q[k + (i - m)] = p[m + (i - m)]
        BY <1>2, <1>4, <4>1 DEF r
      <4>3. QED
        BY <4>1, <4>2
    <3>3. QED
      BY <1>1, <3>1, <3>2
  <2>3. Len(r) = Len(p) /\ \A i \in 1 .. Len(r) : r[i] = p[i]
    BY <2>1, <2>2 DEF n
  <2>4. QED
    BY <1>1, <2>1, <2>3, SeqEqual DEF r
<1>6. /\ Parent(q) \in Seq(Names) /\ Len(Parent(q)) = k + (n - m) - 1
      /\ \A i \in 1 .. k + (n - m) - 1 : Parent(q)[i] = q[i]
      /\ Parent(p) \in Seq(Names) /\ Len(Parent(p)) = n - 1
      /\ \A i \in 1 .. n - 1 : Parent(p)[i] = p[i]
  <2> HIDE DEF q
  <2>1. /\ Parent(q) \in Seq(Names) /\ Len(Parent(q)) = Len(q) - 1
        /\ \A i \in 1 .. Len(q) - 1 : Parent(q)[i] = q[i]
    BY <1>a, ParentElements, ParentLength
  <2>2. /\ Parent(p) \in Seq(Names) /\ Len(Parent(p)) = n - 1
        /\ \A i \in 1 .. n - 1 : Parent(p)[i] = p[i]
    BY <1>a, ParentElements, ParentLength
  <2> HIDE DEF n, m, k
  <2>3. QED
    BY <1>1, <1>2, <2>1, <2>2
<1>7. ASSUME Parent(p) = v PROVE Parent(q) = u
  <2> HIDE DEF q
  <2>1. n - m = 1 /\ Len(Parent(q)) = Len(u)
    <3>1. m = n - 1
      BY <1>6, <1>7
    <3> HIDE DEF n, m
    <3>2. n - m = 1
      BY <1>1, <3>1
    <3>3. Len(Parent(q)) = k
      BY <1>1, <1>6, <3>2
    <3>4. QED
      BY <3>2, <3>3
  <2>2. \A i \in 1 .. Len(Parent(q)) : Parent(q)[i] = u[i]
    BY <1>1, <1>2, <1>6, <2>1
  <2>3. QED
    BY <1>1, <1>6, <2>1, <2>2, SeqEqual
<1>8. ASSUME Parent(p) \in Under(v) PROVE Source(u, v, Parent(p)) = Parent(q)
  <2> DEFINE r == Source(u, v, Parent(p))
  <2>1. /\ r \in Seq(Names) /\ Len(r) = k + (n - 1 - m)
        /\ \A i \in 1 .. k : r[i] = u[i]
        /\ \A i \in 1 .. n - 1 - m : r[k + i] = Parent(p)[m + i]
    <3> HIDE DEF n, m
    <3>1. /\ r \in Seq(Names) /\ Len(r) = Len(u) + (Len(Parent(p)) - Len(v))
          /\ \A i \in 1 .. Len(u) : r[i] = u[i]
          /\ \A i \in 1 .. Len(Parent(p)) - Len(v) : r[Len(u) + i] = Parent(p)[Len(v) + i]
      BY <1>8, SourceFacts
    <3>2. QED
      BY <1>6, <3>1 DEF m
  <2>2. n - 1 > m
    <3>1. Parent(p) \in Paths
      BY <1>8 DEF Under
    <3>2. Len(Parent(p)) > m
      BY <1>8, <3>1, UnderMeans
    <3>3. QED
      BY <1>6, <3>2
  <2> HIDE DEF q, n, m, k, r
  <2>3. Len(r) = Len(Parent(q))
    BY <1>1, <1>6, <2>1
  <2>4. ASSUME NEW i \in 1 .. k + (n - m) - 1 PROVE r[i] = Parent(q)[i]
    <3>1. CASE i <= k
      BY <1>1, <1>2, <1>6, <2>1, <3>1
    <3>2. CASE i > k
      <4>1. /\ i - k \in 1 .. n - 1 - m /\ i - k \in 1 .. n - m /\ k + (i - k) = i
            /\ m + (i - k) \in 1 .. n - 1
        BY <1>1, <2>2, <3>2
      <4>2. r[k + (i - k)] = Parent(p)[m + (i - k)] /\ Parent(p)[m + (i - k)] = p[m + (i - k)]
        BY <1>6, <2>1, <4>1
      <4>3. q[k + (i - k)] = p[m + (i - k)] /\ Parent(q)[i] = q[i]
        BY <1>2, <1>6, <4>1
      <4>4. QED
        BY <4>1, <4>2, <4>3
    <3>3. QED
      BY <1>1, <3>1, <3>2
  <2>5. \A i \in 1 .. Len(r) : r[i] = Parent(q)[i]
    BY <1>6, <2>3, <2>4
  <2>6. QED
    BY <1>6, <2>1, <2>3, <2>5, SeqEqual DEF r
<1>9. QED
  BY <1>3, <1>5, <1>7, <1>8

-----------------------------------------------------------------------------
(* A tree that is one stays one *)

Trees == {t \in [Paths -> Types \cup {"none"}] : Legal(t)}

LEMMA NewIsLegal ==
  ASSUME tree \in Trees, NEW p \in Paths, NEW type \in Types, CanCreate(p, type)
  PROVE  Created(p, type) \in Trees
<1> DEFINE t == Created(p, type)
<1>1. t \in [Paths -> Types \cup {"none"}] /\ t[p] = type /\ \A w \in Paths \ {p} : t[w] = tree[w]
  BY DEF Trees, Created
<1> HIDE DEF t
<1>2. \A w \in Paths : t[w] = "dir" => w \in Dirs
  BY <1>1 DEF Trees, Legal, CanCreate, Types
<1>3. ASSUME NEW w \in Paths, t[w] # "none", Parent(w) # Root
      PROVE  t[Parent(w)] = "dir"
  <2>1. Parent(w) \in Paths /\ Parent(w) # w
    BY <1>3, ParentFacts DEF Uris
  <2>2. CASE w = p
    BY <1>1, <1>3, <2>1, <2>2 DEF CanCreate, TypeOfUri
  <2>3. CASE w # p
    <3>1. tree[Parent(w)] = "dir"
      BY <1>1, <1>3, <2>3 DEF Trees, Legal
    <3>2. Parent(w) # p
      BY <3>1 DEF CanCreate
    <3>3. QED
      BY <1>1, <2>1, <3>1, <3>2
  <2>4. QED
    BY <2>2, <2>3
<1>4. QED
  BY <1>1, <1>2, <1>3 DEF Trees, Legal, t

LEMMA LessIsLegal ==
  ASSUME tree \in Trees, NEW p \in Paths, tree[p] = "file" \/ ChildrenOf(p) = {}
  PROVE  Removed(p) \in Trees
<1> DEFINE t == Removed(p)
<1>1. t \in [Paths -> Types \cup {"none"}] /\ t[p] = "none" /\ \A w \in Paths \ {p} : t[w] = tree[w]
  BY DEF Trees, Removed
<1> HIDE DEF t
<1>2. ASSUME NEW w \in Paths, t[w] # "none", Parent(w) # Root
      PROVE  t[Parent(w)] = "dir"
  <2>1. w # p /\ Parent(w) \in Paths
    BY <1>1, <1>2, ParentFacts DEF Uris
  <2>2. tree[w] # "none" /\ tree[Parent(w)] = "dir"
    BY <1>1, <1>2, <2>1 DEF Trees, Legal
  <2>3. Parent(w) # p
    BY <2>2 DEF ChildrenOf
  <2>4. QED
    BY <1>1, <2>1, <2>2, <2>3
<1>3. QED
  BY <1>1, <1>2 DEF Trees, Legal, t

LEMMA MovedIsLegal ==
  ASSUME tree \in Trees, NEW u \in Paths, NEW v \in Paths, CanRename(u, v)
  PROVE  Renamed(u, v) \in Trees
<1> DEFINE t == Renamed(u, v)
<1>1. t \in [Paths -> Types \cup {"none"}]
  BY DEF Trees, Renamed
<1>2. t[v] = tree[u]
  BY DEF Renamed
<1>3. ASSUME NEW p \in Under(v), p # v
      PROVE  t[p] = IF Source(u, v, p) \in Paths THEN tree[Source(u, v, p)] ELSE "none"
  BY <1>3 DEF Renamed, Under
<1>4. ASSUME NEW p \in Paths, p # v, p \notin Under(v)
      PROVE  t[p] = IF p \in {u} \cup Under(u) THEN "none" ELSE tree[p]
  BY <1>4 DEF Renamed
<1>5. v \notin Under(v) /\ u \notin Under(u)
  BY PathIsSeq DEF Under
<1>6. v # u => v \notin {u} \cup Under(u)
  BY DEF CanRename
<1> HIDE DEF t
<1>7. ASSUME NEW p \in Paths, t[p] = "dir"
      PROVE  p \in Dirs
  <2>1. CASE p = v
    BY <1>2, <1>7, <2>1 DEF CanRename
  <2>2. CASE p \in Under(v)
    <3>1. Source(u, v, p) \in Paths /\ tree[Source(u, v, p)] = "dir"
      BY <1>3, <1>5, <1>7, <2>2
    <3>2. Source(u, v, p) \in Under(u) /\ Source(v, u, Source(u, v, p)) = p
      BY <2>2, <3>1, SourceIsUnder
    <3>3. \A w \in Under(u) : tree[w] # "none" =>
             Source(v, u, w) \in IF tree[w] = "dir" THEN Dirs ELSE Paths
      BY DEF CanRename
    <3>4. QED
      BY <3>1, <3>2, <3>3
  <2>3. CASE p # v /\ p \notin Under(v)
    BY <1>4, <1>7, <2>3 DEF Trees, Legal
  <2>4. QED
    BY <2>1, <2>2, <2>3
<1>8. ASSUME NEW p \in Paths, t[p] # "none", Parent(p) # Root
      PROVE  t[Parent(p)] = "dir"
  <2>1. Parent(p) \in Paths /\ Parent(p) # p
    BY <1>8, ParentFacts DEF Uris
  <2>2. ASSUME Parent(p) \notin {v} \cup Under(v), Parent(p) \notin {u} \cup Under(u),
               tree[Parent(p)] = "dir"
        PROVE  t[Parent(p)] = "dir"
    BY <1>4, <2>1, <2>2
  <2>3. CASE p = v
    <3>1. tree[Parent(v)] = "dir"
      BY <1>8, <2>3 DEF CanRename, TypeOfUri
    <3>2. Parent(v) \notin {v} \cup Under(v)
      BY <1>5, <2>1, <2>3, InIsUnder
    <3>3. Parent(v) \notin {u} \cup Under(u)
      BY InIsUnder DEF CanRename
    <3>4. QED
      BY <2>2, <2>3, <3>1, <3>2, <3>3
  <2>4. CASE p \in Under(v)
    <3> DEFINE q == Source(u, v, p)
    <3>1. q \in Paths /\ tree[q] # "none"
      BY <1>3, <1>5, <1>8, <2>4
    <3>2. q \in Under(u) /\ (Parent(p) = v => Parent(q) = u)
          /\ (Parent(p) \in Under(v) => Source(u, v, Parent(p)) = Parent(q))
      BY <2>4, <3>1, SourceIsUnder
    <3> HIDE DEF q
    <3>3. Parent(q) \in Paths
      BY <3>1, <3>2, UnderIsIn
    <3>4. tree[Parent(q)] = "dir"
      <4>1. Parent(q) # Root
        BY <3>3, TreeAssumption
      <4>2. QED
        BY <3>1, <4>1 DEF Trees, Legal
    <3>5. Parent(p) \in {v} \cup Under(v)
      BY <2>4, UnderIsIn
    <3>6. CASE Parent(p) = v
      BY <1>2, <3>2, <3>4, <3>6
    <3>7. CASE Parent(p) \in Under(v)
      BY <1>3, <1>5, <3>2, <3>3, <3>4, <3>7
    <3>8. QED
      BY <3>5, <3>6, <3>7
  <2>5. CASE p # v /\ p \notin Under(v)
    <3>1. p \notin {u} \cup Under(u) /\ tree[p] # "none"
      BY <1>4, <1>8, <2>5
    <3>2. tree[Parent(p)] = "dir"
      BY <1>8, <3>1 DEF Trees, Legal
    <3>3. Parent(p) \notin {v} \cup Under(v) /\ Parent(p) \notin {u} \cup Under(u)
      BY <2>5, <3>1, InIsUnder
    <3>4. QED
      BY <2>2, <3>2, <3>3
  <2>6. QED
    BY <2>3, <2>4, <2>5
<1>9. QED
  BY <1>1, <1>7, <1>8 DEF Trees, Legal, t

-----------------------------------------------------------------------------
(* The frames of a recursive delete *)

(* Each folder is in the one before, and so is what is left to do in it. *)
Nested ==
  /\ deleting # <<>> => doomed = deleting[1].dir
  /\ \A i \in 2 .. Len(deleting) : Parent(deleting[i].dir) = deleting[i - 1].dir
  /\ \A i \in 1 .. Len(deleting) : deleting[i].todo # None =>
       \A child \in deleting[i].todo : Parent(child.path) = deleting[i].dir

Tidy ==
  /\ tree \in Trees /\ Nested /\ writing \subseteq Paths /\ seen \subseteq Paths
  /\ carried \in BOOLEAN

LEMMA TypesFollow == IInv /\ Tidy => TypeOK
BY DEF IInv, Typed, Remembered, Tidy, Trees, Nested, TypeOK, Caches

LEMMA NestedIfEmpty == ASSUME deleting' = <<>> PROVE Nested'
BY DEF Nested

(* The last frame changes in what is left to do. *)
LEMMA WithTopNested ==
  ASSUME Typed, Nested, deleting # <<>>, NEW todo, [Top EXCEPT !.todo = todo] \in Frames,
         todo # None => \A child \in todo : Parent(child.path) = Top.dir,
         deleting' = WithTop([Top EXCEPT !.todo = todo]), doomed' = doomed
  PROVE  Nested'
<1> DEFINE n == Len(deleting)
           frame == [Top EXCEPT !.todo = todo]
<1>1. deleting \in Seq(Frames) /\ n \in Nat /\ n > 0
  BY DEF Typed
<1>2. Top \in Frames /\ \A i \in 1 .. n : deleting[i] \in Frames
  BY <1>1, ElementOfSeq DEF Top
<1>3. frame.dir = Top.dir /\ frame.todo = todo
  BY <1>2 DEF Frames
<1> HIDE DEF frame
<1>4. /\ deleting' \in Seq(Frames) /\ Len(deleting') = n
      /\ \A i \in 1 .. n : deleting'[i] = IF i = n THEN frame ELSE deleting[i]
  BY <1>1, ExceptSeq DEF WithTop, frame
<1>5. \A i \in 1 .. n : deleting'[i].dir = deleting[i].dir
  BY <1>3, <1>4 DEF Top
<1> HIDE DEF n
<1>6. deleting' # <<>> /\ doomed' = deleting'[1].dir
  <2>1. deleting' # <<>>
    BY <1>1, <1>4
  <2>2. doomed = deleting[1].dir
    BY DEF Nested
  <2>3. 1 \in 1 .. n
    BY <1>1
  <2>4. QED
    BY <1>5, <2>1, <2>2, <2>3
<1>7. \A i \in 2 .. Len(deleting') : Parent(deleting'[i].dir) = deleting'[i - 1].dir
  <2>1. \A i \in 2 .. n : i \in 1 .. n /\ i - 1 \in 1 .. n /\ Parent(deleting[i].dir) = deleting[i - 1].dir
    BY <1>1 DEF Nested, n
  <2>2. QED
    BY <1>4, <1>5, <2>1
<1>8. ASSUME NEW i \in 1 .. Len(deleting'), deleting'[i].todo # None,
             NEW child \in deleting'[i].todo
      PROVE  Parent(child.path) = deleting'[i].dir
  <2>1. CASE i = n
    BY <1>1, <1>3, <1>4, <1>8, <2>1
  <2>2. CASE i # n
    BY <1>1, <1>4, <1>8, <2>2 DEF Nested, n
  <2>3. QED
    BY <2>1, <2>2
<1>9. QED
  BY <1>6, <1>7, <1>8 DEF Nested

(* A folder in the last frame gets one of its own. *)
LEMMA DescendNested ==
  ASSUME Typed, Nested, deleting # <<>>, Top.todo # None, NEW child \in Top.todo,
         NEW todo, todo \subseteq Top.todo, [Top EXCEPT !.todo = todo] \in Frames,
         deleting' = Append(WithTop([Top EXCEPT !.todo = todo]), Frame(child.path)),
         doomed' = doomed
  PROVE  Nested'
<1> DEFINE n == Len(deleting)
           frame == [Top EXCEPT !.todo = todo]
           s == WithTop(frame)
<1>1. deleting \in Seq(Frames) /\ n \in Nat /\ n > 0
  BY DEF Typed
<1>2. Top = deleting[n] /\ Top \in Frames /\ \A i \in 1 .. n : deleting[i] \in Frames
  BY <1>1, ElementOfSeq DEF Top
<1>3. frame.dir = Top.dir /\ frame.todo = todo
  BY <1>2 DEF Frames
<1> HIDE DEF frame
<1>4. /\ s \in Seq(Frames) /\ Len(s) = n
      /\ \A i \in 1 .. n : s[i] = IF i = n THEN frame ELSE deleting[i]
  BY <1>1, ExceptSeq DEF WithTop, frame
<1>5. deleting' = Append(s, Frame(child.path))
  BY DEF frame
<1> HIDE DEF s
<1>6. /\ Len(deleting') = n + 1
      /\ \A i \in 1 .. n : deleting'[i] = s[i]
      /\ deleting'[n + 1] = Frame(child.path)
  <2> DEFINE f == Frame(child.path)
  <2>1. s \in Seq(Frames \cup {f}) /\ f \in Frames \cup {f}
    BY <1>4
  <2> HIDE DEF n, f
  <2>2. /\ Len(Append(s, f)) = Len(s) + 1
        /\ \A i \in 1 .. Len(s) : Append(s, f)[i] = s[i]
        /\ Append(s, f)[Len(s) + 1] = f
    BY <2>1, AppendProperties
  <2>3. deleting' = Append(s, f) /\ Len(s) = n
    BY <1>4, <1>5 DEF f
  <2>4. QED
    BY <2>2, <2>3 DEF f
<1>7. \A i \in 1 .. n : deleting'[i].dir = deleting[i].dir
  BY <1>2, <1>3, <1>4, <1>6
<1>8. Parent(child.path) = Top.dir
  BY <1>1, <1>2 DEF Nested
<1>9. deleting'[n + 1].dir = child.path /\ deleting'[n + 1].todo = None
  BY <1>6 DEF Frame
<1> HIDE DEF n
<1>10. deleting' # <<>> /\ doomed' = deleting'[1].dir
  BY <1>1, <1>6, <1>7 DEF Nested, n
<1>11. ASSUME NEW i \in 2 .. Len(deleting')
       PROVE  Parent(deleting'[i].dir) = deleting'[i - 1].dir
  <2>1. CASE i = n + 1
    <3>1. i - 1 = n /\ n \in 1 .. n
      BY <1>1, <2>1
    <3>2. deleting'[n].dir = Top.dir
      BY <1>2, <1>7, <3>1
    <3>3. QED
      BY <1>8, <1>9, <2>1, <3>1, <3>2
  <2>2. CASE i # n + 1
    <3>1. i \in 2 .. n /\ i \in 1 .. n /\ i - 1 \in 1 .. n
      BY <1>1, <1>6, <2>2
    <3>2. Parent(deleting[i].dir) = deleting[i - 1].dir
      BY <3>1 DEF Nested, n
    <3>3. QED
      BY <1>7, <3>1, <3>2
  <2>3. QED
    BY <2>1, <2>2
<1>12. ASSUME NEW i \in 1 .. Len(deleting'), deleting'[i].todo # None,
              NEW c \in deleting'[i].todo
       PROVE  Parent(c.path) = deleting'[i].dir
  <2>1. i \in 1 .. n
    BY <1>1, <1>6, <1>9, <1>12
  <2>2. deleting'[i].todo \subseteq deleting[i].todo /\ deleting[i].todo # None
    BY <1>2, <1>3, <1>4, <1>6, <1>12, <2>1
  <2>3. Parent(c.path) = deleting[i].dir
    BY <1>12, <2>1, <2>2 DEF Nested, n
  <2>4. QED
    BY <1>7, <2>1, <2>3
<1>13. QED
  BY <1>10, <1>11, <1>12 DEF Nested

LEMMA PoppedNested ==
  ASSUME Typed, Nested, deleting # <<>>, Len(deleting) # 1,
         deleting' = Popped, doomed' = doomed
  PROVE  Nested'
<1> DEFINE n == Len(deleting)
<1>1. deleting \in Seq(Frames) /\ n \in Nat /\ n > 1 /\ \A i \in 1 .. n : deleting[i] \in Frames
  <2>1. deleting \in Seq(Frames)
    BY DEF Typed
  <2>2. n \in Nat \ {0} /\ n # 1
    BY <2>1, EmptySeq
  <2>3. \A i \in 1 .. n : deleting[i] \in Frames
    BY <2>1, ElementOfSeq
  <2> HIDE DEF n
  <2>4. QED
    BY <2>1, <2>2, <2>3
<1> HIDE DEF n
<1>2. Len(deleting') = n - 1 /\ \A i \in 1 .. n - 1 : deleting'[i] = deleting[i]
  <2>1. 1 \in Int /\ n - 1 \in Int /\ \A i \in 1 .. n - 1 : deleting[i] \in Frames
    BY <1>1
  <2>2. /\ Len(SubSeq(deleting, 1, n - 1)) = IF 1 <= n - 1 THEN (n - 1) - 1 + 1 ELSE 0
        /\ \A i \in 1 .. (n - 1) - 1 + 1 : SubSeq(deleting, 1, n - 1)[i] = deleting[1 + i - 1]
    BY <2>1, SubSeqProperties
  <2>3. deleting' = SubSeq(deleting, 1, n - 1)
    BY DEF Popped, n
  <2>4. QED
    BY <1>1, <2>2, <2>3
<1>3. deleting' # <<>> /\ doomed' = deleting'[1].dir
  BY <1>1, <1>2 DEF Nested, n
<1>4. ASSUME NEW i \in 2 .. Len(deleting')
      PROVE  Parent(deleting'[i].dir) = deleting'[i - 1].dir
  <2>1. i \in 2 .. n /\ i \in 1 .. n - 1 /\ i - 1 \in 1 .. n - 1
    BY <1>1, <1>2
  <2>2. QED
    BY <1>2, <2>1 DEF Nested, n
<1>5. ASSUME NEW i \in 1 .. Len(deleting'), deleting'[i].todo # None
      PROVE  \A child \in deleting'[i].todo : Parent(child.path) = deleting'[i].dir
  <2>1. i \in 1 .. n /\ i \in 1 .. n - 1
    BY <1>1, <1>2
  <2>2. QED
    BY <1>2, <1>5, <2>1 DEF Nested, n
<1>6. QED
  BY <1>3, <1>4, <1>5 DEF Nested

-----------------------------------------------------------------------------
(* Every step keeps it *)

LEMMA InitTidy == Init => Tidy
<1> SUFFICES ASSUME Init PROVE Tidy
  OBVIOUS
<1>1. deleting = <<>> /\ Len(deleting) = 0
  BY DEF Init
<1>2. Nested
  BY <1>1 DEF Nested
<1>3. QED
  BY <1>2 DEF Init, Tidy, Trees

(* What the server does to the tree and to what was seen of it. *)
LEMMA TreeBecomesTidy ==
  ASSUME NEW t \in Trees, NEW g, NEW k \in BOOLEAN, TreeBecomes(t, g, k), seen \subseteq Paths
  PROVE  tree' \in Trees /\ seen' \subseteq Paths /\ carried' \in BOOLEAN
<1>1. tree' = t /\ seen' \subseteq Paths /\ carried' \in BOOLEAN
  BY DEF TreeBecomes
<1>2. Legal(tree)' <=> Legal(tree')
  BY DEF Legal
<1>3. QED
  BY <1>1 DEF Trees

(* Steps that are not about folders being deleted. *)
LEMMA SameFramesNested == Nested /\ UNCHANGED <<deleting, doomed>> => Nested'
BY DEF Nested

LEMMA TidyNext == IInv /\ Tidy /\ [Next]_vars => Tidy'
<1> SUFFICES ASSUME IInv, Tidy, [Next]_vars PROVE Tidy'
  OBVIOUS
<1>a. /\ tree \in Trees /\ Nested /\ writing \subseteq Paths /\ seen \subseteq Paths
      /\ carried \in BOOLEAN /\ Typed
  BY DEF Tidy, IInv
<1>1. ASSUME NEW u \in Paths, QueryDocument(u) PROVE Tidy'
  BY <1>1, <1>a, SameFramesNested DEF QueryDocument, Tidy, Trees
<1>2. ASSUME NEW u \in Uris, QueryChildDocuments(u) PROVE Tidy'
  BY <1>2, <1>a, SameFramesNested DEF QueryChildDocuments, Tidy, Trees
<1>3. ASSUME NEW u \in Paths, NEW type \in Types, CreateDocument(u, type) PROVE Tidy'
  BY <1>3, <1>a, SameFramesNested, NewIsLegal, TreeBecomesTidy
    DEF CreateDocument, CreateRequest, Tidy
<1>4. ASSUME NEW u \in Paths, NEW v \in Paths, RenameDocument(u, v) \/ MoveDocument(u, v)
      PROVE  Tidy'
  <2> DEFINE brought == carried \/ Brings(u, v)
  <2>1. brought \in BOOLEAN
    OBVIOUS
  <2>2. /\ CanRename(u, v) /\ TreeBecomes(Renamed(u, v), gone, brought)
        /\ UNCHANGED <<deleting, doomed, writing>>
    BY <1>4 DEF RenameDocument, MoveDocument, Rename, RenameRequest
  <2> HIDE DEF brought
  <2>3. QED
    BY <1>a, <2>1, <2>2, SameFramesNested, MovedIsLegal, TreeBecomesTidy DEF Tidy
<1>5. ASSUME NEW u \in Paths, OpenForWriting(u) PROVE Tidy'
  BY <1>5, <1>a, SameFramesNested DEF OpenForWriting, Tidy, Trees
<1>6. ASSUME NEW u \in Paths, WriteEnds(u) PROVE Tidy'
  BY <1>6, <1>a, SameFramesNested DEF WriteEnds, Tidy, Trees
<1>7. ASSUME NEW u \in Paths, DeleteDocument(u) PROVE Tidy'
  <2>1. CASE tree[u] = "dir"
    <3>1. deleting' = <<Frame(u)>> /\ doomed' = u
      BY <1>7, <2>1 DEF DeleteDocument
    <3>2. Len(deleting') = 1 /\ deleting'[1].dir = u /\ deleting'[1].todo = None
      BY <3>1 DEF Frame
    <3>3. Nested'
      BY <3>1, <3>2 DEF Nested
    <3>4. QED
      BY <1>7, <1>a, <3>3 DEF DeleteDocument, Tidy, Trees
  <2>2. CASE tree[u] # "dir"
    <3>1. deleting' = <<>>
      BY <1>7, <2>2 DEF DeleteDocument
    <3>2. Len(deleting') = 0
      BY <3>1
    <3>3. Nested'
      BY <3>1, <3>2 DEF Nested
    <3>4. QED
      BY <1>7, <1>a, <3>3 DEF DeleteDocument, Tidy, Trees
  <2>3. QED
    BY <2>1, <2>2
<1>8. ASSUME NEW u \in Paths, DeleteNothing(u) PROVE Tidy'
  BY <1>8, <1>a, SameFramesNested DEF DeleteNothing, Tidy, Trees
<1>9. CASE DeleteDoomedFile
  <2>1. Nested'
    BY <1>9, NestedIfEmpty DEF DeleteDoomedFile, Ended
  <2>2. doomed \in Paths
    BY <1>9, <1>a DEF DeleteDoomedFile, Typed
  <2>3. QED
    BY <1>9, <1>a, <2>1, <2>2, LessIsLegal, TreeBecomesTidy
      DEF DeleteDoomedFile, DeleteFile, Unlink, Tidy
<1>10. CASE LoadFolder
  <2> DEFINE todo == {[path |-> p, type |-> tree[p]] : p \in ChildrenOf(Top.dir)}
  <2>1. todo \in SUBSET [path : Paths, type : Types]
    BY DEF IInv, Typed, ChildrenOf
  <2>2. \A child \in todo : Parent(child.path) = Top.dir
    BY DEF ChildrenOf
  <2>3. Top \in Frames /\ deleting # <<>>
    BY <1>10, FrameFacts DEF LoadFolder
  <2>4. deleting' = WithTop([Top EXCEPT !.todo = todo]) /\ doomed' = doomed
    BY <1>10 DEF LoadFolder
  <2> HIDE DEF todo
  <2>5. [Top EXCEPT !.todo = todo] \in Frames
    BY <2>1, <2>3 DEF Frames
  <2>6. Nested'
    BY <1>a, <2>2, <2>3, <2>4, <2>5, WithTopNested
  <2>7. QED
    BY <1>10, <1>a, <2>6 DEF LoadFolder, Tidy, Trees
<1>11. CASE RemoveFolder
  <2>1. Top.dir \in Paths
    BY <1>11, FrameFacts DEF RemoveFolder, Frames
  <2>2. Nested'
    <3>1. CASE Len(deleting) = 1
      BY <1>11, <3>1, NestedIfEmpty DEF RemoveFolder, Ended
    <3>2. CASE Len(deleting) # 1
      BY <1>11, <1>a, <3>2, PoppedNested DEF RemoveFolder
    <3>3. QED
      BY <3>1, <3>2
  <2>3. QED
    BY <1>11, <1>a, <2>1, <2>2, LessIsLegal, TreeBecomesTidy DEF RemoveFolder, Rmdir, Tidy
<1>12. CASE NotFound
  BY <1>12, <1>a, NestedIfEmpty DEF NotFound, Ended, Tidy, Trees
<1>13. CASE DeleteFails
  BY <1>13, <1>a, NestedIfEmpty DEF DeleteFails, Ended, Tidy, Trees
<1>14. ASSUME NEW p \in Paths, NEW type \in Types, DeleteChild([path |-> p, type |-> type])
       PROVE  Tidy'
  <2> DEFINE child == [path |-> p, type |-> type]
             todo == Top.todo \ {child}
  <2>1. Top \in Frames /\ deleting # <<>> /\ Top.todo # None /\ child \in Top.todo
    BY <1>14, FrameFacts DEF DeleteChild
  <2>2. [Top EXCEPT !.todo = todo] \in Frames
    BY <2>1 DEF Frames
  <2>3. CASE type = "dir"
    <3>1. /\ deleting' = Append(WithTop([Top EXCEPT !.todo = todo]), Frame(child.path))
          /\ doomed' = doomed
          /\ UNCHANGED <<tree, carried, seen, writing>>
      BY <1>14, <2>3 DEF DeleteChild
    <3>2. todo \subseteq Top.todo
      OBVIOUS
    <3> HIDE DEF todo, child
    <3>3. Nested'
      BY <1>a, <2>1, <2>2, <3>1, <3>2, DescendNested
    <3>4. QED
      BY <1>a, <3>1, <3>3 DEF Tidy, Trees
  <2>4. CASE type # "dir"
    <3>1. /\ deleting' = WithTop([Top EXCEPT !.todo = todo])
          /\ DeleteFile(p) /\ UNCHANGED <<doomed, writing>>
      BY <1>14, <2>4 DEF DeleteChild
    <3>2. \A c \in todo : Parent(c.path) = Top.dir
      <4> DEFINE n == Len(deleting)
      <4>1. n \in 1 .. n
        BY <1>a, <2>1, EmptySeq DEF Typed
      <4>2. QED
        BY <1>a, <2>1, <4>1 DEF Nested, Top
    <3> HIDE DEF todo
    <3>3. Nested'
      BY <1>a, <2>1, <2>2, <3>1, <3>2, WithTopNested
    <3>4. QED
      BY <1>a, <3>1, <3>3, LessIsLegal, TreeBecomesTidy DEF DeleteFile, Unlink, Tidy
  <2>5. QED
    BY <2>3, <2>4
<1>15. ASSUME NEW p \in Paths, NEW type \in Types, OthersCreate(p, type) PROVE Tidy'
  BY <1>15, <1>a, SameFramesNested, NewIsLegal, TreeBecomesTidy DEF OthersCreate, Tidy
<1>16. ASSUME NEW p \in Paths, OthersRemove(p) PROVE Tidy'
  BY <1>16, <1>a, SameFramesNested, LessIsLegal, TreeBecomesTidy DEF OthersRemove, Tidy
<1>17. CASE UNCHANGED vars
  BY <1>17, <1>a, SameFramesNested DEF vars, Tidy, Trees
<1>18. QED
  BY <1>1, <1>2, <1>3, <1>4, <1>5, <1>6, <1>7, <1>8, <1>9, <1>10, <1>11, <1>12,
     <1>13, <1>14, <1>15, <1>16, <1>17 DEF Next, Provider, Others

(***************************************************************************)
(* The documents, the cache and the recursive delete stay well formed, for *)
(* any names and any depth: directories that are renamed with all that is  *)
(* in them leave a tree, and each folder being deleted is in the one that  *)
(* is deleted around it.                                                   *)
(***************************************************************************)
THEOREM TypeCorrect == Spec => []TypeOK
<1>1. Init => IInv /\ Tidy
  BY InitIInv, InitTidy
<1>2. IInv /\ Tidy /\ [Next]_vars => (IInv /\ Tidy)'
  BY IInvNext, TidyNext
<1>3. Spec => [](IInv /\ Tidy)
  BY <1>1, <1>2, PTL DEF Spec
<1>4. QED
  BY <1>3, TypesFollow, PTL
=============================================================================
