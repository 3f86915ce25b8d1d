--------------------------- MODULE ReadSideProofs ----------------------------
(***************************************************************************)
(* Theorems about what users read, for every value of the constants: the   *)
(* pages of a query (EventsQuery) and the figures of the dashboard         *)
(* (DashboardReport).  The two have no variable in common; each part       *)
(* stands on its own.                                                      *)
(***************************************************************************)
EXTENDS EventsQuery, DashboardReport, FunctionTheorems, FiniteSetTheorems,
        SequenceTheorems, TLAPS

(***************************************************************************)
(* Pages of a query                                                        *)
(***************************************************************************)

\* The documents of M that sort before d, and those that sort like d.
Before(q, M, d) == {e \in M : IF q.asc THEN Key[e] < Key[d] ELSE Key[e] > Key[d]}
Like(M, d) == {e \in M : Key[e] = Key[d]}
Rank(q, M, d) == Cardinality(Before(q, M, d))

\* How many of the first p places of the order the documents like d fill.
Slots(q, M, d, p) ==
    LET a == Rank(q, M, d)
        c == Cardinality(Like(M, d))
    IN  IF p <= a THEN 0 ELSE IF p <= a + c THEN p - a ELSE c

Queries ==
    [phase : {"idle", "page", "done"}, page : Nat, limit : Nat \ {0},
     asc : BOOLEAN, from : Nat, found : BOOLEAN, items : SUBSET Mine,
     counted : BOOLEAN, total : 0..Cardinality(Mine)]

\* While a query is open its fields are in range; the total and the page never
\* exceed what the owner's documents allow.
QueryType ==
    /\ query \in Queries
    /\ query.phase = "page" => query.page >= 1
    /\ query.page <= 1 \/ query.page <= Cardinality(Mine)
    /\ Cardinality(query.items) <= query.limit
    /\ query.phase # "page" => ~query.found /\ ~query.counted
    /\ stored \subseteq Docs
    /\ start \subseteq Mine /\ ever \subseteq Mine
    /\ repeated \subseteq seen /\ seen \subseteq Mine

Flags == changed \in BOOLEAN /\ lossy \in BOOLEAN

\* What an open query knows while nothing is written: a group of documents
\* that sort alike, none of them repeated yet, fills its places up to skip().
StillInv ==
    ~changed =>
        /\ ever = start /\ seen \subseteq start
        /\ \A e \in repeated : \E d \in start \ {e} : Key[d] = Key[e]
        /\ query.phase = "page" =>
              /\ start = Matching(query, stored)
              /\ query.items \subseteq start
              /\ \A d \in start :
                    Like(start, d) \cap repeated = {} =>
                        Cardinality(seen \cap Like(start, d))
                            = Slots(query, start, d, Skip(query))
              /\ query.found =>
                    \A d \in start :
                        Cardinality(query.items \cap Like(start, d))
                            + Slots(query, start, d, Skip(query))
                            = Slots(query, start, d, Skip(query) + query.limit)
              /\ query.counted => query.total = Cardinality(start)
        /\ query.phase = "done" =>
              \A d \in start : Like(start, d) \cap repeated = {} => d \in seen

\* What an open query knows while batches land but nothing is lost: documents
\* of the first moment whose rank, which only grows, is below skip() were seen.
GrowingInv ==
    ~lossy /\ NoTies =>
        /\ query.phase = "page" =>
              /\ ever = Matching(query, stored) /\ start \subseteq ever
              /\ \A d \in start : Rank(query, ever, d) < Skip(query) => d \in seen
              /\ query.found =>
                    \A d \in start :
                        Rank(query, ever, d) < Skip(query) + query.limit =>
                            d \in seen \cup query.items
              /\ query.counted /\ ~query.found => query.total = Cardinality(ever)
              /\ query.found /\ query.counted
                    /\ query.page >= TotalPages(query.total, query.limit) =>
                        start \subseteq seen \cup query.items
        /\ query.phase = "done" => start \subseteq seen

-----------------------------------------------------------------------------
(* Places of a sorted sequence                                             *)

LEMMA SegmentPart ==
    ASSUME NEW n \in Nat, NEW P \in SUBSET (1..n)
    PROVE  IsFiniteSet(P) /\ Cardinality(P) \in Nat
  <1>1. IsFiniteSet(1..n)
    BY FS_Interval
  <1>2. IsFiniteSet(P)
    BY <1>1, FS_Subset
  <1> QED
    BY <1>2, FS_CardinalityType

\* A set of places that has every earlier place with each of its own is an
\* initial segment.
LEMMA InitialSegment ==
    ASSUME NEW n \in Nat, NEW P \in SUBSET (1..n),
           \A i \in P, j \in 1..n : j < i => j \in P
    PROVE  P = 1..Cardinality(P)
  <1>1. IsFiniteSet(P) /\ Cardinality(P) \in Nat
    BY SegmentPart
  <1>2. P \subseteq 1..Cardinality(P)
    <2> SUFFICES ASSUME NEW i \in P
                 PROVE  i \in 1..Cardinality(P)
      OBVIOUS
    <2>1. 1..i \in SUBSET P
      OBVIOUS
    <2>2. Cardinality(1..i) <= Cardinality(P)
      BY <1>1, <2>1, FS_Subset
    <2>3. Cardinality(1..i) = i
      BY FS_Interval
    <2> QED
      BY <1>1, <2>2, <2>3
  <1>3. /\ IsFiniteSet(1..Cardinality(P))
        /\ Cardinality(1..Cardinality(P)) = Cardinality(P)
    BY <1>1, FS_Interval
  <1> QED
    BY <1>1, <1>2, <1>3, FS_Subset

\* An enumeration without repetition reaches every element.
LEMMA Enumerated ==
    ASSUME NEW M, IsFiniteSet(M), NEW s \in SetToSeqs(M)
    PROVE  /\ s \in [1..Cardinality(M) -> M]
           /\ \A i, j \in 1..Cardinality(M) : s[i] = s[j] => i = j
           /\ \A d \in M : \E i \in 1..Cardinality(M) : s[i] = d
  <1>1. Cardinality(M) \in Nat
    BY FS_CardinalityType
  <1>2. /\ s \in [1..Cardinality(M) -> M]
        /\ \A i, j \in 1..Cardinality(M) : i # j => s[i] # s[j]
    BY DEF SetToSeqs
  <1>3. s \in Injection(1..Cardinality(M), M)
    BY <1>2 DEF Injection, IsInjective
  <1>4. Cardinality(1..Cardinality(M)) = Cardinality(M)
    BY <1>1, FS_Interval
  <1>5. s \in Surjection(1..Cardinality(M), M)
    BY <1>3, <1>4, FS_Injection
  <1> QED
    BY <1>2, <1>5 DEF Surjection

\* Sets in one-to-one correspondence are as large as each other.
LEMMA SameCount ==
    ASSUME NEW P, IsFiniteSet(P), NEW T, NEW f \in [P -> T],
           f \in Injection(P, T), f \in Surjection(P, T)
    PROVE  IsFiniteSet(T) /\ Cardinality(T) = Cardinality(P)
  <1>1. ExistsBijection(P, T)
    BY DEF ExistsBijection, Bijection
  <1> QED
    BY <1>1, FS_Bijection

\* The places of the elements of T are as many as T.
LEMMA PlacesCount ==
    ASSUME NEW M, IsFiniteSet(M), NEW s \in SetToSeqs(M), NEW T \in SUBSET M
    PROVE  Cardinality({i \in 1..Cardinality(M) : s[i] \in T}) = Cardinality(T)
  <1>1. Cardinality(M) \in Nat
    BY FS_CardinalityType
  <1>2. /\ s \in [1..Cardinality(M) -> M]
        /\ \A i, j \in 1..Cardinality(M) : s[i] = s[j] => i = j
        /\ \A d \in M : \E i \in 1..Cardinality(M) : s[i] = d
    BY Enumerated
  <1>3. PICK P \in SUBSET (1..Cardinality(M)) :
             P = {i \in 1..Cardinality(M) : s[i] \in T}
    OBVIOUS
  <1>4. /\ \A i \in P : s[i] \in T
        /\ \A t \in T : \E i \in P : s[i] = t
    BY <1>2, <1>3
  <1> DEFINE f == [i \in P |-> s[i]]
  <1>5. /\ f \in [P -> T]
        /\ f \in Injection(P, T)
        /\ f \in Surjection(P, T)
    BY <1>2, <1>4 DEF Injection, Surjection, IsInjective
  <1>6. IsFiniteSet(P)
    BY <1>1, SegmentPart
  <1> HIDE DEF f
  <1>7. Cardinality(T) = Cardinality(P)
    BY <1>5, <1>6, SameCount
  <1> QED
    BY <1>3, <1>7

\* The documents before d and those like d are distinct documents of M.
LEMMA LikeFits ==
    ASSUME NEW q, NEW M \in SUBSET Docs, IsFiniteSet(M), NEW d \in M
    PROVE  /\ Rank(q, M, d) \in Nat /\ Cardinality(Like(M, d)) \in Nat
           /\ Cardinality(Like(M, d)) >= 1
           /\ Cardinality(M) \in Nat
           /\ Rank(q, M, d) + Cardinality(Like(M, d)) <= Cardinality(M)
           /\ Cardinality(Before(q, M, d) \cup Like(M, d))
                  = Rank(q, M, d) + Cardinality(Like(M, d))
           /\ IsFiniteSet(Like(M, d))
  <1> DEFINE B == Before(q, M, d)
             C == Like(M, d)
  <1>1. /\ B \in SUBSET M /\ C \in SUBSET M /\ B \cap C = {}
        /\ B \cup C \in SUBSET M /\ d \in C
        /\ \A e \in M : Key[e] \in Nat
    BY QueryAssumption DEF Before, Like
  <1>2. /\ IsFiniteSet(B) /\ IsFiniteSet(C) /\ Cardinality(B \cup C) <= Cardinality(M)
        /\ Cardinality(M) \in Nat
    BY <1>1, FS_Subset, FS_CardinalityType
  <1>3. /\ Cardinality(B) \in Nat /\ Cardinality(C) \in Nat
        /\ Cardinality(B \cap C) = 0
    BY <1>1, <1>2, FS_CardinalityType, FS_EmptySet
  <1>4. Cardinality(B \cup C) = Cardinality(B) + Cardinality(C) - Cardinality(B \cap C)
    BY <1>2, FS_Union
  <1>5. Cardinality(C) # 0
    BY <1>1, <1>2, FS_EmptySet
  <1> QED
    BY <1>2, <1>3, <1>4, <1>5 DEF Rank

\* In a sorted sequence the documents like d fill the places after those that
\* sort before it.
LEMMA PlacesOfLike ==
    ASSUME NEW q, q.asc \in BOOLEAN, NEW M \in SUBSET Docs, IsFiniteSet(M),
           NEW s \in SetToSeqs(M), Sorted(q, s), NEW d \in M
    PROVE  /\ Rank(q, M, d) \in Nat /\ Cardinality(Like(M, d)) \in Nat
           /\ Rank(q, M, d) + Cardinality(Like(M, d)) <= Cardinality(M)
           /\ \A i \in 1..Cardinality(M) :
                 s[i] \in Like(M, d)
                     <=> /\ Rank(q, M, d) < i
                         /\ i <= Rank(q, M, d) + Cardinality(Like(M, d))
  <1> DEFINE n == Cardinality(M)
             B == Before(q, M, d)
             C == Like(M, d)
             PB == {i \in 1..n : s[i] \in B}
             PBC == {i \in 1..n : s[i] \in B \cup C}
  <1>1. /\ n \in Nat
        /\ \A i \in 1..n : s[i] \in M /\ s[i] \in Docs
        /\ DOMAIN s = 1..n
    BY FS_CardinalityType, Enumerated
  <1>2. /\ B \in SUBSET M /\ C \in SUBSET M /\ B \cap C = {} /\ B \cup C \in SUBSET M
        /\ \A e \in M : Key[e] \in Nat
    BY QueryAssumption DEF Before, Like
  <1>3. /\ Cardinality(B) \in Nat /\ Cardinality(C) \in Nat
        /\ Cardinality(B \cup C) = Cardinality(B) + Cardinality(C)
        /\ Cardinality(B) + Cardinality(C) <= n
    BY LikeFits DEF Rank
  <1>4. \A i, j \in 1..n : i < j =>
           IF q.asc THEN Key[s[i]] <= Key[s[j]] ELSE Key[s[i]] >= Key[s[j]]
    BY <1>1 DEF Sorted
  <1>5. PB = 1..Cardinality(B)
    <2>1. \A i \in PB, j \in 1..n : j < i => j \in PB
      BY <1>1, <1>2, <1>4 DEF Before
    <2>2. PB \in SUBSET (1..n)
      OBVIOUS
    <2>3. Cardinality(PB) = Cardinality(B)
      BY <1>2, PlacesCount
    <2> HIDE DEF PB, n
    <2> QED
      BY <1>1, <2>1, <2>2, <2>3, InitialSegment
  <1>6. PBC = 1..(Cardinality(B) + Cardinality(C))
    <2>1. \A i \in PBC, j \in 1..n : j < i => j \in PBC
      BY <1>1, <1>2, <1>4 DEF Before, Like
    <2>2. PBC \in SUBSET (1..n)
      OBVIOUS
    <2>3. Cardinality(PBC) = Cardinality(B \cup C)
      BY <1>2, PlacesCount
    <2> HIDE DEF PBC, n
    <2> QED
      BY <1>1, <1>3, <2>1, <2>2, <2>3, InitialSegment
  <1>7. \A i \in 1..n : s[i] \in C <=> i \in PBC /\ i \notin PB
    BY <1>2
  <1> HIDE DEF PB, PBC, B, C, n
  <1>8. \A i \in 1..n :
           s[i] \in C <=> Cardinality(B) < i /\ i <= Cardinality(B) + Cardinality(C)
    BY <1>1, <1>3, <1>5, <1>6, <1>7
  <1> QED
    BY <1>3, <1>8 DEF Rank, B, C, n

-----------------------------------------------------------------------------
(* Arithmetic of pages                                                     *)

LEMMA SkipType ==
    ASSUME NEW q, q.page \in Nat \ {0}, q.limit \in Nat \ {0}
    PROVE  /\ Skip(q) \in Nat
           /\ Skip(q) + q.limit = q.page * q.limit
           /\ Skip(q) + q.limit = (q.page + 1 - 1) * q.limit
  BY DEF Skip

\* Up to the last page there is room for all documents that were counted.
LEMMA LastPageFits ==
    ASSUME NEW total \in Nat, NEW limit \in Nat \ {0}, NEW page \in Nat,
           page >= TotalPages(total, limit)
    PROVE  total <= page * limit
  <1> DEFINE k == (total + limit - 1) \div limit
  <1>1. k \in Nat /\ k <= page
    BY DEF TotalPages
  <1>2. total + limit - 1 < (k + 1) * limit
    OBVIOUS
  <1> HIDE DEF k
  <1>3. total <= k * limit
    BY <1>1, <1>2
  <1>4. k * limit <= page * limit
    BY <1>1
  <1>5. k * limit \in Nat /\ page * limit \in Nat
    BY <1>1
  <1> QED
    BY <1>3, <1>4, <1>5

\* There are at most as many pages as documents, or one page.
LEMMA PagesBounded ==
    ASSUME NEW total \in Nat, NEW limit \in Nat \ {0}
    PROVE  TotalPages(total, limit) <= total
  <1>1. CASE total = 0
    BY <1>1 DEF TotalPages
  <1>2. CASE total >= 1
    <2>1. total + limit - 1 <= total * limit
      <3>1. (total - 1) * (limit - 1) >= 0
        BY <1>2
      <3>2. (total - 1) * (limit - 1) = total * limit - total - limit + 1
        BY <1>2
      <3> QED
        BY <3>1, <3>2, <1>2
    <2> QED
      BY <1>2, <2>1 DEF TotalPages
  <1> QED
    BY <1>1, <1>2

-----------------------------------------------------------------------------
(* What a page shows                                                       *)

LEMMA PageSlots ==
    ASSUME NEW lo \in Nat, NEW hi \in Nat
    PROVE  /\ IsFiniteSet((lo + 1)..hi)
           /\ Cardinality((lo + 1)..hi) = IF lo + 1 > hi THEN 0 ELSE hi - (lo + 1) + 1
  <1>1. PICK m \in Int : m = lo + 1
    OBVIOUS
  <1>2. /\ IsFiniteSet(m..hi)
        /\ Cardinality(m..hi) = IF m > hi THEN 0 ELSE hi - m + 1
    BY FS_Interval
  <1> QED
    BY <1>1, <1>2

\* The documents of a page are those on the places after skip(), as many as
\* limit() lets through.
LEMMA PageIsSegment ==
    ASSUME NEW q, q.page \in Nat \ {0}, q.limit \in Nat \ {0},
           NEW M, IsFiniteSet(M), NEW docs, M = Matching(q, docs),
           NEW items \in PageItems(q, docs)
    PROVE  \E s \in SetToSeqs(M) :
              /\ Sorted(q, s)
              /\ \A i \in 1..Cardinality(M) :
                    Skip(q) < i /\ i <= Skip(q) + q.limit => s[i] \in items
              /\ \A d \in items : \E i \in 1..Cardinality(M) :
                    Skip(q) < i /\ i <= Skip(q) + q.limit /\ s[i] = d
  <1>1. PICK s \in SetToSeqs(M) :
             /\ Sorted(q, s)
             /\ items = Range(SubSeq(s, Skip(q) + 1,
                  IF Skip(q) + q.limit < Len(s) THEN Skip(q) + q.limit ELSE Len(s)))
    BY DEF PageItems
  <1>2. /\ Cardinality(M) \in Nat /\ Skip(q) \in Nat /\ q.limit \in Nat
        /\ s \in [1..Cardinality(M) -> M]
    BY Enumerated, FS_CardinalityType, SkipType
  <1>3. Len(s) = Cardinality(M)
    BY <1>2
  <1>4. PICK k \in Nat :
             /\ k = IF Skip(q) + q.limit < Len(s) THEN Skip(q) + q.limit ELSE Len(s)
             /\ k <= Cardinality(M)
    BY <1>2, <1>3
  <1>5. items = Range(SubSeq(s, Skip(q) + 1, k))
    BY <1>1, <1>4
  <1>6. PICK m \in Nat \ {0} : m = Skip(q) + 1
    BY <1>2
  <1> DEFINE t == SubSeq(s, m, k)
             l == IF m <= k THEN k - m + 1 ELSE 0
  <1>7. \A i \in m..k : s[i] \in M
    BY <1>2, <1>4
  <1>8. /\ t \in Seq(M) /\ Len(t) = l
        /\ \A i \in 1..(k - m + 1) : t[i] = s[m + i - 1]
    BY <1>7, SubSeqProperties
  <1> HIDE DEF t
  <1>9. DOMAIN t = 1..l
    BY <1>8, LenProperties
  <1>10. ASSUME NEW i \in m..k
         PROVE  s[i] \in Range(t)
    <2>1. i - m + 1 \in 1..(k - m + 1) /\ i - m + 1 \in DOMAIN t
      BY <1>9
    <2>2. t[i - m + 1] = s[m + (i - m + 1) - 1]
      BY <1>8, <2>1
    <2>3. m + (i - m + 1) - 1 = i
      OBVIOUS
    <2> QED
      BY <2>1, <2>2, <2>3 DEF Range
  <1>11. ASSUME NEW d \in Range(t)
         PROVE  \E i \in m..k : s[i] = d
    <2>1. PICK j \in DOMAIN t : t[j] = d
      BY DEF Range
    <2>2. j \in 1..(k - m + 1) /\ m + j - 1 \in m..k
      BY <1>9, <2>1
    <2> QED
      BY <1>8, <2>1, <2>2
  <1>12. items = Range(t)
    BY <1>5, <1>6 DEF t
  <1>13. \A i \in 1..Cardinality(M) :
           i \in m..k <=> Skip(q) < i /\ i <= Skip(q) + q.limit
    BY <1>2, <1>3, <1>4, <1>6
  <1>14. m..k \subseteq 1..Cardinality(M)
    BY <1>2, <1>4
  <1> QED
    BY <1>1, <1>10, <1>11, <1>12, <1>13, <1>14

\* A page never has more documents than its limit.
LEMMA PageSize ==
    ASSUME NEW q, q.page \in Nat \ {0}, q.limit \in Nat \ {0},
           NEW M, IsFiniteSet(M), NEW docs, M = Matching(q, docs),
           NEW items \in PageItems(q, docs)
    PROVE  /\ items \subseteq M /\ IsFiniteSet(items)
           /\ Cardinality(items) <= q.limit
  <1>1. PICK s \in SetToSeqs(M) :
              \A d \in items : \E i \in 1..Cardinality(M) :
                    Skip(q) < i /\ i <= Skip(q) + q.limit /\ s[i] = d
    BY PageIsSegment
  <1>2. /\ Cardinality(M) \in Nat /\ Skip(q) \in Nat /\ q.limit \in Nat
        /\ s \in [1..Cardinality(M) -> M]
    BY Enumerated, FS_CardinalityType, SkipType
  <1>3. items \subseteq M
    BY <1>1, <1>2
  <1>4. IsFiniteSet(items)
    BY <1>3, FS_Subset
  <1> DEFINE g == [d \in items |-> CHOOSE i \in 1..Cardinality(M) :
                       Skip(q) < i /\ i <= Skip(q) + q.limit /\ s[i] = d]
             W == (Skip(q) + 1)..(Skip(q) + q.limit)
  <1>5. \A d \in items : g[d] \in W /\ s[g[d]] = d
    <2>1. ASSUME NEW d \in items
          PROVE  /\ g[d] \in 1..Cardinality(M) /\ Skip(q) < g[d]
                 /\ g[d] <= Skip(q) + q.limit /\ s[g[d]] = d
      BY <1>1
    <2> HIDE DEF g
    <2> QED
      BY <1>2, <2>1
  <1>6. g \in Injection(items, W)
    <2>1. g \in [items -> W]
      BY <1>5
    <2> HIDE DEF g
    <2> QED
      BY <1>5, <2>1 DEF Injection, IsInjective
  <1>7. IsFiniteSet(W) /\ Cardinality(W) = q.limit
    <2>1. PICK k, h \in Nat : k = Skip(q) /\ h = Skip(q) + q.limit
      BY <1>2
    <2>2. /\ IsFiniteSet((k + 1)..h)
          /\ Cardinality((k + 1)..h) = IF k + 1 > h THEN 0 ELSE h - (k + 1) + 1
      BY PageSlots
    <2> QED
      BY <1>2, <2>1, <2>2
  <1> HIDE DEF g, W
  <1>8. Cardinality(items) <= Cardinality(W)
    BY <1>6, <1>7, FS_Injection
  <1> QED
    BY <1>3, <1>4, <1>7, <1>8

\* Of the documents like d a page shows as many as there are places of theirs
\* among its own.
LEMMA PageShare ==
    ASSUME NEW q, q.page \in Nat \ {0}, q.limit \in Nat \ {0}, q.asc \in BOOLEAN,
           NEW M \in SUBSET Docs, IsFiniteSet(M), NEW docs, M = Matching(q, docs),
           NEW items \in PageItems(q, docs), NEW d \in M
    PROVE  Cardinality(items \cap Like(M, d)) + Slots(q, M, d, Skip(q))
               = Slots(q, M, d, Skip(q) + q.limit)
  <1>1. PICK s \in SetToSeqs(M) :
              /\ Sorted(q, s)
              /\ \A i \in 1..Cardinality(M) :
                    Skip(q) < i /\ i <= Skip(q) + q.limit => s[i] \in items
              /\ \A e \in items : \E i \in 1..Cardinality(M) :
                    Skip(q) < i /\ i <= Skip(q) + q.limit /\ s[i] = e
    BY PageIsSegment
  <1> DEFINE n == Cardinality(M)
             a == Rank(q, M, d)
             c == Cardinality(Like(M, d))
             lo == IF a < Skip(q) THEN Skip(q) ELSE a
             hi == IF a + c < Skip(q) + q.limit THEN a + c ELSE Skip(q) + q.limit
             W == (lo + 1)..hi
             T == items \cap Like(M, d)
             f == [i \in W |-> s[i]]
  <1>2. /\ n \in Nat /\ Skip(q) \in Nat /\ q.limit \in Nat
        /\ s \in [1..n -> M]
        /\ \A i, j \in 1..n : s[i] = s[j] => i = j
    BY Enumerated, FS_CardinalityType, SkipType
  <1>3. /\ a \in Nat /\ c \in Nat /\ a + c <= n
        /\ \A i \in 1..n : s[i] \in Like(M, d) <=> a < i /\ i <= a + c
    BY <1>1, PlacesOfLike
  <1> HIDE DEF n, a, c
  <1>4. /\ lo \in Nat /\ hi \in Nat
        /\ W \subseteq 1..n
        /\ \A i \in 1..n : i \in W <=> /\ a < i /\ i <= a + c
                                       /\ Skip(q) < i /\ i <= Skip(q) + q.limit
    BY <1>2, <1>3
  <1> HIDE DEF lo, hi
  <1>5. \A i \in W : s[i] \in T
    BY <1>1, <1>3, <1>4 DEF n
  <1>6. \A e \in T : \E i \in W : s[i] = e
    BY <1>1, <1>3, <1>4 DEF n
  <1>7. IsFiniteSet(W) /\ Cardinality(W) = IF lo + 1 > hi THEN 0 ELSE hi - (lo + 1) + 1
    BY <1>4, PageSlots
  <1> HIDE DEF W, T
  <1>8. /\ f \in [W -> T] /\ f \in Injection(W, T) /\ f \in Surjection(W, T)
    BY <1>2, <1>4, <1>5, <1>6 DEF Injection, Surjection, IsInjective
  <1> HIDE DEF f
  <1>9. Cardinality(T) = Cardinality(W)
    BY <1>7, <1>8, SameCount
  <1>10. PICK p, l \in Nat : p = Skip(q) /\ l = q.limit
    BY <1>2
  <1>11. /\ Slots(q, M, d, p) = IF p <= a THEN 0 ELSE IF p <= a + c THEN p - a ELSE c
         /\ Slots(q, M, d, p + l)
              = IF p + l <= a THEN 0 ELSE IF p + l <= a + c THEN p + l - a ELSE c
    <2>1. \A k : Slots(q, M, d, k)
               = IF k <= Rank(q, M, d) THEN 0
                 ELSE IF k <= Rank(q, M, d) + Cardinality(Like(M, d))
                      THEN k - Rank(q, M, d) ELSE Cardinality(Like(M, d))
      BY DEF Slots
    <2> QED
      BY <1>3, <1>10, <2>1 DEF a, c
  <1>12. /\ lo = IF a < p THEN p ELSE a
         /\ hi = IF a + c < p + l THEN a + c ELSE p + l
    BY <1>10 DEF lo, hi
  <1>13. Cardinality(T) + Slots(q, M, d, p) = Slots(q, M, d, p + l)
    BY <1>3, <1>7, <1>9, <1>10, <1>11, <1>12
  <1> QED
    BY <1>10, <1>13 DEF T

-----------------------------------------------------------------------------
(* Type correctness                                                        *)

LEMMA MatchingType ==
    ASSUME NEW q, NEW docs
    PROVE  /\ Matching(q, docs) \in SUBSET Mine /\ Matching(q, docs) \in SUBSET Docs
           /\ IsFiniteSet(Matching(q, docs))
           /\ Cardinality(Matching(q, docs)) \in 0..Cardinality(Mine)
  <1>1. Matching(q, docs) \in SUBSET Mine
    BY DEF Matching
  <1>2. IsFiniteSet(Mine)
    BY FS_Subset, QueryAssumption
  <1>3. /\ IsFiniteSet(Matching(q, docs))
        /\ Cardinality(Matching(q, docs)) <= Cardinality(Mine)
    BY <1>1, <1>2, FS_Subset
  <1>4. Cardinality(Matching(q, docs)) \in Nat /\ Cardinality(Mine) \in Nat
    BY <1>2, <1>3, FS_CardinalityType
  <1> QED
    BY <1>1, <1>3, <1>4, QueryAssumption

LEMMA QueryTypeInit == Init => QueryType
  <1>1. IsFiniteSet(Mine)
    BY FS_Subset, QueryAssumption
  <1>2. Cardinality(Mine) \in Nat /\ Cardinality({}) = 0
    BY <1>1, FS_CardinalityType, FS_EmptySet
  <1>3. Unasked \in Queries
    BY <1>2 DEF Unasked, Queries
  <1> QED
    BY <1>2, <1>3 DEF Init, QueryType, Unasked

\* AnswerPage turns to the next page, or it was the last.
LEMMA AnswerEffect ==
    ASSUME QueryType, AnswerPage
    PROVE  /\ query.phase = "page" /\ query.page >= 1
           /\ \/ /\ query.page < TotalPages(query.total, query.limit)
                 /\ query'.phase = "page" /\ query'.page = query.page + 1
              \/ /\ query.page >= TotalPages(query.total, query.limit)
                 /\ query'.phase = "done" /\ query'.page = query.page
           /\ query' = [phase |-> query'.phase, page |-> query'.page,
                        limit |-> query.limit, asc |-> query.asc,
                        from |-> query.from, found |-> FALSE, items |-> {},
                        counted |-> FALSE, total |-> 0]
           /\ query'.limit = query.limit /\ query'.asc = query.asc
           /\ query'.from = query.from /\ query'.items = {}
           /\ ~query'.found /\ ~query'.counted
  <1>1. query.phase = "page" /\ query.page >= 1 /\ query \in Queries
    BY DEF QueryType, AnswerPage
  <1>2. query.page \in Nat /\ TotalPages(query.total, query.limit) \in Int
    BY <1>1 DEF Queries, TotalPages
  <1>3. query' = [phase |-> IF query.page < TotalPages(query.total, query.limit)
                            THEN query.phase ELSE "done",
                  page |-> IF query.page < TotalPages(query.total, query.limit)
                           THEN query.page + 1 ELSE query.page,
                  limit |-> query.limit, asc |-> query.asc,
                  from |-> query.from, found |-> FALSE, items |-> {},
                  counted |-> FALSE, total |-> 0]
    BY <1>1 DEF AnswerPage, Queries
  <1>4. CASE query.page < TotalPages(query.total, query.limit)
    BY <1>1, <1>3, <1>4
  <1>5. CASE query.page >= TotalPages(query.total, query.limit)
    BY <1>1, <1>2, <1>3, <1>5
  <1> QED
    BY <1>2, <1>4, <1>5

LEMMA QueryTypeStep == QueryType /\ [Next]_vars => QueryType'
  <1> SUFFICES ASSUME QueryType, [Next]_vars
               PROVE  QueryType'
    OBVIOUS
  <1> USE DEF QueryType
  <1>0. Cardinality({}) = 0 /\ Cardinality(Mine) \in Nat
    BY FS_EmptySet, FS_Subset, FS_CardinalityType, QueryAssumption
  <1>1. ASSUME NEW limit \in Limits, NEW asc \in BOOLEAN,
               NEW from \in {Key[d] : d \in Docs}, GetFirstPage(limit, asc, from)
        PROVE  QueryType'
    <2>1. limit \in Nat \ {0} /\ from \in Nat
      BY QueryAssumption
    <2>2. start' \in SUBSET Mine /\ ever' \in SUBSET Mine
      BY <1>1, MatchingType DEF GetFirstPage
    <2>3. query' = [phase |-> "page", page |-> 1, limit |-> limit, asc |-> asc,
                    from |-> from, found |-> FALSE, items |-> {},
                    counted |-> FALSE, total |-> 0]
      BY <1>1 DEF GetFirstPage, Unasked
    <2>4. query' \in Queries
      BY <1>0, <2>1, <2>3 DEF Queries
    <2>5. /\ query'.page = 1 /\ query'.items = {} /\ query'.limit = limit
          /\ ~query'.found /\ ~query'.counted
      BY <2>3
    <2>6. Cardinality(query'.items) <= query'.limit
      BY <1>0, <2>1, <2>5
    <2> QED
      BY <1>1, <2>2, <2>4, <2>5, <2>6 DEF GetFirstPage
  <1>2. CASE Find
    <2>1. PICK items \in PageItems(query, stored) :
               query' = [query EXCEPT !.found = TRUE, !.items = items]
      BY <1>2 DEF Queries, Find
    <2>2. query.phase = "page" /\ UNCHANGED <<stored, seen, repeated, history>>
      BY <1>2 DEF Find
    <2>3. items \subseteq Matching(query, stored) /\ Cardinality(items) <= query.limit
      BY <2>2, MatchingType, PageSize DEF Queries
    <2>4. items \in SUBSET Mine
      BY <2>3, MatchingType
    <2> QED
      BY <2>1, <2>2, <2>3, <2>4 DEF Queries, history
  <1>3. CASE CountDocuments
    BY <1>3, MatchingType DEF Queries, CountDocuments, history
  <1>4. CASE AnswerPage
    <2>1. /\ TotalPages(query.total, query.limit) <= query.total
          /\ query.page \in Nat /\ query.total \in Nat
          /\ query.total <= Cardinality(Mine)
      BY <1>0, PagesBounded DEF Queries
    <2>2. query.page < TotalPages(query.total, query.limit)
              => query.page + 1 <= Cardinality(Mine)
      BY <1>0, <2>1 DEF TotalPages, Queries
    <2>3. query'.page >= 1 /\ (query'.page <= 1 \/ query'.page <= Cardinality(Mine))
      BY <1>4, <2>1, <2>2, AnswerEffect
    <2>4. query' \in Queries
      <3>1. /\ query'.phase \in {"page", "done"} /\ query'.page \in Nat
            /\ 0 \in 0..Cardinality(Mine)
        BY <1>0, <1>4, <2>1, AnswerEffect
      <3>2. PICK phase, page : phase = query'.phase /\ page = query'.page
        OBVIOUS
      <3>3. query' = [phase |-> phase, page |-> page,
                      limit |-> query.limit, asc |-> query.asc,
                      from |-> query.from, found |-> FALSE, items |-> {},
                      counted |-> FALSE, total |-> 0]
        BY <1>4, <3>2, AnswerEffect
      <3>4. phase \in {"page", "done"} /\ page \in Nat
        BY <3>1, <3>2
      <3> QED
        BY <3>1, <3>3, <3>4 DEF Queries
    <2>5. Cardinality(query'.items) <= query'.limit
      <3>1. /\ query'.items = {} /\ query'.limit = query.limit /\ query.limit \in Nat
        BY <1>4, AnswerEffect DEF Queries
      <3> QED
        BY <1>0, <3>1
    <2>6. /\ seen' \subseteq Mine /\ repeated' \subseteq seen'
          /\ UNCHANGED <<stored, start, ever, changed, lossy>>
      BY <1>4 DEF AnswerPage, history, Queries
    <2> QED
      BY <1>4, <2>3, <2>4, <2>5, <2>6, AnswerEffect
  <1>5. CASE QueryFails
    BY <1>0, <1>5 DEF Queries, QueryFails, Unasked, history
  <1>6. ASSUME NEW batch \in SUBSET Docs, InsertBatch(batch)
        PROVE  QueryType'
    <2>1. Matching(query, batch) \in SUBSET Mine
      BY MatchingType
    <2> QED
      BY <1>6, <2>1 DEF InsertBatch, Writes
  <1>7. ASSUME NEW ids \in SUBSET Docs, DeleteEvents(ids)
        PROVE  QueryType'
    BY <1>7 DEF DeleteEvents, Writes
  <1>8. CASE UNCHANGED vars
    BY <1>8 DEF vars
  <1> QED
    BY <1>1, <1>2, <1>3, <1>4, <1>5, <1>6, <1>7, <1>8 DEF Next

LEMMA FlagsInit == Init => Flags
  BY Zenon DEF Init, Flags

LEMMA FlagsStep == Flags /\ [Next]_vars => Flags'
  <1> SUFFICES ASSUME Flags, [Next]_vars
               PROVE  Flags'
    OBVIOUS
  <1> USE DEF Flags
  <1>1. ASSUME NEW limit \in Limits, NEW asc \in BOOLEAN,
               NEW from \in {Key[d] : d \in Docs}, GetFirstPage(limit, asc, from)
        PROVE  Flags'
    BY <1>1, Zenon DEF GetFirstPage
  <1>2. CASE Find \/ CountDocuments \/ AnswerPage \/ QueryFails \/ UNCHANGED vars
    BY <1>2, Zenon DEF Find, CountDocuments, AnswerPage, QueryFails, vars, history
  <1>3. ASSUME NEW batch \in SUBSET Docs, InsertBatch(batch) \/ DeleteEvents(batch)
        PROVE  Flags'
    BY <1>3, Zenon DEF InsertBatch, DeleteEvents, Writes
  <1> QED
    BY <1>1, <1>2, <1>3 DEF Next

\* Every variable has its type, a page holds at most limit documents and no
\* page is asked for past the last one the owner's documents could fill.
THEOREM TypeCorrect == Spec => []TypeOK
  <1>1. QueryType /\ Flags => TypeOK
    <2> SUFFICES ASSUME QueryType, Flags
                 PROVE  TypeOK
      OBVIOUS
    <2>1. Cardinality(Mine) \in Nat
      BY FS_Subset, FS_CardinalityType, QueryAssumption
    <2>2. /\ stored \subseteq Docs
          /\ query.phase \in {"idle", "page", "done"}
          /\ query.page \in 0..1 \cup 1..Cardinality(Mine)
          /\ query.items \subseteq Mine /\ Cardinality(query.items) <= query.limit
          /\ repeated \subseteq seen /\ seen \subseteq Mine
      BY <2>1 DEF QueryType, Queries
    <2>3. {changed, lossy} \subseteq BOOLEAN
      BY Zenon DEF Flags
    <2> QED
      BY <2>2, <2>3, Zenon DEF TypeOK
  <1> QED
    BY <1>1, QueryTypeInit, QueryTypeStep, FlagsInit, FlagsStep, PTL DEF Spec

-----------------------------------------------------------------------------
(* While nothing is written                                                *)

LEMMA SameOrder ==
    ASSUME NEW q, NEW r, q.asc = r.asc, NEW M, NEW d
    PROVE  /\ Rank(q, M, d) = Rank(r, M, d)
           /\ \A p \in Nat : Slots(q, M, d, p) = Slots(r, M, d, p)
  <1>1. Before(q, M, d) = Before(r, M, d)
    BY DEF Before
  <1> QED
    BY <1>1 DEF Rank, Slots

LEMMA SlotsBounds ==
    ASSUME NEW q, NEW M \in SUBSET Docs, IsFiniteSet(M), NEW d \in M, NEW p \in Nat
    PROVE  /\ Slots(q, M, d, p) \in 0..Cardinality(Like(M, d))
           /\ Slots(q, M, d, 0) = 0
           /\ p >= Cardinality(M) => Slots(q, M, d, p) = Cardinality(Like(M, d))
  <1>1. /\ Rank(q, M, d) \in Nat /\ Cardinality(Like(M, d)) \in Nat
        /\ Cardinality(M) \in Nat
        /\ Rank(q, M, d) + Cardinality(Like(M, d)) <= Cardinality(M)
    BY LikeFits
  <1> QED
    BY <1>1 DEF Slots

\* What StillInv says of an open query, and what is known of its page.
LEMMA StillPage ==
    ASSUME QueryType, StillInv, ~changed, query.phase = "page"
    PROVE  /\ start \in SUBSET Docs /\ IsFiniteSet(start)
           /\ start = Matching(query, stored) /\ seen \subseteq start
           /\ query.page \in Nat \ {0} /\ query.limit \in Nat \ {0}
           /\ query.asc \in BOOLEAN /\ Skip(query) \in Nat
           /\ Skip(query) + query.limit \in Nat
  <1>1. start = Matching(query, stored) /\ seen \subseteq start
    BY DEF StillInv
  <1>2. /\ query.page \in Nat \ {0} /\ query.limit \in Nat \ {0}
        /\ query.asc \in BOOLEAN
    BY DEF QueryType, Queries
  <1> QED
    BY <1>1, <1>2, MatchingType, SkipType

\* A page that is answered brings its share: a group none of whose documents
\* is repeated fills its places up to the end of the page.
LEMMA AnsweredShare ==
    ASSUME QueryType, StillInv, ~changed, AnswerPage,
           NEW d \in start, Like(start, d) \cap repeated' = {}
    PROVE  Cardinality(seen' \cap Like(start, d))
               = Slots(query, start, d, Skip(query) + query.limit)
  <1> DEFINE C == Like(start, d)
             A == seen \cap C
             B == query.items \cap C
  <1>1. query.phase = "page" /\ query.found
    BY AnswerEffect DEF AnswerPage
  <1>2. /\ seen' = seen \cup query.items
        /\ repeated' = repeated \cup (seen \cap query.items)
    BY DEF AnswerPage
  <1>3. IsFiniteSet(C) /\ IsFiniteSet(A) /\ IsFiniteSet(B)
    <2>1. IsFiniteSet(C)
      BY <1>1, StillPage, LikeFits
    <2>2. A \in SUBSET C /\ B \in SUBSET C
      OBVIOUS
    <2> QED
      BY <2>1, <2>2, FS_Subset
  <1>4. A \cap B = {} /\ seen' \cap C = A \cup B
    BY <1>2
  <1>5. /\ Cardinality(A \cup B) = Cardinality(A) + Cardinality(B) - Cardinality(A \cap B)
        /\ Cardinality(A) \in Nat /\ Cardinality(B) \in Nat
        /\ Cardinality(A \cap B) = 0
    BY <1>3, <1>4, FS_Union, FS_CardinalityType, FS_EmptySet
  <1>6. /\ Cardinality(A) = Slots(query, start, d, Skip(query))
        /\ Cardinality(B) + Slots(query, start, d, Skip(query))
             = Slots(query, start, d, Skip(query) + query.limit)
    BY <1>1, <1>2 DEF StillInv
  <1>7. /\ Slots(query, start, d, Skip(query)) \in Nat
        /\ Cardinality(seen' \cap C) = Cardinality(A \cup B)
    BY <1>4, <1>5, <1>6
  <1> HIDE DEF A, B, C
  <1>8. Cardinality(seen' \cap C) = Slots(query, start, d, Skip(query) + query.limit)
    BY <1>5, <1>6, <1>7
  <1> QED
    BY <1>8 DEF C

\* A document that an answered page shows again sorts like another one.
LEMMA RepeatedNotAlone ==
    ASSUME QueryType, StillInv, ~changed, AnswerPage, NEW e \in repeated'
    PROVE  \E d \in start \ {e} : Key[d] = Key[e]
  <1>1. CASE e \in repeated
    BY <1>1 DEF StillInv
  <1>2. CASE e \in seen \cap query.items /\ e \notin repeated
    <2> SUFFICES ASSUME \A d \in start \ {e} : Key[d] # Key[e]
                 PROVE  FALSE
      OBVIOUS
    <2>1. query.phase = "page" /\ query.found
      BY AnswerEffect DEF AnswerPage
    <2>2. e \in start
      BY <1>2 DEF StillInv
    <2>3. Like(start, e) = {e}
      BY <2>2 DEF Like
    <2>4. seen \cap Like(start, e) = {e} /\ query.items \cap Like(start, e) = {e}
      BY <1>2, <2>3
    <2>5. Cardinality({e}) = 1
      BY FS_Singleton
    <2>6. Like(start, e) \cap repeated = {}
      BY <1>2, <2>3
    <2>7. /\ 1 = Slots(query, start, e, Skip(query))
          /\ 1 + Slots(query, start, e, Skip(query))
               = Slots(query, start, e, Skip(query) + query.limit)
      BY <2>1, <2>2, <2>4, <2>5, <2>6 DEF StillInv
    <2>8. Slots(query, start, e, Skip(query) + query.limit) \in 0..1
      <3>1. PICK p \in Nat : p = Skip(query) + query.limit
        BY <2>1, StillPage
      <3>2. Slots(query, start, e, p) \in 0..Cardinality(Like(start, e))
        BY <2>1, <2>2, StillPage, SlotsBounds
      <3> QED
        BY <2>3, <2>5, <3>1, <3>2
    <2> QED
      BY <2>7, <2>8
  <1> QED
    BY <1>1, <1>2 DEF AnswerPage

\* The last page of a query fills every group without a repeated document.
LEMMA LastPageComplete ==
    ASSUME QueryType, StillInv, ~changed, AnswerPage, query'.phase = "done",
           NEW d \in start, Like(start, d) \cap repeated' = {}
    PROVE  d \in seen'
  <1>1. /\ query.phase = "page" /\ query.counted
        /\ query.page >= TotalPages(query.total, query.limit)
    BY AnswerEffect DEF AnswerPage
  <1>2. query.total = Cardinality(start) /\ query.total \in Nat
    BY <1>1, StillPage, FS_CardinalityType DEF StillInv
  <1>3. query.total <= query.page * query.limit
    BY <1>1, <1>2, StillPage, LastPageFits
  <1>4. Skip(query) + query.limit >= Cardinality(start)
    BY <1>1, <1>2, <1>3, StillPage, SkipType
  <1>5. Cardinality(seen' \cap Like(start, d)) = Cardinality(Like(start, d))
    BY <1>1, <1>4, AnsweredShare, StillPage, SlotsBounds
  <1>6. IsFiniteSet(Like(start, d)) /\ d \in Like(start, d)
    BY <1>1, StillPage, LikeFits DEF Like
  <1>7. seen' \cap Like(start, d) = Like(start, d)
    BY <1>5, <1>6, FS_Subset
  <1> QED
    BY <1>6, <1>7

LEMMA StillInit == Init => StillInv
  BY DEF Init, StillInv, Unasked

\* Reading the items or counting them leaves the order as it is.
LEMMA StillCommand ==
    ASSUME QueryType, StillInv, ~changed, Find \/ CountDocuments
    PROVE  StillInv'
  <1>1. /\ query.phase = "page" /\ query \in Queries
        /\ UNCHANGED <<stored, seen, repeated, start, ever, changed, lossy>>
    BY DEF Find, CountDocuments, history, QueryType
  <1>2. /\ query'.phase = query.phase /\ query'.page = query.page
        /\ query'.limit = query.limit /\ query'.asc = query.asc
        /\ query'.from = query.from
    BY <1>1 DEF Find, CountDocuments, Queries
  <1>3. /\ Skip(query') = Skip(query)
        /\ Matching(query', stored) = Matching(query, stored)
        /\ Skip(query) \in Nat /\ Skip(query) + query.limit \in Nat
    BY <1>1, <1>2, StillPage DEF Skip, Matching
  <1>4. \A d \in start :
           /\ Slots(query', start, d, Skip(query)) = Slots(query, start, d, Skip(query))
           /\ Slots(query', start, d, Skip(query) + query.limit)
                = Slots(query, start, d, Skip(query) + query.limit)
    BY <1>2, <1>3, SameOrder
  <1>5. /\ query'.items \subseteq start
        /\ query'.found =>
              \A d \in start :
                 Cardinality(query'.items \cap Like(start, d))
                   + Slots(query, start, d, Skip(query))
                   = Slots(query, start, d, Skip(query) + query.limit)
    <2>1. CASE Find
      <3>1. PICK items \in PageItems(query, stored) : query'.items = items
        BY <1>1, <2>1 DEF Find, Queries
      <3>2. items \subseteq start
        BY <1>1, <3>1, StillPage, PageSize
      <3>3. ASSUME NEW d \in start
            PROVE  Cardinality(items \cap Like(start, d))
                     + Slots(query, start, d, Skip(query))
                     = Slots(query, start, d, Skip(query) + query.limit)
        BY <1>1, StillPage, PageShare
      <3> QED
        BY <3>1, <3>2, <3>3
    <2>2. CASE CountDocuments
      <3>1. query'.items = query.items /\ query'.found = query.found
        BY <1>1, <2>2 DEF CountDocuments, Queries
      <3> QED
        BY <1>1, <3>1 DEF StillInv
    <2> QED
      BY <2>1, <2>2
  <1>6. query'.counted => query'.total = Cardinality(start)
    <2>1. CASE Find
      <3>1. query'.counted = query.counted /\ query'.total = query.total
        BY <1>1, <2>1 DEF Find, Queries
      <3> QED
        BY <1>1, <3>1 DEF StillInv
    <2>2. CASE CountDocuments
      <3>1. query'.total = Cardinality(Matching(query, stored))
        BY <1>1, <2>2 DEF CountDocuments, Queries
      <3> QED
        BY <1>1, <3>1, StillPage
    <2> QED
      BY <2>1, <2>2
  <1>7. \A d \in start :
           Like(start, d) \cap repeated = {} =>
               Cardinality(seen \cap Like(start, d))
                   = Slots(query, start, d, Skip(query))
    BY <1>1 DEF StillInv
  <1>8. /\ ever = start /\ seen \subseteq start /\ start = Matching(query, stored)
        /\ \A e \in repeated : \E d \in start \ {e} : Key[d] = Key[e]
    BY <1>1 DEF StillInv
  <1> QED
    BY <1>1, <1>2, <1>3, <1>4, <1>5, <1>6, <1>7, <1>8 DEF StillInv, Like

LEMMA StillAnswer ==
    ASSUME QueryType, StillInv, ~changed, AnswerPage
    PROVE  StillInv'
  <1>1. /\ query.phase = "page" /\ query.found
        /\ seen' = seen \cup query.items
        /\ UNCHANGED <<stored, start, ever, changed, lossy>>
        /\ query'.limit = query.limit /\ query'.asc = query.asc
        /\ query'.from = query.from /\ query'.items = {}
        /\ ~query'.found /\ ~query'.counted
    BY AnswerEffect DEF AnswerPage, history
  <1>2. /\ ever' = start' /\ seen' \subseteq start'
        /\ start' = Matching(query', stored')
    BY <1>1 DEF StillInv, Matching
  <1>3. \A e \in repeated' : \E d \in start' \ {e} : Key[d] = Key[e]
    BY <1>1, RepeatedNotAlone
  <1>4. ASSUME query'.phase = "page",
               NEW d \in start, Like(start, d) \cap repeated' = {}
        PROVE  Cardinality(seen' \cap Like(start, d))
                   = Slots(query', start, d, Skip(query'))
    <2>1. query'.page = query.page + 1
      BY <1>4, AnswerEffect
    <2>2. Skip(query') = Skip(query) + query.limit
      BY <1>1, <2>1, StillPage, SkipType DEF Skip
    <2>3. Slots(query', start, d, Skip(query) + query.limit)
            = Slots(query, start, d, Skip(query) + query.limit)
      BY <1>1, StillPage, SameOrder
    <2> QED
      BY <1>4, <2>2, <2>3, AnsweredShare
  <1>5. ASSUME query'.phase = "done",
               NEW d \in start, Like(start, d) \cap repeated' = {}
        PROVE  d \in seen'
    BY <1>5, LastPageComplete
  <1> QED
    BY <1>1, <1>2, <1>3, <1>4, <1>5 DEF StillInv, Like

LEMMA StillFirst ==
    ASSUME NEW limit \in Limits, NEW asc \in BOOLEAN,
           NEW from \in {Key[d] : d \in Docs}, GetFirstPage(limit, asc, from)
    PROVE  StillInv'
  <1>1. /\ query' = [phase |-> "page", page |-> 1, limit |-> limit, asc |-> asc,
                    from |-> from, found |-> FALSE, items |-> {},
                    counted |-> FALSE, total |-> 0]
        /\ seen' = {} /\ repeated' = {} /\ stored' = stored
        /\ start' = Matching(query', stored) /\ ever' = Matching(query', stored)
    BY DEF GetFirstPage, Unasked
  <1>2. limit \in Nat
    BY QueryAssumption
  <1>3. /\ query'.phase = "page" /\ query'.items = {} /\ Skip(query') = 0
        /\ ~query'.found /\ ~query'.counted
    BY <1>1, <1>2 DEF Skip
  <1>4. start' \in SUBSET Docs /\ IsFiniteSet(start')
    BY <1>1, MatchingType
  <1>5. ASSUME NEW d \in start'
        PROVE  Cardinality(seen' \cap Like(start', d)) = Slots(query', start', d, Skip(query'))
    <2>1. Cardinality(seen' \cap Like(start', d)) = 0
      BY <1>1, FS_EmptySet
    <2>2. Slots(query', start', d, 0) = 0
      BY <1>4, SlotsBounds
    <2> QED
      BY <1>3, <2>1, <2>2
  <1> QED
    BY <1>1, <1>3, <1>5 DEF StillInv

LEMMA StillStep == QueryType /\ StillInv /\ [Next]_vars => StillInv'
  <1> SUFFICES ASSUME QueryType, StillInv, [Next]_vars
               PROVE  StillInv'
    OBVIOUS
  <1>1. ASSUME NEW limit \in Limits, NEW asc \in BOOLEAN,
               NEW from \in {Key[d] : d \in Docs}, GetFirstPage(limit, asc, from)
        PROVE  StillInv'
    BY <1>1, StillFirst
  <1>2. CASE Find \/ CountDocuments
    <2>1. changed' = changed
      BY <1>2 DEF Find, CountDocuments, history
    <2> QED
      BY <1>2, <2>1, StillCommand DEF StillInv
  <1>3. CASE AnswerPage
    <2>1. changed' = changed
      BY <1>3 DEF AnswerPage, history
    <2> QED
      BY <1>3, <2>1, StillAnswer DEF StillInv
  <1>4. CASE QueryFails
    BY <1>4 DEF QueryFails, StillInv, Unasked, history
  <1>5. ASSUME NEW batch \in SUBSET Docs, InsertBatch(batch) \/ DeleteEvents(batch)
        PROVE  StillInv'
    BY <1>5 DEF InsertBatch, DeleteEvents, Writes, StillInv
  <1>6. CASE UNCHANGED vars
    BY <1>6 DEF vars, StillInv
  <1> QED
    BY <1>1, <1>2, <1>3, <1>4, <1>5, <1>6 DEF Next

\* While nothing is written documents that sort alike are missed only in
\* exchange for one another, wherever MongoDB puts them on each page.
THEOREM TiesSwap == Spec => []TiesOnlySwap
  <1>1. QueryType /\ StillInv => TiesOnlySwap
    <2> SUFFICES ASSUME StillInv, ~changed
                 PROVE  /\ query.phase = "done" =>
                              \A d \in start \ seen : \E e \in repeated : Key[d] = Key[e]
                        /\ \A e \in repeated : \E d \in start \ {e} : Key[d] = Key[e]
      BY DEF TiesOnlySwap
    <2>1. ASSUME query.phase = "done", NEW d \in start \ seen
          PROVE  \E e \in repeated : Key[d] = Key[e]
      <3>1. Like(start, d) \cap repeated # {}
        BY <2>1 DEF StillInv
      <3> QED
        BY <3>1 DEF Like
    <2> QED
      BY <2>1 DEF StillInv
  <1> QED
    BY <1>1, QueryTypeInit, QueryTypeStep, StillInit, StillStep, PTL DEF Spec

\* While nothing is written and no two documents sort alike, the pages show
\* every document that matched exactly once.
THEOREM PagesPartitionMatches == Spec => []PagesPartition
  <1>1. QueryType /\ StillInv => PagesPartition
    <2> SUFFICES ASSUME QueryType, StillInv, ~changed, NoTies
                 PROVE  repeated = {} /\ (query.phase = "done" => seen = start)
      BY DEF PagesPartition
    <2>1. repeated = {}
      <3> SUFFICES ASSUME NEW e \in repeated
                   PROVE  FALSE
        OBVIOUS
      <3>1. PICK d \in start \ {e} : Key[d] = Key[e]
        BY DEF StillInv
      <3>2. e \in ever /\ d \in ever
        BY <3>1 DEF StillInv, QueryType
      <3> QED
        BY <3>1, <3>2 DEF NoTies
    <2>2. query.phase = "done" => seen = start
      BY <2>1 DEF StillInv
    <2> QED
      BY <2>1, <2>2
  <1> QED
    BY <1>1, QueryTypeInit, QueryTypeStep, StillInit, StillStep, PTL DEF Spec

-----------------------------------------------------------------------------
(* While batches land                                                      *)

LEMMA GrowingInit == Init => GrowingInv
  BY DEF Init, GrowingInv, Unasked

\* Without ties a document has the place after those that sort before it, and
\* more documents never move it forward.
LEMMA RankGrows ==
    ASSUME NEW q, NEW M \in SUBSET Docs, NEW N \in SUBSET M, IsFiniteSet(M),
           NEW d \in N
    PROVE  Rank(q, N, d) \in Nat /\ Rank(q, M, d) \in Nat
           /\ Rank(q, N, d) <= Rank(q, M, d)
  <1>1. Before(q, N, d) \in SUBSET Before(q, M, d) /\ Before(q, M, d) \in SUBSET M
    BY DEF Before
  <1>2. IsFiniteSet(Before(q, M, d)) /\ IsFiniteSet(Before(q, N, d))
    BY <1>1, FS_Subset
  <1> QED
    BY <1>1, <1>2, FS_Subset, FS_CardinalityType DEF Rank

\* The page of a document whose rank is among its places shows it.
LEMMA PageShows ==
    ASSUME NEW q, q.page \in Nat \ {0}, q.limit \in Nat \ {0}, q.asc \in BOOLEAN,
           NEW M \in SUBSET Docs, IsFiniteSet(M), NEW docs, M = Matching(q, docs),
           NEW items \in PageItems(q, docs), NEW d \in M,
           \A e \in M : e # d => Key[e] # Key[d],
           Skip(q) <= Rank(q, M, d), Rank(q, M, d) < Skip(q) + q.limit
    PROVE  d \in items
  <1>1. Like(M, d) = {d}
    BY DEF Like
  <1>2. Cardinality({d}) = 1
    BY FS_Singleton
  <1>3. Skip(q) \in Nat /\ q.limit \in Nat /\ Rank(q, M, d) \in Nat
    BY SkipType, LikeFits
  <1>4. /\ Slots(q, M, d, Skip(q)) = 0
        /\ Slots(q, M, d, Skip(q) + q.limit) = 1
    BY <1>1, <1>2, <1>3 DEF Slots
  <1>5. Cardinality(items \cap {d}) + 0 = 1
    BY <1>1, <1>4, PageShare
  <1>6. items \cap {d} # {}
    BY <1>5, FS_EmptySet
  <1> QED
    BY <1>6

LEMMA GrowingPage ==
    ASSUME QueryType, GrowingInv, ~lossy, NoTies, query.phase = "page"
    PROVE  /\ ever \in SUBSET Docs /\ IsFiniteSet(ever) /\ Cardinality(ever) \in Nat
           /\ ever = Matching(query, stored) /\ start \in SUBSET ever
           /\ query.page \in Nat \ {0} /\ query.limit \in Nat \ {0}
           /\ query.asc \in BOOLEAN /\ Skip(query) \in Nat
           /\ Skip(query) + query.limit = query.page * query.limit
           /\ \A d \in start : Rank(query, ever, d) \in Nat
                               /\ Rank(query, ever, d) < Cardinality(ever)
  <1>1. ever = Matching(query, stored) /\ start \subseteq ever
    BY DEF GrowingInv
  <1>2. /\ query.page \in Nat \ {0} /\ query.limit \in Nat \ {0}
        /\ query.asc \in BOOLEAN
    BY DEF QueryType, Queries
  <1>3. ever \in SUBSET Docs /\ IsFiniteSet(ever) /\ Cardinality(ever) \in Nat
    BY <1>1, MatchingType, FS_CardinalityType
  <1>4. ASSUME NEW d \in start
        PROVE  Rank(query, ever, d) \in Nat /\ Rank(query, ever, d) < Cardinality(ever)
    <2>1. /\ Rank(query, ever, d) \in Nat /\ Cardinality(Like(ever, d)) \in Nat
          /\ Cardinality(Like(ever, d)) >= 1
          /\ Rank(query, ever, d) + Cardinality(Like(ever, d)) <= Cardinality(ever)
      BY <1>1, <1>3, LikeFits
    <2> QED
      BY <1>3, <2>1
  <1> QED
    BY <1>1, <1>2, <1>3, <1>4, SkipType

\* Once both commands have answered and no page is left, every document that
\* there was has been seen or is on this page.
LEMMA GrowingComplete ==
    ASSUME QueryType, GrowingInv, ~lossy, NoTies, query.phase = "page",
           NEW shown, NEW total, total = Cardinality(ever),
           query.page >= TotalPages(total, query.limit),
           \A d \in start : Rank(query, ever, d) < Skip(query) + query.limit => d \in shown
    PROVE  start \subseteq shown
  <1>1. total <= query.page * query.limit
    BY GrowingPage, LastPageFits
  <1>2. query.page * query.limit \in Int
    BY GrowingPage
  <1> QED
    BY <1>1, <1>2, GrowingPage

LEMMA GrowingCommand ==
    ASSUME QueryType, GrowingInv, ~lossy, NoTies, Find \/ CountDocuments
    PROVE  GrowingInv'
  <1>1. /\ query.phase = "page" /\ query \in Queries
        /\ UNCHANGED <<stored, seen, repeated, start, ever, changed, lossy>>
    BY DEF Find, CountDocuments, history, QueryType
  <1>2. /\ query'.phase = query.phase /\ query'.page = query.page
        /\ query'.limit = query.limit /\ query'.asc = query.asc
        /\ query'.from = query.from
    BY <1>1 DEF Find, CountDocuments, Queries
  <1>3. /\ Skip(query') = Skip(query)
        /\ Matching(query', stored) = Matching(query, stored)
        /\ \A d \in start : Rank(query', ever, d) = Rank(query, ever, d)
    BY <1>2, SameOrder DEF Skip, Matching
  <1>4. \A d \in start : Rank(query, ever, d) < Skip(query) => d \in seen
    BY <1>1 DEF GrowingInv
  <1>5. query'.found =>
           \A d \in start :
              Rank(query, ever, d) < Skip(query) + query.limit =>
                  d \in seen \cup query'.items
    <2>1. CASE Find
      <3>1. PICK items \in PageItems(query, stored) : query'.items = items
        BY <1>1, <2>1 DEF Find, Queries
      <3>2. ASSUME NEW d \in start, Rank(query, ever, d) < Skip(query) + query.limit,
                   d \notin seen
            PROVE  d \in items
        <4>1. \A e \in ever : e # d => Key[e] # Key[d]
          BY <1>1, GrowingPage DEF NoTies
        <4>2. Skip(query) <= Rank(query, ever, d)
          BY <1>1, <1>4, <3>2, GrowingPage
        <4> QED
          BY <1>1, <3>2, <4>1, <4>2, GrowingPage, PageShows
      <3> QED
        BY <3>1, <3>2
    <2>2. CASE CountDocuments
      <3>1. query'.items = query.items /\ query'.found = query.found
        BY <1>1, <2>2 DEF CountDocuments, Queries
      <3> QED
        BY <1>1, <3>1 DEF GrowingInv
    <2> QED
      BY <2>1, <2>2
  <1>6. query'.counted => query'.total = Cardinality(ever)
    <2>1. CASE Find
      <3>1. query'.counted = query.counted /\ query'.total = query.total /\ ~query.found
        BY <1>1, <2>1 DEF Find, Queries
      <3> QED
        BY <1>1, <3>1 DEF GrowingInv
    <2>2. CASE CountDocuments
      <3>1. query'.total = Cardinality(Matching(query, stored))
        BY <1>1, <2>2 DEF CountDocuments, Queries
      <3> QED
        BY <1>1, <3>1, GrowingPage
    <2> QED
      BY <2>1, <2>2
  <1>7. query'.found /\ query'.counted
            /\ query'.page >= TotalPages(query'.total, query'.limit) =>
                start \subseteq seen \cup query'.items
    BY <1>1, <1>2, <1>5, <1>6, GrowingComplete
  <1>8. ever = Matching(query, stored) /\ start \subseteq ever
    BY <1>1 DEF GrowingInv
  <1> QED
    BY <1>1, <1>2, <1>3, <1>4, <1>5, <1>6, <1>7, <1>8 DEF GrowingInv

LEMMA GrowingAnswer ==
    ASSUME QueryType, GrowingInv, ~lossy, NoTies, AnswerPage
    PROVE  GrowingInv'
  <1>1. /\ query.phase = "page" /\ query.found /\ query.counted
        /\ seen' = seen \cup query.items
        /\ UNCHANGED <<stored, start, ever, changed, lossy>>
        /\ query'.limit = query.limit /\ query'.asc = query.asc
        /\ query'.from = query.from /\ ~query'.found /\ ~query'.counted
    BY AnswerEffect DEF AnswerPage, history
  <1>2. /\ Matching(query', stored) = Matching(query, stored)
        /\ \A d \in start : Rank(query', ever, d) = Rank(query, ever, d)
    BY <1>1, SameOrder DEF Matching
  <1>3. ASSUME query'.phase = "page", NEW d \in start,
               Rank(query, ever, d) < Skip(query')
        PROVE  d \in seen'
    <2>1. query'.page = query.page + 1
      BY <1>3, AnswerEffect
    <2>2. Skip(query') = Skip(query) + query.limit
      BY <1>1, <2>1, GrowingPage, SkipType DEF Skip
    <2> QED
      BY <1>1, <1>3, <2>2 DEF GrowingInv
  <1>4. ASSUME query'.phase = "done"
        PROVE  start \subseteq seen'
    <2>1. query.page >= TotalPages(query.total, query.limit)
      BY <1>4, AnswerEffect
    <2> QED
      BY <1>1, <2>1 DEF GrowingInv
  <1>5. ever = Matching(query, stored) /\ start \subseteq ever
    BY <1>1 DEF GrowingInv
  <1> QED
    BY <1>1, <1>2, <1>3, <1>4, <1>5 DEF GrowingInv

\* A batch that lands before both commands or after both of them.
LEMMA GrowingInsert ==
    ASSUME QueryType, GrowingInv, NEW batch \in SUBSET Docs, InsertBatch(batch),
           ~lossy', NoTies'
    PROVE  GrowingInv'
  <1>1. /\ ~lossy /\ ~(query.found # query.counted)
        /\ stored' = stored \cup batch /\ ever' = ever \cup Matching(query, batch)
        /\ UNCHANGED <<query, seen, repeated, start>>
    BY DEF InsertBatch, Writes
  <1>2. NoTies
    BY <1>1 DEF NoTies
  <1>3. CASE query.phase = "page"
    <2>1. ever = Matching(query, stored) /\ start \subseteq ever
      BY <1>1, <1>2, <1>3 DEF GrowingInv
    <2>2. ever' = Matching(query, stored') /\ start \subseteq ever' /\ ever \in SUBSET ever'
      BY <1>1, <2>1 DEF Matching
    <2>3. ever' \in SUBSET Docs /\ IsFiniteSet(ever')
      BY <2>2, MatchingType
    <2>4. \A d \in start :
             /\ Rank(query, ever, d) \in Nat /\ Rank(query, ever', d) \in Nat
             /\ Rank(query, ever, d) <= Rank(query, ever', d)
      BY <2>1, <2>2, <2>3, RankGrows
    <2>5. /\ \A d \in start : Rank(query, ever, d) < Skip(query) => d \in seen
          /\ query.found =>
                    \A d \in start :
                        Rank(query, ever, d) < Skip(query) + query.limit =>
                            d \in seen \cup query.items
          /\ query.found /\ query.counted
                    /\ query.page >= TotalPages(query.total, query.limit) =>
                        start \subseteq seen \cup query.items
      BY <1>1, <1>2, <1>3 DEF GrowingInv
    <2>6. Skip(query) \in Nat /\ query.limit \in Nat
      BY <1>1, <1>2, <1>3, GrowingPage
    <2>7. /\ \A d \in start : Rank(query, ever', d) < Skip(query) => d \in seen
          /\ query.found =>
                    \A d \in start :
                        Rank(query, ever', d) < Skip(query) + query.limit =>
                            d \in seen \cup query.items
      BY <2>4, <2>5, <2>6
    <2>8. ~(query.counted /\ ~query.found)
      BY <1>1, Zenon
    <2> QED
      BY <1>1, <1>3, <2>2, <2>5, <2>7, <2>8 DEF GrowingInv
  <1>4. CASE query.phase # "page"
    BY <1>1, <1>2, <1>4 DEF GrowingInv
  <1> QED
    BY <1>3, <1>4

LEMMA GrowingFirst ==
    ASSUME NEW limit \in Limits, NEW asc \in BOOLEAN,
           NEW from \in {Key[d] : d \in Docs}, GetFirstPage(limit, asc, from)
    PROVE  GrowingInv'
  <1>1. /\ query' = [phase |-> "page", page |-> 1, limit |-> limit, asc |-> asc,
                    from |-> from, found |-> FALSE, items |-> {},
                    counted |-> FALSE, total |-> 0]
        /\ stored' = stored
        /\ start' = Matching(query', stored) /\ ever' = Matching(query', stored)
    BY DEF GetFirstPage, Unasked
  <1>2. limit \in Nat
    BY QueryAssumption
  <1>3. /\ query'.phase = "page" /\ Skip(query') = 0
        /\ ~query'.found /\ ~query'.counted
    BY <1>1, <1>2 DEF Skip
  <1>4. ever' \in SUBSET Docs /\ IsFiniteSet(ever')
    BY <1>1, MatchingType
  <1>5. \A d \in start' : ~(Rank(query', ever', d) < Skip(query'))
    <2> SUFFICES ASSUME NEW d \in start'
                 PROVE  Rank(query', ever', d) \in Nat
      BY <1>3
    <2> QED
      BY <1>1, <1>4, LikeFits
  <1> QED
    BY <1>1, <1>3, <1>5 DEF GrowingInv

LEMMA GrowingStep == QueryType /\ GrowingInv /\ [Next]_vars => GrowingInv'
  <1> SUFFICES ASSUME QueryType, GrowingInv, [Next]_vars
               PROVE  GrowingInv'
    OBVIOUS
  <1>1. ASSUME NEW limit \in Limits, NEW asc \in BOOLEAN,
               NEW from \in {Key[d] : d \in Docs}, GetFirstPage(limit, asc, from)
        PROVE  GrowingInv'
    BY <1>1, GrowingFirst
  <1>2. CASE Find \/ CountDocuments
    <2>1. lossy' = lossy /\ ever' = ever
      BY <1>2 DEF Find, CountDocuments, history
    <2>2. NoTies' <=> NoTies
      BY <2>1 DEF NoTies
    <2> QED
      BY <1>2, <2>1, <2>2, GrowingCommand DEF GrowingInv
  <1>3. CASE AnswerPage
    <2>1. lossy' = lossy /\ ever' = ever
      BY <1>3 DEF AnswerPage, history
    <2>2. NoTies' <=> NoTies
      BY <2>1 DEF NoTies
    <2> QED
      BY <1>3, <2>1, <2>2, GrowingAnswer DEF GrowingInv
  <1>4. CASE QueryFails
    BY <1>4 DEF QueryFails, GrowingInv, Unasked, history
  <1>5. ASSUME NEW batch \in SUBSET Docs, InsertBatch(batch)
        PROVE  GrowingInv'
    BY <1>5, GrowingInsert DEF GrowingInv
  <1>6. ASSUME NEW ids \in SUBSET Docs, DeleteEvents(ids)
        PROVE  GrowingInv'
    BY <1>6 DEF DeleteEvents, Writes, GrowingInv
  <1>7. CASE UNCHANGED vars
    BY <1>7 DEF vars, GrowingInv, NoTies
  <1> QED
    BY <1>1, <1>2, <1>3, <1>4, <1>5, <1>6, <1>7 DEF Next

\* Reading every page shows all that matched at first although batches land
\* between the pages, unless documents sort alike, one is deleted, or a write
\* falls between the two commands of a page.
THEOREM NothingIsHidden == Spec => []NothingHidden
  <1>1. GrowingInv => NothingHidden
    BY DEF GrowingInv, NothingHidden
  <1> QED
    BY <1>1, QueryTypeInit, QueryTypeStep, GrowingInit, GrowingStep, PTL DEF Spec

(***************************************************************************)
(* Figures of the dashboard                                                *)
(***************************************************************************)

-----------------------------------------------------------------------------
(* Sums                                                                     *)

LEMMA UnitsFinite ==
  ASSUME NEW f, IsFiniteSet(DOMAIN f), \A x \in DOMAIN f : f[x] \in Int
  PROVE  IsFiniteSet(Units(f))
  <1> DEFINE piece == [x \in DOMAIN f |-> {x} \X (1..f[x])]
             pieces == {{x} \X (1..f[x]) : x \in DOMAIN f}
  <1>1. piece \in Surjection(DOMAIN f, pieces)
    BY DEF Surjection
  <1>2. IsFiniteSet(pieces)
    <2> HIDE DEF piece, pieces
    <2> QED BY <1>1, FS_Surjection
  <1>3. ASSUME NEW x \in DOMAIN f PROVE IsFiniteSet({x} \X (1..f[x]))
    <2> HIDE DEF piece, pieces
    <2>1. PICK n \in Int : n = f[x]
      OBVIOUS
    <2>2. IsFiniteSet(1..n)
      BY FS_Interval
    <2>3. IsFiniteSet({x})
      BY FS_Singleton
    <2> QED BY <2>1, <2>2, <2>3, FS_Product
  <1>4. \A T \in pieces : IsFiniteSet(T)
    BY <1>3
  <1>5. IsFiniteSet(UNION pieces)
    <2> HIDE DEF pieces
    <2> QED BY <1>2, <1>4, FS_UNION
  <1> QED BY <1>5 DEF Units

LEMMA UnitsMember ==
  ASSUME NEW f
  PROVE  \A u : u \in Units(f) <=>
            \E x \in DOMAIN f : \E k \in 1..f[x] : u = <<x, k>>
  BY DEF Units

\* The sum of numbers that are not negative is the number of their units.
LEMMA SumOfNaturals ==
  ASSUME NEW f, IsFiniteSet(DOMAIN f), \A x \in DOMAIN f : f[x] \in Nat
  PROVE  /\ IsFiniteSet(Units(f))
         /\ SumOf(f) = Cardinality(Units(f))
         /\ SumOf(f) \in Nat
         /\ SumOf(f) = 0 <=> \A x \in DOMAIN f : f[x] = 0
  <1> DEFINE minus == [x \in DOMAIN f |-> -f[x]]
  <1>1. IsFiniteSet(Units(f))
    BY UnitsFinite
  <1>2. Cardinality(Units(f)) \in Nat
    BY <1>1, FS_CardinalityType
  <1>3. Units(minus) = {}
    <2>1. \A x \in DOMAIN minus : 1..minus[x] = {}
      OBVIOUS
    <2> HIDE DEF minus
    <2> QED BY <2>1, UnitsMember
  <1>4. Cardinality(Units(minus)) = 0
    BY <1>3, FS_EmptySet
  <1>5. SumOf(f) = Cardinality(Units(f))
    BY <1>2, <1>4 DEF SumOf
  <1>6. Units(f) = {} <=> \A x \in DOMAIN f : f[x] = 0
    <2>1. ASSUME NEW x \in DOMAIN f PROVE 1..f[x] = {} <=> f[x] = 0
      <3>1. f[x] # 0 => 1 \in 1..f[x]
        OBVIOUS
      <3>2. f[x] = 0 => 1..f[x] = {}
        OBVIOUS
      <3> QED BY <3>1, <3>2
    <2> QED BY <2>1, UnitsMember
  <1>7. Cardinality(Units(f)) = 0 <=> Units(f) = {}
    BY <1>1, FS_EmptySet
  <1> QED BY <1>1, <1>2, <1>5, <1>6, <1>7

\* h with one more counted for field x, wherever it was.
Adds(h, k, x) ==
    /\ DOMAIN k = DOMAIN h \cup {x}
    /\ \A y \in DOMAIN k : k[y] = Value(h, y) + IF y = x THEN 1 ELSE 0

LEMMA SumAdds ==
  ASSUME NEW h, NEW k, NEW x, Adds(h, k, x),
         IsFiniteSet(DOMAIN h), \A y \in DOMAIN h : h[y] \in Nat
  PROVE  SumOf(k) = SumOf(h) + 1
  <1> DEFINE v == Value(h, x) + 1
  <1>1. v \in Nat \ {0} /\ \A y \in DOMAIN k : k[y] \in Nat
    BY DEF Adds, Value
  <1>2. IsFiniteSet(DOMAIN k)
    BY FS_AddElement DEF Adds
  <1>3. /\ SumOf(h) = Cardinality(Units(h)) /\ SumOf(k) = Cardinality(Units(k))
        /\ IsFiniteSet(Units(h)) /\ SumOf(h) \in Nat
    BY <1>1, <1>2, SumOfNaturals
  <1>4. <<x, v>> \notin Units(h)
    <2>1. x \in DOMAIN h => v \notin 1..h[x]
      BY <1>1 DEF Value
    <2> QED BY <2>1, UnitsMember
  <1>5. \A y \in DOMAIN k : y # x => y \in DOMAIN h /\ k[y] = h[y]
    BY DEF Adds, Value
  <1>6. x \in DOMAIN k /\ k[x] = v /\ DOMAIN h \subseteq DOMAIN k
    BY DEF Adds, Value
  <1>7. 1..v = (1..Value(h, x)) \cup {v}
    BY <1>1 DEF Value
  <1>8. Units(k) = Units(h) \cup {<<x, v>>}
    <2>1. ASSUME NEW u \in Units(k) PROVE u \in Units(h) \cup {<<x, v>>}
      <3>a. PICK y \in DOMAIN k : \E i \in 1..k[y] : u = <<y, i>>
        BY UnitsMember
      <3>1. PICK i \in 1..k[y] : u = <<y, i>>
        BY <3>a
      <3>2. CASE y # x
        BY <3>1, <3>2, <1>5, UnitsMember
      <3>3. CASE y = x /\ i # v
        <4>1. i \in 1..Value(h, x)
          BY <3>1, <3>3, <1>6, <1>7
        <4>2. x \in DOMAIN h
          BY <4>1 DEF Value
        <4> QED BY <4>1, <4>2, <3>1, <3>3, UnitsMember DEF Value
      <3>4. CASE y = x /\ i = v
        BY <3>1, <3>4
      <3> QED BY <3>2, <3>3, <3>4
    <2>2. ASSUME NEW u \in Units(h) PROVE u \in Units(k)
      <3>a. PICK y \in DOMAIN h : \E i \in 1..h[y] : u = <<y, i>>
        BY UnitsMember
      <3>1. PICK i \in 1..h[y] : u = <<y, i>>
        BY <3>a
      <3>2. y \in DOMAIN k /\ i \in 1..k[y]
        <4>1. CASE y = x
          BY <4>1, <3>1, <1>6, <1>7 DEF Value
        <4>2. CASE y # x
          BY <4>2, <3>1, <1>5, <1>6
        <4> QED BY <4>1, <4>2
      <3> QED BY <3>1, <3>2, UnitsMember
    <2>3. <<x, v>> \in Units(k)
      BY <1>1, <1>6, <1>7, UnitsMember
    <2> QED BY <2>1, <2>2, <2>3
  <1>9. Cardinality(Units(k)) = Cardinality(Units(h)) + 1
    <2>1. PICK u : u = <<x, v>>
      OBVIOUS
    <2>2. u \notin Units(h) /\ Units(k) = Units(h) \cup {u}
      BY <2>1, <1>4, <1>8
    <2> QED BY <2>2, <1>3, FS_AddElement
  <1> QED BY <1>3, <1>9

\* A sum does not depend on how its terms are named.
LEMMA UnitsReindexed ==
  ASSUME NEW S, NEW f, NEW g, IsFiniteSet(DOMAIN f), \A x \in DOMAIN f : f[x] \in Int,
         NEW b \in Bijection(S, DOMAIN f), DOMAIN g = S, \A s \in S : g[s] = f[b[s]]
  PROVE  Cardinality(Units(g)) = Cardinality(Units(f))
  <1>1. /\ b \in [S -> DOMAIN f]
        /\ \A s, t \in S : b[s] = b[t] => s = t
        /\ \A x \in DOMAIN f : \E s \in S : b[s] = x
    BY Fun_BijectionProperties
  <1> DEFINE move == [u \in Units(g) |-> <<b[u[1]], u[2]>>]
  <1>2. ASSUME NEW u \in Units(g)
        PROVE  /\ u[1] \in S /\ u[2] \in 1..g[u[1]] /\ u = <<u[1], u[2]>>
               /\ <<b[u[1]], u[2]>> \in Units(f)
    <2>a. PICK s \in S : \E k \in 1..g[s] : u = <<s, k>>
      BY UnitsMember
    <2>1. PICK k \in 1..g[s] : u = <<s, k>>
      BY <2>a
    <2>2. b[s] \in DOMAIN f /\ k \in 1..f[b[s]]
      BY <2>1, <1>1
    <2>3. <<b[s], k>> \in Units(f)
      BY <2>2, UnitsMember
    <2> QED BY <2>1, <2>3
  <1>3. move \in [Units(g) -> Units(f)]
    BY <1>2
  <1>4. \A u, w \in Units(g) : move[u] = move[w] => u = w
    <2> SUFFICES ASSUME NEW u \in Units(g), NEW w \in Units(g), move[u] = move[w]
                 PROVE  u = w
      OBVIOUS
    <2>1. b[u[1]] = b[w[1]] /\ u[2] = w[2]
      OBVIOUS
    <2>2. u[1] = w[1]
      BY <2>1, <1>1, <1>2
    <2>3. u = <<u[1], u[2]>> /\ w = <<w[1], w[2]>>
      BY <1>2
    <2> QED BY <2>1, <2>2, <2>3
  <1>5. \A w \in Units(f) : \E u \in Units(g) : move[u] = w
    <2> SUFFICES ASSUME NEW w \in Units(f) PROVE \E u \in Units(g) : move[u] = w
      OBVIOUS
    <2>a. PICK x \in DOMAIN f : \E k \in 1..f[x] : w = <<x, k>>
      BY UnitsMember
    <2>1. PICK k \in 1..f[x] : w = <<x, k>>
      BY <2>a
    <2>2. PICK s \in S : b[s] = x
      BY <1>1
    <2>3. <<s, k>> \in Units(g)
      BY <2>1, <2>2, UnitsMember
    <2> QED BY <2>1, <2>2, <2>3
  <1>6. move \in Bijection(Units(g), Units(f))
    <2> HIDE DEF move
    <2> QED BY <1>3, <1>4, <1>5, Fun_IsBij
  <1>7. ExistsBijection(Units(f), Units(g))
    BY <1>6, Fun_ExistsBijSymmetric DEF ExistsBijection
  <1>8. IsFiniteSet(Units(f))
    BY UnitsFinite
  <1> QED BY <1>7, <1>8, FS_Bijection

LEMMA SumReindexed ==
  ASSUME NEW S, NEW f, NEW g, IsFiniteSet(DOMAIN f), \A x \in DOMAIN f : f[x] \in Int,
         NEW b \in Bijection(S, DOMAIN f), DOMAIN g = S, \A s \in S : g[s] = f[b[s]]
  PROVE  SumOf(g) = SumOf(f)
  <1> DEFINE mf == [x \in DOMAIN f |-> -f[x]]
             mg == [s \in DOMAIN g |-> -g[s]]
  <1>1. Cardinality(Units(g)) = Cardinality(Units(f))
    BY UnitsReindexed
  <1>2. /\ IsFiniteSet(DOMAIN mf) /\ \A x \in DOMAIN mf : mf[x] \in Int
        /\ DOMAIN mf = DOMAIN f /\ DOMAIN mg = S
    OBVIOUS
  <1>3. \A s \in S : mg[s] = mf[b[s]]
    BY Fun_BijectionProperties
  <1>4. b \in Bijection(S, DOMAIN mf)
    OBVIOUS
  <1>5. Cardinality(Units(mg)) = Cardinality(Units(mf))
    <2> HIDE DEF mf, mg
    <2> QED BY <1>2, <1>3, <1>4, UnitsReindexed
  <1> QED BY <1>1, <1>5 DEF SumOf

LEMMA SumInteger ==
  ASSUME NEW f, IsFiniteSet(DOMAIN f), \A x \in DOMAIN f : f[x] \in Int
  PROVE  SumOf(f) \in Int /\ (DOMAIN f = {} => SumOf(f) = 0)
  <1> DEFINE mf == [x \in DOMAIN f |-> -f[x]]
  <1>1. DOMAIN mf = DOMAIN f /\ \A x \in DOMAIN mf : mf[x] \in Int
    OBVIOUS
  <1>2. IsFiniteSet(Units(mf)) /\ (DOMAIN f = {} => Units(mf) = {})
    <2> HIDE DEF mf
    <2> QED BY <1>1, UnitsFinite, UnitsMember
  <1>3. IsFiniteSet(Units(f)) /\ (DOMAIN f = {} => Units(f) = {})
    BY UnitsFinite, UnitsMember
  <1> QED BY <1>2, <1>3, FS_CardinalityType, FS_EmptySet DEF SumOf

-----------------------------------------------------------------------------
(* Hashes, and the merge of those of several minutes                        *)

Hash(h) == IsFiniteSet(DOMAIN h) /\ \A f \in DOMAIN h : h[f] \in Nat \ {0}

LEMMA ValueTyped ==
  ASSUME NEW h, Hash(h), NEW f
  PROVE  Value(h, f) \in Nat /\ (Value(h, f) = 0 <=> f \notin DOMAIN h)
  BY DEF Hash, Value

LEMMA ValueAdds ==
  ASSUME NEW h, NEW k, NEW x, Adds(h, k, x), \A f \in DOMAIN h : h[f] \in Nat
  PROVE  \A f : Value(k, f) = Value(h, f) + IF f = x THEN 1 ELSE 0
  BY DEF Adds, Value

LEMMA IncrAdds ==
  ASSUME NEW h, Hash(h), NEW x
  PROVE  Adds(h, Incr(h, x), x) /\ Hash(Incr(h, x))
  <1>1. Adds(h, Incr(h, x), x)
    BY DEF Adds, Incr
  <1>2. IsFiniteSet(DOMAIN Incr(h, x))
    BY FS_AddElement DEF Incr, Hash
  <1>3. \A f \in DOMAIN Incr(h, x) : Incr(h, x)[f] \in Nat \ {0}
    BY DEF Incr, Hash, Value
  <1> QED BY <1>1, <1>2, <1>3 DEF Hash

LEMMA ValueMerged ==
  ASSUME NEW b, NEW M, IsFiniteSet(M), \A m \in M : Hash(b[m]), NEW f
  PROVE  /\ SumOf([m \in M |-> Value(b[m], f)]) \in Nat
         /\ Value(Merged(b, M), f) = SumOf([m \in M |-> Value(b[m], f)])
         /\ f \in DOMAIN Merged(b, M) <=> \E m \in M : f \in DOMAIN b[m]
         /\ f \in DOMAIN Merged(b, M) => Value(Merged(b, M), f) # 0
  <1> DEFINE g == [m \in M |-> Value(b[m], f)]
  <1>1. \A m \in M : Value(b[m], f) \in Nat /\ (Value(b[m], f) = 0 <=> f \notin DOMAIN b[m])
    BY ValueTyped
  <1>2. IsFiniteSet(DOMAIN g) /\ \A m \in DOMAIN g : g[m] \in Nat
    BY <1>1
  <1>3. SumOf(g) \in Nat /\ (SumOf(g) = 0 <=> \A m \in DOMAIN g : g[m] = 0)
    <2> HIDE DEF g
    <2> QED BY <1>2, SumOfNaturals
  <1>4. f \in DOMAIN Merged(b, M) <=> \E m \in M : f \in DOMAIN b[m]
    BY DEF Merged
  <1>5. f \in DOMAIN Merged(b, M) => Merged(b, M)[f] = SumOf(g)
    BY DEF Merged
  <1>6. SumOf(g) = 0 <=> f \notin DOMAIN Merged(b, M)
    BY <1>1, <1>3, <1>4
  <1> HIDE DEF g
  <1>7. Value(Merged(b, M), f) = SumOf(g)
    BY <1>5, <1>6 DEF Value
  <1> QED BY <1>3, <1>4, <1>6, <1>7 DEF g

LEMMA HashMerged ==
  ASSUME NEW b, NEW M, IsFiniteSet(M), \A m \in M : Hash(b[m])
  PROVE  Hash(Merged(b, M))
  <1> DEFINE domain == [m \in M |-> DOMAIN b[m]]
             domains == {DOMAIN b[m] : m \in M}
  <1>1. domain \in Surjection(M, domains)
    BY DEF Surjection
  <1>2. IsFiniteSet(domains)
    <2> HIDE DEF domain, domains
    <2> QED BY <1>1, FS_Surjection
  <1>3. \A T \in domains : IsFiniteSet(T)
    BY DEF Hash
  <1>4. IsFiniteSet(UNION domains)
    <2> HIDE DEF domains
    <2> QED BY <1>2, <1>3, FS_UNION
  <1>5. IsFiniteSet(DOMAIN Merged(b, M))
    BY <1>4 DEF Merged
  <1>6. ASSUME NEW f \in DOMAIN Merged(b, M) PROVE Merged(b, M)[f] \in Nat \ {0}
    <2>1. /\ Value(Merged(b, M), f) = SumOf([m \in M |-> Value(b[m], f)])
          /\ SumOf([m \in M |-> Value(b[m], f)]) \in Nat
          /\ Value(Merged(b, M), f) # 0
      BY ValueMerged
    <2>2. Value(Merged(b, M), f) = Merged(b, M)[f]
      BY DEF Value
    <2> QED BY <2>1, <2>2
  <1> QED BY <1>5, <1>6 DEF Hash

\* What is counted in one minute is counted once in what is merged with it,
\* and nowhere else.
LEMMA MergedAdds ==
  ASSUME NEW b, NEW c, NEW M, IsFiniteSet(M), \A m \in M : Hash(b[m]) /\ Hash(c[m]),
         NEW n, NEW x, n \in M => Adds(b[n], c[n], x),
         \A m \in M : m # n => c[m] = b[m]
  PROVE  /\ n \in M => Adds(Merged(b, M), Merged(c, M), x)
         /\ n \notin M => Merged(c, M) = Merged(b, M)
  <1>1. CASE n \in M
    <2>1. ASSUME NEW f
          PROVE  Value(Merged(c, M), f) = Value(Merged(b, M), f) + IF f = x THEN 1 ELSE 0
      <3> DEFINE g == [m \in M |-> Value(b[m], f)]
                 h == [m \in M |-> Value(c[m], f)]
      <3>1. Value(Merged(b, M), f) = SumOf(g) /\ Value(Merged(c, M), f) = SumOf(h)
        BY ValueMerged
      <3>2. Value(c[n], f) = Value(b[n], f) + IF f = x THEN 1 ELSE 0
        BY <1>1, ValueAdds DEF Hash
      <3>3. IsFiniteSet(DOMAIN g) /\ \A m \in DOMAIN g : g[m] \in Nat
        BY ValueTyped
      <3>4. CASE f = x
        <4>1. Adds(g, h, n)
          <5>1. DOMAIN h = DOMAIN g \cup {n}
            BY <1>1
          <5>2. ASSUME NEW m \in DOMAIN h PROVE h[m] = Value(g, m) + IF m = n THEN 1 ELSE 0
            <6>1. Value(g, m) = g[m]
              BY DEF Value
            <6>2. g[m] \in Nat
              BY <3>3
            <6> QED BY <6>1, <6>2, <3>2, <3>4
          <5> QED BY <5>1, <5>2 DEF Adds
        <4>2. SumOf(h) = SumOf(g) + 1
          <5> HIDE DEF g, h
          <5> QED BY <4>1, <3>3, SumAdds
        <4> QED BY <3>1, <3>4, <4>2
      <3>5. CASE f # x
        <4>1. Value(c[n], f) = Value(b[n], f)
          BY <3>2, <3>5, <1>1, ValueTyped
        <4>2. h = g
          BY <4>1
        <4>3. SumOf(g) \in Nat
          BY ValueMerged
        <4> QED BY <3>1, <3>5, <4>2, <4>3
      <3> QED BY <3>4, <3>5
    <2>2. DOMAIN Merged(c, M) = DOMAIN Merged(b, M) \cup {x}
      BY <1>1 DEF Merged, Adds
    <2>3. \A f \in DOMAIN Merged(c, M) : Merged(c, M)[f] = Value(Merged(c, M), f)
      BY DEF Value
    <2> QED BY <1>1, <2>1, <2>2, <2>3 DEF Adds
  <1>2. CASE n \notin M
    <2>1. \A m \in M : c[m] = b[m]
      BY <1>2
    <2>2. {DOMAIN b[m] : m \in M} = {DOMAIN c[m] : m \in M}
      BY <2>1
    <2>3. \A f : [m \in M |-> Value(c[m], f)] = [m \in M |-> Value(b[m], f)]
      BY <2>1
    <2> QED BY <1>2, <2>2, <2>3 DEF Merged
  <1> QED BY <1>1, <1>2

\* A hash without the field of the total.
Without(h) == [f \in DOMAIN h \ {TotalEvents} |-> h[f]]

LEMMA WithoutAdds ==
  ASSUME NEW h, NEW k, NEW x, Hash(h), Adds(h, k, x)
  PROVE  /\ x # TotalEvents => SumOf(Without(k)) = SumOf(Without(h)) + 1
         /\ x = TotalEvents => SumOf(Without(k)) = SumOf(Without(h))
  <1>1. /\ DOMAIN Without(h) = DOMAIN h \ {TotalEvents}
        /\ \A f \in DOMAIN Without(h) : Without(h)[f] = h[f] /\ h[f] \in Nat
        /\ DOMAIN Without(k) = DOMAIN k \ {TotalEvents}
        /\ \A f \in DOMAIN Without(k) : Without(k)[f] = k[f]
    BY DEF Without, Hash
  <1>2. IsFiniteSet(DOMAIN Without(h))
    <2>1. PICK D : D = DOMAIN h
      OBVIOUS
    <2>2. IsFiniteSet(D \ {TotalEvents})
      BY <2>1, FS_Difference DEF Hash
    <2> QED BY <1>1, <2>1, <2>2
  <1>3. CASE x # TotalEvents
    <2>1. Adds(Without(h), Without(k), x)
      BY <1>1, <1>3 DEF Adds, Value
    <2> QED BY <2>1, <1>1, <1>2, <1>3, SumAdds
  <1>4. CASE x = TotalEvents
    <2>1. DOMAIN h \ {TotalEvents} = DOMAIN k \ {TotalEvents}
      BY <1>4 DEF Adds
    <2>2. \A f \in DOMAIN h \ {TotalEvents} : k[f] = h[f]
      BY <1>4, <2>1 DEF Adds, Value, Hash
    <2>3. Without(k) = Without(h)
      BY <2>1, <2>2 DEF Without
    <2> QED BY <2>3, <1>4
  <1> QED BY <1>3, <1>4

-----------------------------------------------------------------------------
(* The invariants                                                           *)

Entries == [at : Minutes, event : Kinds]

\* Every bucket counts what it may, over every minute of the model.
CountsTyped ==
    /\ log \in Seq(Entries) /\ now \in Minutes
    /\ DOMAIN volume = Minutes /\ DOMAIN types = Minutes
    /\ DOMAIN countries = Minutes /\ DOMAIN conversions = Minutes
    /\ \A m \in Minutes :
          Hash(volume[m]) /\ Hash(types[m]) /\ Hash(countries[m]) /\ Hash(conversions[m])

Converted == {e \in Kinds \ Nulls : e.name \in Converting}
EventNames == {e.name : e \in Kinds}
Unreserved == {e \in Kinds : e.name # TotalEvents}

\* What the buckets of any minutes, not only those of a window, add up to.
VolumeInv ==
    \A M \in SUBSET Minutes :
       Value(Merged(volume, M), TotalEvents) = Number(M, Kinds) + Number(M, Named(TotalEvents))

TypesInv ==
    \A M \in SUBSET Minutes :
       /\ DOMAIN Merged(types, M) = {log[i].event.name : i \in Those(M, Kinds)}
       /\ \A n \in EventNames : Value(Merged(types, M), n) = Number(M, Named(n))
       /\ SumOf(Without(Merged(types, M))) = Number(M, Unreserved)

CountriesInv ==
    \A M \in SUBSET Minutes : SumOf(Merged(countries, M)) = Number(M, Kinds \ Nulls)

ConversionsInv ==
    \A M \in SUBSET Minutes : SumOf(Merged(conversions, M)) = Number(M, Converted)

\* The users of a minute are those of its events that have a payload.
UsersInv ==
    /\ DOMAIN users = Minutes
    /\ \A m \in Minutes :
          users[m] = {User(log[i].event) : i \in Those({m}, Kinds \ Nulls)}

\* The times of a minute are those of its newest events, each at the place the
\* events after it leave it.
Newer(i) == {j \in Those({log[i].at}, Kinds) : i < j}
Place(i) == Cardinality(Newer(i)) + 1

TimesInv ==
    /\ DOMAIN times = Minutes
    /\ \A m \in Minutes :
          /\ times[m] \in Seq(Int) /\ Len(times[m]) <= TimesKept
          /\ \A k \in 1..Len(times[m]) :
                \E i \in DOMAIN log :
                   log[i].at = m /\ Place(i) = k /\ times[m][k] = log[i].event.lag
          /\ \A i \in DOMAIN log :
                log[i].at = m /\ Place(i) <= TimesKept => Place(i) <= Len(times[m])

-----------------------------------------------------------------------------
(* The steps                                                                *)

LEMMA MinutesFinite == \A M \in SUBSET Minutes : IsFiniteSet(M)
  <1>1. IsFiniteSet(1..MaxMinute)
    BY ReportAssumption, FS_Interval
  <1> QED BY <1>1, FS_Subset DEF Minutes

LEMMA ThoseFinite ==
  ASSUME log \in Seq(Entries), NEW M, NEW K
  PROVE  IsFiniteSet(Those(M, K)) /\ Number(M, K) \in Nat
  <1>1. IsFiniteSet(1..Len(log))
    BY FS_Interval
  <1>2. Those(M, K) \subseteq 1..Len(log)
    BY DEF Those
  <1> QED BY <1>1, <1>2, FS_Subset, FS_CardinalityType DEF Number

LEMMA LogStep ==
  ASSUME log \in Seq(Entries), now \in Minutes, NEW e \in Kinds,
         log' = Append(log, [at |-> now, event |-> e])
  PROVE  /\ log' \in Seq(Entries)
         /\ Len(log) \in Nat /\ DOMAIN log = 1..Len(log)
         /\ DOMAIN log' = 1..(Len(log) + 1)
         /\ log'[Len(log) + 1].at = now /\ log'[Len(log) + 1].event = e
         /\ \A i \in DOMAIN log : log'[i] = log[i] /\ log[i] \in Entries
  <1>1. [at |-> now, event |-> e] \in Entries
    BY DEF Entries
  <1> QED BY <1>1

LEMMA ThoseStep ==
  ASSUME log \in Seq(Entries), now \in Minutes, NEW e \in Kinds,
         log' = Append(log, [at |-> now, event |-> e]), NEW M, NEW K
  PROVE  /\ Those(M, K)' = Those(M, K)
              \cup IF now \in M /\ e \in K THEN {Len(log) + 1} ELSE {}
         /\ Number(M, K)' = Number(M, K) + IF now \in M /\ e \in K THEN 1 ELSE 0
         /\ Number(M, K) \in Nat
  <1> DEFINE n == Len(log) + 1
  <1>1. /\ DOMAIN log = 1..Len(log) /\ DOMAIN log' = 1..n /\ Len(log) \in Nat
        /\ log'[n].at = now /\ log'[n].event = e
        /\ \A i \in DOMAIN log : log'[i] = log[i]
    BY LogStep
  <1>2. DOMAIN log' = DOMAIN log \cup {n} /\ n \notin DOMAIN log
    BY <1>1
  <1> HIDE DEF n
  <1>3. Those(M, K)' = {i \in DOMAIN log' : log'[i].at \in M /\ log'[i].event \in K}
    BY DEF Those
  <1>4. Those(M, K)' = Those(M, K) \cup IF now \in M /\ e \in K THEN {n} ELSE {}
    BY <1>1, <1>2, <1>3 DEF Those
  <1>5. n \notin Those(M, K)
    BY <1>2 DEF Those
  <1>6. IsFiniteSet(Those(M, K)) /\ Number(M, K) \in Nat
    BY ThoseFinite
  <1>7. Number(M, K)' = Cardinality(Those(M, K)')
    BY DEF Number
  <1>8. CASE now \in M /\ e \in K
    <2>1. Those(M, K)' = Those(M, K) \cup {n}
      BY <1>4, <1>8
    <2> QED BY <2>1, <1>5, <1>6, <1>7, <1>8, <1>4, FS_AddElement DEF Number, n
  <1>9. CASE ~(now \in M /\ e \in K)
    <2>1. Those(M, K)' = Those(M, K)
      BY <1>4, <1>9
    <2> QED BY <2>1, <1>6, <1>7, <1>9 DEF Number
  <1> QED BY <1>8, <1>9

\* One bucket of a kind gets one more of a field.
LEMMA BucketStep ==
  ASSUME NEW b, NEW c, DOMAIN b = Minutes, NEW m \in Minutes, NEW x,
         \A n \in Minutes : Hash(b[n]), DOMAIN c = Minutes, c[m] = Incr(b[m], x),
         \A n \in Minutes : n # m => c[n] = b[n]
  PROVE  /\ DOMAIN c = Minutes /\ \A n \in Minutes : Hash(c[n])
         /\ \A M \in SUBSET Minutes :
               /\ m \in M => Adds(Merged(b, M), Merged(c, M), x)
               /\ m \notin M => Merged(c, M) = Merged(b, M)
               /\ Hash(Merged(b, M)) /\ Hash(Merged(c, M))
  <1>1. Adds(b[m], c[m], x) /\ Hash(c[m])
    BY IncrAdds
  <1>2. \A n \in Minutes : Hash(c[n])
    BY <1>1
  <1>3. ASSUME NEW M \in SUBSET Minutes
        PROVE  /\ m \in M => Adds(Merged(b, M), Merged(c, M), x)
               /\ m \notin M => Merged(c, M) = Merged(b, M)
               /\ Hash(Merged(b, M)) /\ Hash(Merged(c, M))
    <2>1. /\ IsFiniteSet(M) /\ \A n \in M : Hash(b[n]) /\ Hash(c[n])
          /\ \A n \in M : n # m => c[n] = b[n]
      BY <1>2, MinutesFinite
    <2>2. Hash(Merged(b, M)) /\ Hash(Merged(c, M))
      BY <2>1, HashMerged
    <2> QED BY <1>1, <2>1, <2>2, MergedAdds
  <1> QED BY <1>2, <1>3

LEMMA VolumeStep ==
  ASSUME CountsTyped, VolumeInv, NEW e \in Kinds, ProcessEvent(e)
  PROVE  /\ VolumeInv' /\ DOMAIN volume' = Minutes
         /\ \A m \in Minutes : Hash(volume'[m])
  <1> DEFINE half == [volume EXCEPT ![now] = Incr(@, TotalEvents)]
  <1>1. /\ now \in Minutes /\ DOMAIN volume = Minutes /\ \A n \in Minutes : Hash(volume[n])
        /\ log \in Seq(Entries) /\ log' = Append(log, [at |-> now, event |-> e])
    BY DEF CountsTyped, ProcessEvent
  <1>2. volume' = [volume EXCEPT ![now] = Incr(Incr(@, TotalEvents), e.name)]
    BY DEF ProcessEvent, UpdateVolumeMetrics
  <1>3. /\ DOMAIN half = Minutes /\ half[now] = Incr(volume[now], TotalEvents)
        /\ \A n \in Minutes : n # now => half[n] = volume[n]
        /\ DOMAIN volume' = Minutes /\ volume'[now] = Incr(half[now], e.name)
        /\ \A n \in Minutes : n # now => volume'[n] = half[n]
    BY <1>1, <1>2
  <1> HIDE DEF half
  <1>4. /\ DOMAIN half = Minutes /\ \A n \in Minutes : Hash(half[n])
        /\ \A M \in SUBSET Minutes :
              /\ now \in M => Adds(Merged(volume, M), Merged(half, M), TotalEvents)
              /\ now \notin M => Merged(half, M) = Merged(volume, M)
              /\ Hash(Merged(volume, M)) /\ Hash(Merged(half, M))
    BY <1>1, <1>3, BucketStep
  <1>5. PICK x : x = e.name
    OBVIOUS
  <1>6. /\ DOMAIN volume' = Minutes /\ \A n \in Minutes : Hash(volume'[n])
        /\ \A M \in SUBSET Minutes :
              /\ now \in M => Adds(Merged(half, M), Merged(volume', M), x)
              /\ now \notin M => Merged(volume', M) = Merged(half, M)
    <2>1. PICK b : b = half
      OBVIOUS
    <2>2. PICK c : c = volume'
      OBVIOUS
    <2>3. /\ DOMAIN b = Minutes /\ \A n \in Minutes : Hash(b[n])
          /\ DOMAIN c = Minutes /\ now \in Minutes /\ c[now] = Incr(b[now], x)
          /\ \A n \in Minutes : n # now => c[n] = b[n]
      BY <1>1, <1>3, <1>4, <1>5, <2>1, <2>2
    <2>4. /\ \A n \in Minutes : Hash(c[n])
          /\ \A M \in SUBSET Minutes :
                /\ now \in M => Adds(Merged(b, M), Merged(c, M), x)
                /\ now \notin M => Merged(c, M) = Merged(b, M)
      BY <2>3, BucketStep
    <2> QED BY <2>1, <2>2, <2>3, <2>4
  <1>7. ASSUME NEW M \in SUBSET Minutes
        PROVE  Value(Merged(volume', M), TotalEvents)
                  = Number(M, Kinds)' + Number(M, Named(TotalEvents))'
    <2>1. /\ Number(M, Kinds)' = Number(M, Kinds) + IF now \in M /\ e \in Kinds THEN 1 ELSE 0
          /\ Number(M, Kinds) \in Nat
      BY <1>1, ThoseStep
    <2>2. /\ Number(M, Named(TotalEvents))' = Number(M, Named(TotalEvents))
                + IF now \in M /\ e \in Named(TotalEvents) THEN 1 ELSE 0
          /\ Number(M, Named(TotalEvents)) \in Nat
      BY <1>1, ThoseStep
    <2>3. e \in Named(TotalEvents) <=> x = TotalEvents
      BY <1>5 DEF Named
    <2>4. Value(Merged(volume, M), TotalEvents)
             = Number(M, Kinds) + Number(M, Named(TotalEvents))
      BY DEF VolumeInv
    <2>5. CASE now \in M
      <3>1. Value(Merged(half, M), TotalEvents) = Value(Merged(volume, M), TotalEvents) + 1
        BY <1>4, <2>5, ValueAdds DEF Hash
      <3>2. Value(Merged(volume', M), TotalEvents)
               = Value(Merged(half, M), TotalEvents) + IF TotalEvents = x THEN 1 ELSE 0
        BY <1>4, <1>6, <2>5, ValueAdds DEF Hash
      <3> QED BY <2>1, <2>2, <2>3, <2>4, <2>5, <3>1, <3>2
    <2>6. CASE now \notin M
      BY <2>1, <2>2, <2>4, <2>6, <1>4, <1>6
    <2> QED BY <2>5, <2>6
  <1>8. VolumeInv'
    BY <1>7 DEF VolumeInv
  <1> QED BY <1>6, <1>8

LEMMA TypesStep ==
  ASSUME CountsTyped, TypesInv, NEW e \in Kinds, ProcessEvent(e)
  PROVE  /\ TypesInv' /\ DOMAIN types' = Minutes
         /\ \A m \in Minutes : Hash(types'[m])
  <1>1. /\ now \in Minutes /\ DOMAIN types = Minutes /\ \A n \in Minutes : Hash(types[n])
        /\ log \in Seq(Entries) /\ log' = Append(log, [at |-> now, event |-> e])
    BY DEF CountsTyped, ProcessEvent
  <1>2. PICK x : x = e.name
    OBVIOUS
  <1>3. /\ DOMAIN types' = Minutes /\ types'[now] = Incr(types[now], x)
        /\ \A n \in Minutes : n # now => types'[n] = types[n]
    BY <1>1, <1>2 DEF ProcessEvent, UpdateEventTypeMetrics
  <1>4. /\ DOMAIN types' = Minutes /\ \A n \in Minutes : Hash(types'[n])
        /\ \A M \in SUBSET Minutes :
              /\ now \in M => Adds(Merged(types, M), Merged(types', M), x)
              /\ now \notin M => Merged(types', M) = Merged(types, M)
              /\ Hash(Merged(types, M)) /\ Hash(Merged(types', M))
    BY <1>1, <1>3, BucketStep
  <1>5. ASSUME NEW M \in SUBSET Minutes
        PROVE  DOMAIN Merged(types', M) = {log'[i].event.name : i \in Those(M, Kinds)'}
    <2>1. DOMAIN Merged(types, M) = {log[i].event.name : i \in Those(M, Kinds)}
      BY DEF TypesInv
    <2>2. /\ Len(log) \in Nat /\ DOMAIN log = 1..Len(log)
          /\ log'[Len(log) + 1].event = e
          /\ \A i \in DOMAIN log : log'[i] = log[i]
      BY <1>1, LogStep
    <2>3. Those(M, Kinds)' = Those(M, Kinds) \cup IF now \in M THEN {Len(log) + 1} ELSE {}
      BY <1>1, ThoseStep
    <2>4. Those(M, Kinds) \subseteq DOMAIN log
      BY DEF Those
    <2>5. \A i \in Those(M, Kinds) : log'[i] = log[i]
      BY <2>2, <2>4
    <2>6. {log'[i].event.name : i \in Those(M, Kinds)}
             = {log[i].event.name : i \in Those(M, Kinds)}
      BY <2>5
    <2>7. CASE now \in M
      <3>1. DOMAIN Merged(types', M) = DOMAIN Merged(types, M) \cup {x}
        BY <1>4, <2>7 DEF Adds
      <3>2. {log'[i].event.name : i \in Those(M, Kinds)'}
               = {log'[i].event.name : i \in Those(M, Kinds)} \cup {x}
        BY <1>2, <2>2, <2>3, <2>7
      <3> QED BY <2>1, <2>6, <3>1, <3>2
    <2>8. CASE now \notin M
      BY <1>4, <2>1, <2>3, <2>6, <2>8
    <2> QED BY <2>7, <2>8
  <1>6. ASSUME NEW M \in SUBSET Minutes, NEW n \in EventNames
        PROVE  Value(Merged(types', M), n) = Number(M, Named(n))'
    <2>1. /\ Number(M, Named(n))' = Number(M, Named(n))
                + IF now \in M /\ e \in Named(n) THEN 1 ELSE 0
          /\ Number(M, Named(n)) \in Nat
      BY <1>1, ThoseStep
    <2>2. e \in Named(n) <=> n = x
      BY <1>2 DEF Named
    <2>3. Value(Merged(types, M), n) = Number(M, Named(n))
      BY DEF TypesInv
    <2>4. CASE now \in M
      <3>1. Value(Merged(types', M), n)
               = Value(Merged(types, M), n) + IF n = x THEN 1 ELSE 0
        BY <1>4, <2>4, ValueAdds DEF Hash
      <3> QED BY <2>1, <2>2, <2>3, <2>4, <3>1
    <2>5. CASE now \notin M
      BY <1>4, <2>1, <2>3, <2>5
    <2> QED BY <2>4, <2>5
  <1>7. ASSUME NEW M \in SUBSET Minutes
        PROVE  SumOf(Without(Merged(types', M))) = Number(M, Unreserved)'
    <2>1. /\ Number(M, Unreserved)' = Number(M, Unreserved)
                + IF now \in M /\ e \in Unreserved THEN 1 ELSE 0
          /\ Number(M, Unreserved) \in Nat
      BY <1>1, ThoseStep
    <2>2. e \in Unreserved <=> x # TotalEvents
      BY <1>2 DEF Unreserved
    <2>3. SumOf(Without(Merged(types, M))) = Number(M, Unreserved)
      BY DEF TypesInv
    <2>4. CASE now \in M
      BY <1>4, <2>1, <2>2, <2>3, <2>4, WithoutAdds
    <2>5. CASE now \notin M
      BY <1>4, <2>1, <2>3, <2>5
    <2> QED BY <2>4, <2>5
  <1>8. TypesInv'
    BY <1>5, <1>6, <1>7 DEF TypesInv
  <1> QED BY <1>4, <1>8

\* What the fields of merged buckets add up to is one more as well.
LEMMA SumStep ==
  ASSUME NEW b, NEW c, DOMAIN b = Minutes, NEW m \in Minutes, NEW x,
         \A n \in Minutes : Hash(b[n]), DOMAIN c = Minutes, c[m] = Incr(b[m], x),
         \A n \in Minutes : n # m => c[n] = b[n]
  PROVE  /\ \A n \in Minutes : Hash(c[n])
         /\ \A M \in SUBSET Minutes :
               SumOf(Merged(c, M)) = SumOf(Merged(b, M)) + IF m \in M THEN 1 ELSE 0
  <1>1. /\ \A n \in Minutes : Hash(c[n])
        /\ \A M \in SUBSET Minutes :
              /\ m \in M => Adds(Merged(b, M), Merged(c, M), x)
              /\ m \notin M => Merged(c, M) = Merged(b, M)
              /\ Hash(Merged(b, M)) /\ Hash(Merged(c, M))
    BY BucketStep
  <1>2. ASSUME NEW M \in SUBSET Minutes
        PROVE  SumOf(Merged(c, M)) = SumOf(Merged(b, M)) + IF m \in M THEN 1 ELSE 0
    <2>1. CASE m \in M
      BY <1>1, <2>1, SumAdds DEF Hash
    <2>2. CASE m \notin M
      <3>1. SumOf(Merged(b, M)) \in Nat
        BY <1>1, SumOfNaturals DEF Hash
      <3> QED BY <1>1, <2>2, <3>1
    <2> QED BY <2>1, <2>2
  <1> QED BY <1>1, <1>2

LEMMA CountriesStep ==
  ASSUME CountsTyped, CountriesInv, NEW e \in Kinds, ProcessEvent(e)
  PROVE  /\ CountriesInv' /\ DOMAIN countries' = Minutes
         /\ \A m \in Minutes : Hash(countries'[m])
  <1>1. log' = Append(log, [at |-> now, event |-> e])
    BY DEF ProcessEvent
  <1>2. e \in Kinds \ Nulls <=> ~e.null
    BY DEF Nulls
  <1>3. PICK K : K = Kinds \ Nulls
    OBVIOUS
  <1>4. PICK x : IF e \in K
                 THEN /\ DOMAIN countries' = Minutes /\ countries'[now] = Incr(countries[now], x)
                      /\ \A n \in Minutes : n # now => countries'[n] = countries[n]
                 ELSE countries' = countries
    BY <1>2, <1>3 DEF CountsTyped, ProcessEvent, UpdateGeographicMetrics
  <1>5. DOMAIN countries = Minutes /\ \A m \in Minutes : Hash(countries[m])
    BY DEF CountsTyped
  <1>6. \A M \in SUBSET Minutes : SumOf(Merged(countries, M)) = Number(M, K)
    BY <1>3 DEF CountriesInv
  <1>7. \A M \in SUBSET Minutes :
           Number(M, K)' = Number(M, K) + IF now \in M /\ e \in K THEN 1 ELSE 0
    BY <1>1, ThoseStep DEF CountsTyped
  <1>8. /\ DOMAIN countries' = Minutes /\ \A m \in Minutes : Hash(countries'[m])
        /\ \A M \in SUBSET Minutes : SumOf(Merged(countries', M)) = Number(M, K)'
    <2>1. CASE e \in K
      <3>1. PICK b : b = countries
        OBVIOUS
      <3>2. PICK c : c = countries'
        OBVIOUS
      <3>3. /\ DOMAIN b = Minutes /\ \A n \in Minutes : Hash(b[n])
            /\ DOMAIN c = Minutes /\ now \in Minutes /\ c[now] = Incr(b[now], x)
            /\ \A n \in Minutes : n # now => c[n] = b[n]
        BY <1>4, <1>5, <2>1, <3>1, <3>2 DEF CountsTyped
      <3>4. /\ \A n \in Minutes : Hash(c[n])
            /\ \A M \in SUBSET Minutes :
                  SumOf(Merged(c, M)) = SumOf(Merged(b, M)) + IF now \in M THEN 1 ELSE 0
        BY <3>3, SumStep
      <3> QED BY <1>6, <1>7, <2>1, <3>1, <3>2, <3>3, <3>4
    <2>2. CASE e \notin K
      <3>1. \A M \in SUBSET Minutes : Number(M, K)' = Number(M, K)
        BY <1>1, <2>2, ThoseStep DEF CountsTyped
      <3> QED BY <1>4, <1>5, <1>6, <2>2, <3>1
    <2> QED BY <2>1, <2>2
  <1> QED BY <1>3, <1>8 DEF CountriesInv

LEMMA ConversionsStep ==
  ASSUME CountsTyped, ConversionsInv, NEW e \in Kinds, ProcessEvent(e)
  PROVE  /\ ConversionsInv' /\ DOMAIN conversions' = Minutes
         /\ \A m \in Minutes : Hash(conversions'[m])
  <1>1. log' = Append(log, [at |-> now, event |-> e])
    BY DEF ProcessEvent
  <1>2. e \in Converted <=> ~e.null /\ e.name \in Converting
    BY DEF Converted, Nulls
  <1>3. PICK K : K = Converted
    OBVIOUS
  <1>4. PICK x : IF e \in K
                 THEN /\ DOMAIN conversions' = Minutes /\ conversions'[now] = Incr(conversions[now], x)
                      /\ \A n \in Minutes : n # now => conversions'[n] = conversions[n]
                 ELSE conversions' = conversions
    BY <1>2, <1>3 DEF CountsTyped, ProcessEvent, UpdateUserMetrics
  <1>5. DOMAIN conversions = Minutes /\ \A m \in Minutes : Hash(conversions[m])
    BY DEF CountsTyped
  <1>6. \A M \in SUBSET Minutes : SumOf(Merged(conversions, M)) = Number(M, K)
    BY <1>3 DEF ConversionsInv
  <1>7. \A M \in SUBSET Minutes :
           Number(M, K)' = Number(M, K) + IF now \in M /\ e \in K THEN 1 ELSE 0
    BY <1>1, ThoseStep DEF CountsTyped
  <1>8. /\ DOMAIN conversions' = Minutes /\ \A m \in Minutes : Hash(conversions'[m])
        /\ \A M \in SUBSET Minutes : SumOf(Merged(conversions', M)) = Number(M, K)'
    <2>1. CASE e \in K
      <3>1. PICK b : b = conversions
        OBVIOUS
      <3>2. PICK c : c = conversions'
        OBVIOUS
      <3>3. /\ DOMAIN b = Minutes /\ \A n \in Minutes : Hash(b[n])
            /\ DOMAIN c = Minutes /\ now \in Minutes /\ c[now] = Incr(b[now], x)
            /\ \A n \in Minutes : n # now => c[n] = b[n]
        BY <1>4, <1>5, <2>1, <3>1, <3>2 DEF CountsTyped
      <3>4. /\ \A n \in Minutes : Hash(c[n])
            /\ \A M \in SUBSET Minutes :
                  SumOf(Merged(c, M)) = SumOf(Merged(b, M)) + IF now \in M THEN 1 ELSE 0
        BY <3>3, SumStep
      <3> QED BY <1>6, <1>7, <2>1, <3>1, <3>2, <3>3, <3>4
    <2>2. CASE e \notin K
      <3>1. \A M \in SUBSET Minutes : Number(M, K)' = Number(M, K)
        BY <1>1, <2>2, ThoseStep DEF CountsTyped
      <3> QED BY <1>4, <1>5, <1>6, <2>2, <3>1
    <2> QED BY <2>1, <2>2
  <1> QED BY <1>3, <1>8 DEF ConversionsInv

LEMMA UsersStep ==
  ASSUME CountsTyped, UsersInv, NEW e \in Kinds, ProcessEvent(e)
  PROVE  UsersInv'
  <1>1. /\ now \in Minutes /\ log \in Seq(Entries)
        /\ log' = Append(log, [at |-> now, event |-> e])
        /\ DOMAIN users = Minutes
    BY DEF CountsTyped, UsersInv, ProcessEvent
  <1>2. users' = IF e \in Kinds \ Nulls THEN [users EXCEPT ![now] = @ \cup {User(e)}] ELSE users
    BY DEF ProcessEvent, UpdateUserMetrics, Nulls
  <1>3. DOMAIN users' = Minutes
    BY <1>1, <1>2
  <1>4. ASSUME NEW m \in Minutes
        PROVE  users'[m] = {User(log'[i].event) : i \in Those({m}, Kinds \ Nulls)'}
    <2>1. users[m] = {User(log[i].event) : i \in Those({m}, Kinds \ Nulls)}
      BY DEF UsersInv
    <2>2. /\ Len(log) \in Nat /\ DOMAIN log = 1..Len(log)
          /\ log'[Len(log) + 1].event = e
          /\ \A i \in DOMAIN log : log'[i] = log[i]
      BY <1>1, LogStep
    <2>3. Those({m}, Kinds \ Nulls)' = Those({m}, Kinds \ Nulls)
             \cup IF now \in {m} /\ e \in Kinds \ Nulls THEN {Len(log) + 1} ELSE {}
      BY <1>1, ThoseStep
    <2>4. Those({m}, Kinds \ Nulls) \subseteq DOMAIN log
      BY DEF Those
    <2>5. \A i \in Those({m}, Kinds \ Nulls) : log'[i] = log[i]
      BY <2>2, <2>4
    <2>6. {User(log'[i].event) : i \in Those({m}, Kinds \ Nulls)} = users[m]
      BY <2>1, <2>5
    <2>7. CASE now = m /\ e \in Kinds \ Nulls
      <3>1. users'[m] = users[m] \cup {User(e)}
        BY <1>1, <1>2, <2>7
      <3>2. {User(log'[i].event) : i \in Those({m}, Kinds \ Nulls)'}
               = {User(log'[i].event) : i \in Those({m}, Kinds \ Nulls)} \cup {User(e)}
        BY <2>2, <2>3, <2>7
      <3> QED BY <2>6, <3>1, <3>2
    <2>8. CASE ~(now = m /\ e \in Kinds \ Nulls)
      <3>1. users'[m] = users[m]
        BY <1>1, <1>2, <2>8
      <3>2. Those({m}, Kinds \ Nulls)' = Those({m}, Kinds \ Nulls)
        BY <2>3, <2>8
      <3> QED BY <2>6, <3>1, <3>2
    <2> QED BY <2>7, <2>8
  <1> QED BY <1>3, <1>4 DEF UsersInv

LEMMA NewerIs ==
  ASSUME log \in Seq(Entries), NEW i \in DOMAIN log
  PROVE  /\ Newer(i) = {j \in DOMAIN log : log[j].at = log[i].at /\ i < j}
         /\ IsFiniteSet(Newer(i)) /\ Place(i) \in Nat \ {0}
  <1>a. \A j \in DOMAIN log : log[j] \in Entries
    OBVIOUS
  <1>1. \A j \in DOMAIN log : log[j].event \in Kinds
    BY <1>a DEF Entries
  <1>2. Newer(i) = {j \in DOMAIN log : log[j].at = log[i].at /\ i < j}
    BY <1>1 DEF Newer, Those
  <1>b. IsFiniteSet(1..Len(log))
    BY FS_Interval
  <1>3. IsFiniteSet(1..Len(log)) /\ Newer(i) \subseteq 1..Len(log)
    BY <1>b, <1>2
  <1>4. IsFiniteSet(Newer(i)) /\ Cardinality(Newer(i)) \in Nat
    BY <1>3, FS_Subset, FS_CardinalityType
  <1> QED BY <1>2, <1>4 DEF Place

\* A new event pushes those of its minute one place back, and no others.
LEMMA PlaceStep ==
  ASSUME log \in Seq(Entries), now \in Minutes, NEW e \in Kinds,
         log' = Append(log, [at |-> now, event |-> e]), NEW n, n = Len(log) + 1
  PROVE  /\ \A i \in DOMAIN log : Place(i)' = Place(i) + IF log[i].at = now THEN 1 ELSE 0
         /\ Place(n)' = 1
  <1>1. /\ DOMAIN log = 1..Len(log) /\ DOMAIN log' = 1..n /\ Len(log) \in Nat
        /\ log'[n].at = now /\ log'[n].event = e /\ log' \in Seq(Entries)
        /\ \A i \in DOMAIN log : log'[i] = log[i]
    BY LogStep
  <1>2. /\ DOMAIN log' = DOMAIN log \cup {n} /\ n \notin DOMAIN log /\ n \in Nat
        /\ \A i \in DOMAIN log : i < n /\ ~(n < i) /\ i \in Nat
    BY <1>1
  <1>3. \A i \in DOMAIN log' : log'[i].event \in Kinds
    <2>1. \A i \in DOMAIN log : log[i] \in Entries
      BY LogStep
    <2>2. \A i \in DOMAIN log : log[i].event \in Kinds
      BY <2>1 DEF Entries
    <2> QED BY <1>1, <1>2, <2>2
  <1>4. \A i \in DOMAIN log' :
           Newer(i)' = {j \in DOMAIN log' : log'[j].at = log'[i].at /\ i < j}
    BY <1>3 DEF Newer, Those
  <1>5. ASSUME NEW i \in DOMAIN log
        PROVE  Place(i)' = Place(i) + IF log[i].at = now THEN 1 ELSE 0
    <2>1. Newer(i) = {j \in DOMAIN log : log[j].at = log[i].at /\ i < j}
      BY NewerIs
    <2>2. IsFiniteSet(Newer(i)) /\ Place(i) \in Nat
      BY NewerIs
    <2>3. Newer(i)' = Newer(i) \cup IF log[i].at = now THEN {n} ELSE {}
      BY <1>1, <1>2, <1>4, <2>1
    <2>4. n \notin Newer(i)
      BY <1>2, <2>1
    <2>5. Place(i) = Cardinality(Newer(i)) + 1 /\ Place(i)' = Cardinality(Newer(i)') + 1
      BY DEF Place
    <2>6. CASE log[i].at = now
      <3>1. Cardinality(Newer(i)') = Cardinality(Newer(i)) + 1
        BY <2>2, <2>3, <2>4, <2>6, FS_AddElement
      <3> QED BY <2>2, <2>5, <2>6, <3>1
    <2>7. CASE log[i].at # now
      BY <2>2, <2>3, <2>5, <2>7
    <2> QED BY <2>6, <2>7
  <1>6. Place(n)' = 1
    <2>1. n \in DOMAIN log' /\ \A j \in DOMAIN log' : ~(n < j)
      BY <1>1, <1>2
    <2>2. Newer(n)' = {}
      BY <2>1, <1>4
    <2>3. Place(n)' = Cardinality(Newer(n)') + 1
      BY DEF Place
    <2>4. Cardinality(Newer(n)') = 0
      BY <2>2, FS_EmptySet
    <2> QED BY <2>3, <2>4
  <1> QED BY <1>5, <1>6

LEMMA TrimmedSequence ==
  ASSUME NEW s \in Seq(Int), NEW a \in Int, TimesKept \in Nat \ {0}
  PROVE  LET t == Trimmed(<<a>> \o s)
         IN  /\ t \in Seq(Int)
             /\ Len(t) = IF Len(s) + 1 < TimesKept THEN Len(s) + 1 ELSE TimesKept
             /\ t[1] = a /\ \A k \in 2..Len(t) : t[k] = s[k - 1] /\ k - 1 \in 1..Len(s)
  <1>1. PICK u : u = <<a>> \o s
    OBVIOUS
  <1>2. u \in Seq(Int) /\ Len(u) = Len(s) + 1 /\ Len(s) \in Nat
    BY <1>1
  <1>3. u[1] = a /\ \A k \in 2..Len(u) : u[k] = s[k - 1]
    BY <1>1
  <1>4. PICK l : l = IF Len(u) < TimesKept THEN Len(u) ELSE TimesKept
    OBVIOUS
  <1>5. l \in Nat /\ 1 <= l /\ l <= Len(u)
    BY <1>2, <1>4
  <1>6. PICK t : t = SubSeq(u, 1, l)
    OBVIOUS
  <1>7. t = Trimmed(<<a>> \o s)
    BY <1>1, <1>4, <1>6 DEF Trimmed, First
  <1>8. t \in Seq(Int) /\ Len(t) = l /\ \A k \in 1..l : t[k] = u[k]
    BY <1>2, <1>5, <1>6
  <1>9. t[1] = a
    BY <1>3, <1>5, <1>8
  <1>10. ASSUME NEW k \in 2..Len(t) PROVE t[k] = s[k - 1] /\ k - 1 \in 1..Len(s)
    <2>1. k \in 1..l /\ k \in 2..Len(u) /\ k - 1 \in 1..Len(s)
      BY <1>2, <1>5, <1>8
    <2> QED BY <2>1, <1>3, <1>8
  <1>11. Len(t) = IF Len(s) + 1 < TimesKept THEN Len(s) + 1 ELSE TimesKept
    BY <1>2, <1>4, <1>8
  <1> QED BY <1>7, <1>8, <1>9, <1>10, <1>11

LEMMA TimesStep ==
  ASSUME CountsTyped, TimesInv, NEW e \in Kinds, ProcessEvent(e)
  PROVE  TimesInv'
  <1>0. PICK n : n = Len(log) + 1
    OBVIOUS
  <1>1. /\ now \in Minutes /\ log \in Seq(Entries)
        /\ log' = Append(log, [at |-> now, event |-> e])
        /\ DOMAIN times = Minutes /\ e.lag \in Int /\ TimesKept \in Nat \ {0}
    BY ReportAssumption DEF CountsTyped, TimesInv, ProcessEvent
  <1>2. /\ DOMAIN log = 1..Len(log) /\ DOMAIN log' = 1..n /\ Len(log) \in Nat
        /\ log'[n].at = now /\ log'[n].event = e
        /\ \A i \in DOMAIN log : log'[i] = log[i]
    BY <1>0, <1>1, LogStep
  <1>3. DOMAIN log' = DOMAIN log \cup {n}
    BY <1>0, <1>2
  <1>4. /\ \A i \in DOMAIN log : Place(i)' = Place(i) + IF log[i].at = now THEN 1 ELSE 0
        /\ Place(n)' = 1
    BY <1>0, <1>1, PlaceStep
  <1>5. /\ DOMAIN times' = Minutes
        /\ times'[now] = Trimmed(<<e.lag>> \o times[now])
        /\ \A m \in Minutes : m # now => times'[m] = times[m]
    BY <1>1 DEF ProcessEvent, UpdatePerformanceMetrics
  <1>6. \A i \in DOMAIN log : Place(i) \in Nat \ {0}
    BY <1>1, NewerIs
  <1>7. ASSUME NEW m \in Minutes
        PROVE  /\ times[m] \in Seq(Int) /\ Len(times[m]) <= TimesKept
               /\ \A k \in 1..Len(times[m]) :
                     \E i \in DOMAIN log :
                        log[i].at = m /\ Place(i) = k /\ times[m][k] = log[i].event.lag
               /\ \A i \in DOMAIN log :
                     log[i].at = m /\ Place(i) <= TimesKept => Place(i) <= Len(times[m])
    BY DEF TimesInv
  <1>8. ASSUME NEW m \in Minutes
        PROVE  /\ times'[m] \in Seq(Int) /\ Len(times'[m]) <= TimesKept
               /\ \A k \in 1..Len(times'[m]) :
                     \E i \in DOMAIN log' :
                        log'[i].at = m /\ Place(i)' = k /\ times'[m][k] = log'[i].event.lag
               /\ \A i \in DOMAIN log' :
                     log'[i].at = m /\ Place(i)' <= TimesKept => Place(i)' <= Len(times'[m])
    <2>1. CASE m = now
      <3>1. PICK t : t = times'[now]
        OBVIOUS
      <3>2. PICK s : s = times[now]
        OBVIOUS
      <3>3. s \in Seq(Int) /\ Len(s) \in Nat
        BY <3>2, <1>1, <1>7
      <3>4. /\ t \in Seq(Int)
            /\ Len(t) = IF Len(s) + 1 < TimesKept THEN Len(s) + 1 ELSE TimesKept
            /\ t[1] = e.lag
            /\ \A k \in 2..Len(t) : t[k] = s[k - 1] /\ k - 1 \in 1..Len(s)
        <4>1. PICK a \in Int : a = e.lag
          BY <1>1
        <4>2. t = Trimmed(<<a>> \o s)
          BY <1>5, <3>1, <3>2, <4>1
        <4> QED BY <1>1, <3>3, <4>1, <4>2, TrimmedSequence
      <3>5. ASSUME NEW k \in 1..Len(t)
            PROVE  \E i \in DOMAIN log' :
                      log'[i].at = m /\ Place(i)' = k /\ t[k] = log'[i].event.lag
        <4>1. CASE k = 1
          BY <4>1, <2>1, <1>2, <1>3, <1>4, <3>4
        <4>2. CASE k # 1
          <5>1. k \in 2..Len(t)
            BY <4>2, <3>4
          <5>2. t[k] = s[k - 1] /\ k - 1 \in 1..Len(s)
            BY <5>1, <3>4
          <5>3. PICK i \in DOMAIN log :
                   log[i].at = m /\ Place(i) = k - 1 /\ s[k - 1] = log[i].event.lag
            BY <5>2, <1>7, <2>1, <3>2
          <5>4. i \in DOMAIN log' /\ log'[i] = log[i] /\ Place(i)' = Place(i) + 1
            BY <5>3, <1>2, <1>3, <1>4, <2>1
          <5> QED BY <5>1, <5>2, <5>3, <5>4
        <4> QED BY <4>1, <4>2
      <3>6. ASSUME NEW i \in DOMAIN log', log'[i].at = m, Place(i)' <= TimesKept
            PROVE  Place(i)' <= Len(t)
        <4>1. CASE i = n
          BY <4>1, <1>1, <1>4, <3>3, <3>4
        <4>2. CASE i \in DOMAIN log
          <5>1. log[i].at = m /\ Place(i)' = Place(i) + 1 /\ Place(i) \in Nat
            BY <4>2, <3>6, <1>2, <1>4, <1>6, <2>1
          <5>2. Place(i) <= TimesKept
            BY <5>1, <3>6, <1>1
          <5>3. Place(i) <= Len(s)
            BY <5>1, <5>2, <4>2, <1>7, <2>1, <3>2
          <5> QED BY <5>1, <5>3, <3>3, <3>4, <3>6, <1>1
        <4> QED BY <4>1, <4>2, <1>3
      <3>7. Len(t) <= TimesKept
        BY <3>3, <3>4, <1>1
      <3> QED BY <2>1, <3>1, <3>4, <3>5, <3>6, <3>7
    <2>2. CASE m # now
      <3>1. times'[m] = times[m]
        BY <1>5, <2>2
      <3>2. \A i \in DOMAIN log : log[i].at = m => Place(i)' = Place(i)
        BY <1>4, <1>6, <2>2
      <3>3. \A i \in DOMAIN log' : log'[i].at = m => i \in DOMAIN log
        BY <1>2, <1>3, <2>2
      <3>4. times'[m] \in Seq(Int) /\ Len(times'[m]) <= TimesKept
        BY <1>7, <3>1
      <3>5. ASSUME NEW k \in 1..Len(times'[m])
            PROVE  \E i \in DOMAIN log' :
                      log'[i].at = m /\ Place(i)' = k /\ times'[m][k] = log'[i].event.lag
        <4>1. PICK i \in DOMAIN log :
                 log[i].at = m /\ Place(i) = k /\ times[m][k] = log[i].event.lag
          BY <1>7, <3>1
        <4>2. i \in DOMAIN log' /\ log'[i] = log[i] /\ Place(i)' = Place(i)
          BY <4>1, <1>2, <1>3, <3>2
        <4> QED BY <4>1, <4>2, <3>1
      <3>6. ASSUME NEW i \in DOMAIN log', log'[i].at = m, Place(i)' <= TimesKept
            PROVE  Place(i)' <= Len(times'[m])
        <4>1. i \in DOMAIN log /\ log'[i] = log[i]
          BY <3>3, <3>6, <1>2
        <4>2. Place(i)' = Place(i)
          BY <4>1, <3>2, <3>6
        <4> QED BY <4>1, <4>2, <3>1, <3>6, <1>7
      <3> QED BY <3>4, <3>5, <3>6
    <2> QED BY <2>1, <2>2
  <1>9. TimesInv' = (/\ DOMAIN times' = Minutes
                    /\ \A m \in Minutes :
                       /\ times'[m] \in Seq(Int) /\ Len(times'[m]) <= TimesKept
                       /\ \A k \in 1..Len(times'[m]) :
                             \E i \in DOMAIN log' :
                                log'[i].at = m /\ Place(i)' = k /\ times'[m][k] = log'[i].event.lag
                       /\ \A i \in DOMAIN log' :
                             log'[i].at = m /\ Place(i)' <= TimesKept => Place(i)' <= Len(times'[m]))
    BY DEF TimesInv
  <1> QED BY <1>5, <1>8, <1>9

-----------------------------------------------------------------------------
(* The invariant                                                            *)

ReportInv ==
    /\ CountsTyped /\ VolumeInv /\ TypesInv /\ CountriesInv /\ ConversionsInv
    /\ UsersInv /\ TimesInv

LEMMA MergedNone ==
  ASSUME NEW b, NEW M, \A m \in M : b[m] = NoFields
  PROVE  /\ Merged(b, M) = NoFields /\ DOMAIN Merged(b, M) = {}
         /\ \A f : Value(Merged(b, M), f) = 0
         /\ SumOf(Merged(b, M)) = 0 /\ SumOf(Without(Merged(b, M))) = 0
  <1>1. DOMAIN NoFields = {}
    BY DEF NoFields
  <1>2. DOMAIN Merged(b, M) = UNION {DOMAIN b[m] : m \in M}
    BY DEF Merged
  <1>3. DOMAIN Merged(b, M) = {}
    BY <1>1, <1>2
  <1>4. Merged(b, M) = [f \in DOMAIN Merged(b, M) |-> Merged(b, M)[f]]
    BY DEF Merged
  <1>5. Merged(b, M) = NoFields
    BY <1>3, <1>4 DEF NoFields
  <1>6. \A f : Value(Merged(b, M), f) = 0
    BY <1>3 DEF Value
  <1>7. PICK h : h = Merged(b, M)
    OBVIOUS
  <1>8. PICK w : w = Without(h)
    OBVIOUS
  <1>9. DOMAIN h = {} /\ DOMAIN w = {}
    BY <1>3, <1>7, <1>8 DEF Without
  <1>10. IsFiniteSet({})
    BY FS_EmptySet
  <1>11. SumOf(h) = 0 /\ SumOf(w) = 0
    BY <1>9, <1>10, SumInteger
  <1> QED BY <1>3, <1>5, <1>6, <1>7, <1>8, <1>11

LEMMA InvariantAtInit == ReportInit => ReportInv
  <1> SUFFICES ASSUME ReportInit PROVE ReportInv
    OBVIOUS
  <1>1. /\ log = <<>> /\ now = 1
        /\ DOMAIN volume = Minutes /\ DOMAIN types = Minutes
        /\ DOMAIN countries = Minutes /\ DOMAIN conversions = Minutes
        /\ \A m \in Minutes : /\ volume[m] = NoFields /\ types[m] = NoFields
                              /\ countries[m] = NoFields /\ conversions[m] = NoFields
    BY DEF ReportInit
  <1>2. Hash(NoFields)
    BY FS_EmptySet DEF Hash, NoFields
  <1>3. CountsTyped
    <2>1. log \in Seq(Entries)
      BY <1>1
    <2>2. now \in Minutes
      BY <1>1, ReportAssumption DEF Minutes
    <2> QED BY <1>1, <1>2, <2>1, <2>2 DEF CountsTyped
  <1>4. \A M, K : Those(M, K) = {} /\ Number(M, K) = 0
    <2>1. DOMAIN log = {}
      BY <1>1
    <2>2. \A M, K : Those(M, K) = {}
      BY <2>1 DEF Those
    <2> QED BY <2>2, FS_EmptySet DEF Number
  <1>5. ASSUME NEW M \in SUBSET Minutes
        PROVE  /\ DOMAIN Merged(types, M) = {} /\ \A f : Value(Merged(types, M), f) = 0
               /\ \A f : Value(Merged(volume, M), f) = 0
               /\ SumOf(Without(Merged(types, M))) = 0
               /\ SumOf(Merged(countries, M)) = 0
               /\ SumOf(Merged(conversions, M)) = 0
    <2>1. \A m \in M : /\ volume[m] = NoFields /\ types[m] = NoFields
                       /\ countries[m] = NoFields /\ conversions[m] = NoFields
      BY <1>1
    <2> QED BY <2>1, MergedNone
  <1>6. VolumeInv
    BY <1>4, <1>5 DEF VolumeInv
  <1>7. TypesInv
    BY <1>4, <1>5 DEF TypesInv
  <1>8. CountriesInv /\ ConversionsInv
    BY <1>4, <1>5 DEF CountriesInv, ConversionsInv
  <1>9. UsersInv
    <2>1. users = [m \in Minutes |-> {}]
      BY DEF ReportInit
    <2> QED BY <1>4, <2>1 DEF UsersInv
  <1>10. TimesInv
    <2>1. times = [m \in Minutes |-> <<>>]
      BY DEF ReportInit
    <2>2. DOMAIN log = {}
      BY <1>1
    <2>3. \A m \in Minutes : /\ times[m] \in Seq(Int) /\ Len(times[m]) = 0
                             /\ 1..Len(times[m]) = {}
      BY <2>1
    <2>4. TimesKept \in Nat
      BY ReportAssumption
    <2> QED BY <2>1, <2>2, <2>3, <2>4 DEF TimesInv
  <1> QED BY <1>3, <1>6, <1>7, <1>8, <1>9, <1>10 DEF ReportInv

\* A step that processes nothing changes no figure of any minutes.
LEMMA InvariantWhenQuiet ==
  ASSUME ReportInv, now' \in Minutes,
         UNCHANGED <<volume, types, countries, conversions, users, times, log>>
  PROVE  ReportInv'
  <1>1. CountsTyped'
    BY DEF ReportInv, CountsTyped
  <1>2. \A M, K : Those(M, K)' = Those(M, K) /\ Number(M, K)' = Number(M, K)
    BY DEF Those, Number
  <1>3. VolumeInv'
    BY <1>2 DEF ReportInv, VolumeInv
  <1>4. TypesInv'
    BY <1>2 DEF ReportInv, TypesInv
  <1>5. CountriesInv' /\ ConversionsInv'
    BY <1>2 DEF ReportInv, CountriesInv, ConversionsInv
  <1>6. UsersInv'
    BY <1>2 DEF ReportInv, UsersInv
  <1>7. TimesInv'
    <2>1. \A i : Newer(i)' = Newer(i) /\ Place(i)' = Place(i)
      BY DEF Newer, Those, Place
    <2> QED BY <2>1 DEF ReportInv, TimesInv
  <1> QED BY <1>1, <1>3, <1>4, <1>5, <1>6, <1>7 DEF ReportInv

LEMMA InvariantWhenProcessed ==
  ASSUME ReportInv, NEW e \in Kinds, ProcessEvent(e)
  PROVE  ReportInv'
  <1>1. /\ VolumeInv' /\ TypesInv' /\ CountriesInv' /\ ConversionsInv' /\ UsersInv' /\ TimesInv'
        /\ DOMAIN volume' = Minutes /\ DOMAIN types' = Minutes
        /\ DOMAIN countries' = Minutes /\ DOMAIN conversions' = Minutes
        /\ \A m \in Minutes :
              Hash(volume'[m]) /\ Hash(types'[m]) /\ Hash(countries'[m]) /\ Hash(conversions'[m])
    BY VolumeStep, TypesStep, CountriesStep, ConversionsStep, UsersStep, TimesStep DEF ReportInv
  <1>2. /\ log \in Seq(Entries) /\ now \in Minutes /\ now' = now
        /\ log' = Append(log, [at |-> now, event |-> e])
    BY DEF ReportInv, CountsTyped, ProcessEvent
  <1>3. log' \in Seq(Entries)
    BY <1>2, LogStep
  <1>4. CountsTyped'
    BY <1>1, <1>2, <1>3 DEF CountsTyped
  <1> QED BY <1>1, <1>4 DEF ReportInv

LEMMA InvariantKept == ReportInv /\ [ReportNext]_reportVars => ReportInv'
  <1> SUFFICES ASSUME ReportInv, [ReportNext]_reportVars PROVE ReportInv'
    OBVIOUS
  <1>1. CASE Tick
    <2>1. now' \in Minutes
      BY <1>1, ReportAssumption DEF ReportInv, CountsTyped, Tick, Minutes
    <2> QED BY <1>1, <2>1, InvariantWhenQuiet DEF Tick
  <1>2. ASSUME NEW e \in Kinds, ProcessEvent(e) PROVE ReportInv'
    BY <1>2, InvariantWhenProcessed
  <1>3. CASE UNCHANGED reportVars
    <2>1. now' \in Minutes
      BY <1>3 DEF ReportInv, CountsTyped, reportVars
    <2> QED BY <1>3, <2>1, InvariantWhenQuiet DEF reportVars
  <1> QED BY <1>1, <1>2, <1>3 DEF ReportNext

\* What processEvent leaves in the buckets is, for any minutes together, what
\* the events processed in them add up to.
THEOREM ReportInvariant == ReportSpec => []ReportInv
  <1> QED BY InvariantAtInit, InvariantKept, PTL DEF ReportSpec

-----------------------------------------------------------------------------
(* What the invariant says of the windows                                   *)

LEMMA WindowMinutes == \A m : WindowFrom(m) \in SUBSET Minutes
  BY DEF WindowFrom

\* The events with a user, and the users they leave in a window.
LEMMA UsersOfWindow ==
  ASSUME ReportInv, NEW M \in SUBSET Minutes
  PROVE  /\ UsersIn(M) \in Nat /\ UsersIn(M) <= Number(M, Kinds \ Nulls)
         /\ UsersIn(M) = 0 <=> Number(M, Kinds \ Nulls) = 0
  <1> DEFINE T == Those(M, Kinds \ Nulls)
             user == [i \in T |-> User(log[i].event)]
             U == {User(log[i].event) : i \in T}
  <1>1. log \in Seq(Entries) /\ \A m \in Minutes :
           users[m] = {User(log[i].event) : i \in Those({m}, Kinds \ Nulls)}
    BY DEF ReportInv, CountsTyped, UsersInv
  <1>2. UNION {users[m] : m \in M} = U
    <2>1. ASSUME NEW u \in UNION {users[m] : m \in M} PROVE u \in U
      <3>1. PICK m \in M : u \in users[m]
        OBVIOUS
      <3>a. users[m] = {User(log[i].event) : i \in Those({m}, Kinds \ Nulls)}
        BY <1>1, <3>1
      <3>2. PICK i \in Those({m}, Kinds \ Nulls) : u = User(log[i].event)
        BY <3>1, <3>a
      <3>3. i \in T
        BY <3>2 DEF Those
      <3> QED BY <3>2, <3>3
    <2>2. ASSUME NEW u \in U PROVE u \in UNION {users[m] : m \in M}
      <3>1. PICK i \in T : u = User(log[i].event)
        OBVIOUS
      <3>2. PICK m : m = log[i].at
        OBVIOUS
      <3>3. m \in M /\ i \in Those({m}, Kinds \ Nulls)
        BY <3>1, <3>2 DEF Those
      <3>4. u \in users[m]
        BY <1>1, <3>1, <3>3
      <3> QED BY <3>3, <3>4
    <2> HIDE DEF U
    <2> QED BY <2>1, <2>2
  <1>3. UsersIn(M) = Cardinality(U)
    BY <1>2 DEF UsersIn
  <1>4. IsFiniteSet(T) /\ Number(M, Kinds \ Nulls) = Cardinality(T)
    BY <1>1, ThoseFinite DEF Number
  <1>5. user \in Surjection(T, U)
    BY DEF Surjection
  <1>6. IsFiniteSet(U) /\ Cardinality(U) <= Cardinality(T)
    <2> HIDE DEF T, U, user
    <2> QED BY <1>4, <1>5, FS_Surjection
  <1>7. U = {} <=> T = {}
    OBVIOUS
  <1> HIDE DEF T, U, user
  <1>8. /\ Cardinality(U) \in Nat /\ Cardinality(T) \in Nat
        /\ Cardinality(U) = 0 <=> U = {} /\ (Cardinality(T) = 0 <=> T = {})
    BY <1>4, <1>6, FS_CardinalityType, FS_EmptySet
  <1>9. (Cardinality(U) = 0 <=> U = {}) /\ (Cardinality(T) = 0 <=> T = {})
    BY <1>4, <1>6, FS_EmptySet
  <1> QED BY <1>3, <1>4, <1>6, <1>7, <1>8, <1>9

\* Every hash counts from one, every list of times is as long as LTRIM leaves
\* it, and the users of a minute are finitely many.
THEOREM ReportTypeCorrect == ReportSpec => []ReportTypeOK
  <1>1. ReportInv => ReportTypeOK
    <2> SUFFICES ASSUME ReportInv PROVE ReportTypeOK
      OBVIOUS
    <2>1. /\ now \in Minutes /\ log \in Seq([at : Minutes, event : Kinds])
          /\ \A m \in Minutes :
                Hash(volume[m]) /\ Hash(types[m]) /\ Hash(countries[m]) /\ Hash(conversions[m])
      BY DEF ReportInv, CountsTyped, Entries
    <2>2. \A m \in Minutes : times[m] \in Seq(Int) /\ Len(times[m]) <= TimesKept
      BY DEF ReportInv, TimesInv
    <2>3. ASSUME NEW m \in Minutes PROVE IsFiniteSet(users[m])
      <3> DEFINE T == Those({m}, Kinds \ Nulls)
                 user == [i \in T |-> User(log[i].event)]
                 U == {User(log[i].event) : i \in T}
      <3>1. users[m] = U /\ IsFiniteSet(T)
        BY ThoseFinite DEF ReportInv, CountsTyped, UsersInv
      <3>2. user \in Surjection(T, U)
        BY DEF Surjection
      <3> HIDE DEF T, U, user
      <3> QED BY <3>1, <3>2, FS_Surjection
    <2> QED BY <2>1, <2>2, <2>3 DEF ReportTypeOK, Hash
  <1> QED BY <1>1, ReportInvariant, PTL

\* Kinds that have nothing in common are counted apart.
LEMMA NumberSplit ==
  ASSUME ReportInv, NEW M, NEW A, NEW B, A \cap B = {}
  PROVE  /\ Number(M, A \cup B) = Number(M, A) + Number(M, B)
         /\ Number(M, A) \in Nat /\ Number(M, B) \in Nat
  <1>1. log \in Seq(Entries)
    BY DEF ReportInv, CountsTyped
  <1>2. PICK S : S = Those(M, A)
    OBVIOUS
  <1>3. PICK T : T = Those(M, B)
    OBVIOUS
  <1>4. IsFiniteSet(S) /\ IsFiniteSet(T)
    BY <1>1, <1>2, <1>3, ThoseFinite
  <1>5. Those(M, A \cup B) = S \cup T /\ S \cap T = {}
    BY <1>2, <1>3 DEF Those
  <1>6. Cardinality(S \cup T) = Cardinality(S) + Cardinality(T) - Cardinality(S \cap T)
    BY <1>4, FS_Union
  <1>7. Cardinality(S) \in Nat /\ Cardinality(T) \in Nat /\ Cardinality({}) = 0
    BY <1>4, FS_CardinalityType, FS_EmptySet
  <1>8. /\ Number(M, A \cup B) = Cardinality(S \cup T)
        /\ Number(M, A) = Cardinality(S) /\ Number(M, B) = Cardinality(T)
    BY <1>2, <1>3, <1>5 DEF Number
  <1>9. Cardinality(S \cap T) = 0
    BY <1>5, <1>7
  <1> QED BY <1>6, <1>7, <1>8, <1>9

-----------------------------------------------------------------------------
(* The lists a report may show                                              *)

\* What is in a finite set and strictly ordered can be listed in that order:
\* each element at the place that leaves room for those before it.
LEMMA Listed ==
  ASSUME NEW F, IsFiniteSet(F), NEW R \in SUBSET (F \X F),
         \A f \in F : <<f, f>> \notin R,
         \A f, g, k \in F : <<f, g>> \in R /\ <<g, k>> \in R => <<f, k>> \in R,
         \A f, g \in F : f # g => <<f, g>> \in R \/ <<g, f>> \in R
  PROVE  \E s \in Bijection(1..Cardinality(F), F) :
            \A i, j \in 1..Cardinality(F) : i < j => <<s[i], s[j]>> \in R
  <1>1. PICK N : N = Cardinality(F)
    OBVIOUS
  <1>2. N \in Nat
    BY <1>1, FS_CardinalityType
  <1> DEFINE Ahead(f) == {g \in F : <<g, f>> \in R}
             place == [f \in F |-> Cardinality(Ahead(f)) + 1]
  <1>3. ASSUME NEW f \in F
        PROVE  /\ IsFiniteSet(Ahead(f)) /\ Cardinality(Ahead(f)) \in Nat
               /\ Cardinality(Ahead(f)) < N
    <2>1. Ahead(f) \in SUBSET F /\ Ahead(f) # F
      OBVIOUS
    <2> HIDE DEF Ahead
    <2>2. /\ IsFiniteSet(Ahead(f)) /\ Cardinality(Ahead(f)) <= N
          /\ N = Cardinality(Ahead(f)) => F = Ahead(f)
      BY <2>1, <1>1, FS_Subset
    <2>3. Cardinality(Ahead(f)) \in Nat
      BY <2>2, FS_CardinalityType
    <2> QED BY <1>2, <2>1, <2>2, <2>3
  <1>4. ASSUME NEW f \in F, NEW g \in F, <<f, g>> \in R
        PROVE  Cardinality(Ahead(f)) < Cardinality(Ahead(g))
    <2>1. Ahead(f) \in SUBSET Ahead(g)
      BY <1>4
    <2>2. f \in Ahead(g) /\ f \notin Ahead(f)
      BY <1>4
    <2> HIDE DEF Ahead
    <2>3. /\ Cardinality(Ahead(f)) <= Cardinality(Ahead(g))
          /\ Cardinality(Ahead(g)) = Cardinality(Ahead(f)) => Ahead(g) = Ahead(f)
      BY <1>3, <2>1, FS_Subset
    <2> QED BY <1>3, <2>2, <2>3
  <1>5. /\ \A f \in F : place[f] = Cardinality(Ahead(f)) + 1
        /\ place = [f \in F |-> place[f]]
    OBVIOUS
  <1> HIDE DEF Ahead, place
  <1>6. \A f \in F : place[f] \in 1..N
    BY <1>2, <1>3, <1>5
  <1>7. \A f, g \in F : <<f, g>> \in R => place[f] < place[g]
    BY <1>3, <1>4, <1>5
  <1>8. \A f, g \in F : place[f] = place[g] => f = g
    <2> SUFFICES ASSUME NEW f \in F, NEW g \in F, f # g PROVE place[f] # place[g]
      OBVIOUS
    <2>1. place[f] \in Int /\ place[g] \in Int
      BY <1>6
    <2>2. place[f] < place[g] \/ place[g] < place[f]
      BY <1>7
    <2> QED BY <2>1, <2>2
  <1>9. place \in Injection(F, 1..N)
    <2>1. place \in [F -> 1..N]
      BY <1>5, <1>6
    <2> QED BY <1>8, <2>1, Zenon DEF Injection, IsInjective
  <1>10. IsFiniteSet(1..N) /\ Cardinality(1..N) = N
    BY <1>2, FS_Interval
  <1>11. place \in Surjection(F, 1..N)
    BY <1>1, <1>9, <1>10, FS_Injection
  <1>12. place \in Bijection(F, 1..N)
    BY <1>9, <1>11 DEF Bijection
  <1>13. PICK s \in Bijection(1..N, F) : \A f \in F : s[place[f]] = f
    <2>1. PICK P : P = 1..N
      OBVIOUS
    <2>2. place \in Bijection(F, P)
      BY <1>12, <2>1
    <2>3. /\ Inverse(place, F, P) \in Bijection(P, F)
          /\ \A f \in F : Inverse(place, F, P)[place[f]] = f
      BY <2>2, Fun_BijInverse
    <2> QED BY <2>1, <2>3
  <1>14. ASSUME NEW i \in 1..N, NEW j \in 1..N, i < j PROVE <<s[i], s[j]>> \in R
    <2>1. PICK f \in F : place[f] = i
      BY <1>11 DEF Surjection
    <2>2. PICK g \in F : place[g] = j
      BY <1>11 DEF Surjection
    <2>3. s[i] = f /\ s[j] = g
      BY <1>13, <2>1, <2>2
    <2>4. f # g /\ ~(place[g] < place[f])
      BY <1>14, <2>1, <2>2
    <2> QED BY <1>7, <2>3, <2>4
  <1> QED BY <1>1, <1>13, <1>14

\* There is always a list to show.
LEMMA RankedExists ==
  ASSUME NEW h, NEW F, IsFiniteSet(F), \A f \in F : h[f] \in Int
  PROVE  Ranked(h, F) # {}
  <1>1. PICK N : N = Cardinality(F)
    OBVIOUS
  <1>2. N \in Nat /\ ExistsBijection(1..N, F)
    BY <1>1, FS_CardinalityType
  <1>3. PICK r : r \in Bijection(F, 1..N)
    BY <1>2, Fun_ExistsBijSymmetric DEF ExistsBijection
  <1>4. (\A f \in F : r[f] \in Int) /\ \A f, g \in F : r[f] = r[g] => f = g
    <2>1. PICK P : P = 1..N
      OBVIOUS
    <2>2. r \in Bijection(F, P)
      BY <1>3, <2>1
    <2>3. r \in [F -> P] /\ \A f, g \in F : r[f] = r[g] => f = g
      BY <2>2, Fun_BijectionProperties
    <2> QED BY <1>2, <2>1, <2>3
  <1> DEFINE R == {p \in F \X F : \/ h[p[1]] > h[p[2]]
                                  \/ h[p[1]] = h[p[2]] /\ r[p[1]] < r[p[2]]}
  <1>5. \A f, g \in F : <<f, g>> \in R <=> h[f] > h[g] \/ (h[f] = h[g] /\ r[f] < r[g])
    OBVIOUS
  <1>6. R \in SUBSET (F \X F)
    OBVIOUS
  <1> HIDE DEF R
  <1>7. /\ \A f \in F : <<f, f>> \notin R
        /\ \A f, g, k \in F : <<f, g>> \in R /\ <<g, k>> \in R => <<f, k>> \in R
        /\ \A f, g \in F : f # g => <<f, g>> \in R \/ <<g, f>> \in R
    BY <1>4, <1>5
  <1>8. PICK s \in Bijection(1..N, F) : \A i, j \in 1..N : i < j => <<s[i], s[j]>> \in R
    BY <1>1, <1>6, <1>7, Listed
  <1>9. s \in [1..N -> F]
    BY <1>8, Fun_BijectionProperties
  <1>10. \A i, j \in DOMAIN s : i < j => h[s[i]] >= h[s[j]]
    <2> SUFFICES ASSUME NEW i \in 1..N, NEW j \in 1..N, i < j PROVE h[s[i]] >= h[s[j]]
      BY <1>9
    <2>1. s[i] \in F /\ s[j] \in F /\ <<s[i], s[j]>> \in R
      BY <1>8, <1>9
    <2>2. h[s[i]] > h[s[j]] \/ h[s[i]] = h[s[j]]
      BY <1>5, <2>1
    <2> QED BY <2>1, <2>2
  <1>11. [i \in DOMAIN s |-> [name |-> s[i], count |-> h[s[i]]]] \in Ranked(h, F)
    BY <1>1, <1>8, <1>10 DEF Ranked
  <1> QED BY <1>11

LEMMA RankedIs ==
  ASSUME NEW h, NEW F, NEW d \in Ranked(h, F)
  PROVE  \E s \in Bijection(1..Cardinality(F), F) :
            /\ d = [i \in 1..Cardinality(F) |-> [name |-> s[i], count |-> h[s[i]]]]
            /\ \A i, j \in 1..Cardinality(F) : i < j => h[s[i]] >= h[s[j]]
  <1>1. PICK N : N = Cardinality(F)
    OBVIOUS
  <1>2. PICK s \in Bijection(1..N, F) :
           /\ d = [i \in DOMAIN s |-> [name |-> s[i], count |-> h[s[i]]]]
           /\ \A i, j \in DOMAIN s : i < j => h[s[i]] >= h[s[j]]
    BY <1>1 DEF Ranked
  <1>3. DOMAIN s = 1..N
    BY <1>2, Fun_BijectionProperties
  <1> QED BY <1>1, <1>2, <1>3

\* Whatever order the fields come in, their counts add up the same.
LEMMA RankedSum ==
  ASSUME NEW h, Hash(h), NEW d \in EventDistribution(h)
  PROVE  SumOf([i \in DOMAIN d |-> d[i].count]) = SumOf(Without(h))
  <1>1. PICK F : F = DOMAIN h \ {TotalEvents}
    OBVIOUS
  <1>2. PICK N : N = Cardinality(F)
    OBVIOUS
  <1>3. PICK w : w = Without(h)
    OBVIOUS
  <1>4. DOMAIN w = F /\ \A f \in F : w[f] = h[f] /\ h[f] \in Int
    BY <1>1, <1>3 DEF Without, Hash
  <1>5. IsFiniteSet(DOMAIN w)
    <2>1. PICK D : D = DOMAIN h
      OBVIOUS
    <2>2. IsFiniteSet(D \ {TotalEvents})
      BY <2>1, FS_Difference DEF Hash
    <2> QED BY <1>1, <1>4, <2>1, <2>2
  <1>6. d \in Ranked(h, F)
    BY <1>1 DEF EventDistribution
  <1>7. PICK s \in Bijection(1..N, F) :
           d = [i \in 1..N |-> [name |-> s[i], count |-> h[s[i]]]]
    BY <1>2, <1>6, RankedIs
  <1>8. PICK S : S = 1..N
    OBVIOUS
  <1>9. s \in Bijection(S, DOMAIN w) /\ s \in [S -> F]
    <2>1. s \in Bijection(S, F)
      BY <1>7, <1>8
    <2> QED BY <2>1, <1>4, Fun_BijectionProperties
  <1>10. PICK g : g = [i \in DOMAIN d |-> d[i].count]
    OBVIOUS
  <1>11. DOMAIN g = S /\ \A i \in S : g[i] = w[s[i]]
    BY <1>4, <1>7, <1>8, <1>9, <1>10
  <1>12. \A f \in DOMAIN w : w[f] \in Int
    BY <1>4
  <1>13. SumOf(g) = SumOf(w)
    BY <1>5, <1>9, <1>11, <1>12, SumReindexed
  <1> QED BY <1>3, <1>10, <1>13

LEMMA DistributionExists ==
  ASSUME NEW h, Hash(h)
  PROVE  EventDistribution(h) # {}
  <1>1. PICK D : D = DOMAIN h
    OBVIOUS
  <1>2. PICK F : F = D \ {TotalEvents}
    OBVIOUS
  <1>a. IsFiniteSet(D \ {TotalEvents})
    BY <1>1, FS_Difference DEF Hash
  <1>3. IsFiniteSet(F) /\ \A f \in F : h[f] \in Int
    BY <1>1, <1>2, <1>a DEF Hash
  <1>4. Ranked(h, F) # {}
    BY <1>3, RankedExists
  <1> QED BY <1>1, <1>2, <1>4 DEF EventDistribution

LEMMA WindowHashes ==
  ASSUME ReportInv, NEW M \in SUBSET Minutes
  PROVE  Hash(Merged(types, M)) /\ Hash(Merged(volume, M))
  <1>1. IsFiniteSet(M) /\ \A m \in M : Hash(types[m]) /\ Hash(volume[m])
    BY MinutesFinite DEF ReportInv, CountsTyped
  <1> QED BY <1>1, HashMerged

LEMMA PartsExplain == ReportInv => PartsExplainTotal
  <1> SUFFICES ASSUME ReportInv PROVE PartsExplainTotal
    OBVIOUS
  <1>1. PICK M \in SUBSET Minutes : M = WindowFrom(now)
    BY WindowMinutes
  <1>2. PICK h : h = Merged(types, M)
    OBVIOUS
  <1>3. Hash(h)
    BY <1>2, WindowHashes
  <1>4. /\ Number(M, Kinds) = Number(M, Named(TotalEvents)) + Number(M, Unreserved)
        /\ Number(M, Named(TotalEvents)) \in Nat /\ Number(M, Unreserved) \in Nat
    <2>1. PICK A : A = Named(TotalEvents)
      OBVIOUS
    <2>2. PICK B : B = Unreserved
      OBVIOUS
    <2>3. Kinds = A \cup B /\ A \cap B = {}
      BY <2>1, <2>2 DEF Named, Unreserved
    <2>4. /\ Number(M, A \cup B) = Number(M, A) + Number(M, B)
          /\ Number(M, A) \in Nat /\ Number(M, B) \in Nat
      BY <2>3, NumberSplit
    <2> QED BY <2>1, <2>2, <2>3, <2>4
  <1>5. /\ Number(M, Kinds) = Number(M, Nulls) + Number(M, Kinds \ Nulls)
        /\ Number(M, Nulls) \in Nat /\ Number(M, Kinds \ Nulls) \in Nat
    <2>1. PICK A : A = Nulls
      OBVIOUS
    <2>2. PICK B : B = Kinds \ Nulls
      OBVIOUS
    <2>3. Kinds = A \cup B /\ A \cap B = {}
      BY <2>1, <2>2 DEF Nulls
    <2>4. /\ Number(M, A \cup B) = Number(M, A) + Number(M, B)
          /\ Number(M, A) \in Nat /\ Number(M, B) \in Nat
      BY <2>3, NumberSplit
    <2> QED BY <2>1, <2>2, <2>3, <2>4
  <1>6. Report(now).total = Number(M, Kinds) + Number(M, Named(TotalEvents))
    BY <1>1 DEF Report, ReportInv, VolumeInv
  <1>7. Report(now).distribution = EventDistribution(h)
    BY <1>1, <1>2 DEF Report
  <1>8. ASSUME NEW d \in EventDistribution(h)
        PROVE  SumOf([i \in DOMAIN d |-> d[i].count]) = Number(M, Unreserved)
    BY <1>2, <1>3, RankedSum DEF ReportInv, TypesInv
  <1>9. Report(now).located = Number(M, Kinds \ Nulls)
    BY <1>1 DEF Report, ReportInv, CountriesInv
  <1>10. Report(now).converted
            = Number(M, {e \in Kinds \ Nulls : e.name \in Converting})
    BY <1>1 DEF Report, ReportInv, ConversionsInv, Converted
  <1>11. Report(now).users = UsersIn(M)
    BY <1>1 DEF Report
  <1>12. /\ UsersIn(M) <= Number(M, Kinds \ Nulls)
         /\ UsersIn(M) = 0 <=> Number(M, Kinds \ Nulls) = 0
    BY UsersOfWindow
  <1>13. EventDistribution(h) # {}
    BY <1>3, DistributionExists
  <1>14. \A d \in EventDistribution(h) : SumOf([i \in DOMAIN d |-> d[i].count])
            = Number(M, Kinds) - Number(M, Named(TotalEvents))
    <2>1. Number(M, Unreserved) = Number(M, Kinds) - Number(M, Named(TotalEvents))
      BY <1>4
    <2> QED BY <1>8, <2>1
  <1>15. /\ Report(now).located = Number(M, Kinds) - Number(M, Nulls)
         /\ Report(now).users <= Number(M, Kinds) - Number(M, Nulls)
         /\ Report(now).users = 0 <=> Number(M, Kinds) = Number(M, Nulls)
    <2>1. Number(M, Kinds \ Nulls) = Number(M, Kinds) - Number(M, Nulls)
      BY <1>5
    <2>2. Number(M, Kinds \ Nulls) = 0 <=> Number(M, Kinds) = Number(M, Nulls)
      BY <1>5
    <2> QED BY <1>9, <1>11, <1>12, <2>1, <2>2
  <1> QED BY <1>1, <1>6, <1>7, <1>10, <1>13, <1>14, <1>15 DEF PartsExplainTotal

\* The parts generateDashboardMetrics shows add up to its total: an event named
\* like the field of the total and a null payload are the only exceptions.
THEOREM PartsExplained == ReportSpec => []PartsExplainTotal
  <1> QED BY ReportInvariant, PartsExplain, PTL

LEMMA FirstIs ==
  ASSUME NEW N \in Nat, NEW S, NEW d \in Seq(S), Len(d) = N, NEW n \in Nat,
         NEW l, l = IF N < n THEN N ELSE n
  PROVE  /\ l \in Nat /\ l <= N /\ DOMAIN First(d, n) = 1..l /\ Len(First(d, n)) = l
         /\ \A i \in 1..l : First(d, n)[i] = d[i]
  <1>2. l \in Nat /\ l <= N
    OBVIOUS
  <1>3. First(d, n) = SubSeq(d, 1, l)
    BY DEF First
  <1>4. SubSeq(d, 1, l) = [i \in 1..l |-> d[i]]
    BY <1>2
  <1> QED BY <1>2, <1>3, <1>4

LEMMA TopRanked == ReportInv => TopEventsRanked
  <1> SUFFICES ASSUME ReportInv PROVE TopEventsRanked
    OBVIOUS
  <1>1. PICK M \in SUBSET Minutes : M = WindowFrom(now)
    BY WindowMinutes
  <1>2. PICK h : h = Merged(types, M)
    OBVIOUS
  <1>3. PICK F : F = {log[i].event.name : i \in Those(M, Kinds)} \ {TotalEvents}
    OBVIOUS
  <1>4. PICK N : N = Cardinality(F)
    OBVIOUS
  <1>5. DOMAIN h \ {TotalEvents} = F /\ Hash(h)
    BY <1>2, <1>3, WindowHashes DEF ReportInv, TypesInv
  <1>6. IsFiniteSet(F) /\ N \in Nat
    <2>1. PICK D : D = DOMAIN h
      OBVIOUS
    <2>2. IsFiniteSet(D \ {TotalEvents})
      BY <1>5, <2>1, FS_Difference DEF Hash
    <2> QED BY <1>4, <1>5, <2>1, <2>2, FS_CardinalityType
  <1>7. ASSUME NEW f \in F PROVE h[f] = Number(M, Named(f)) /\ h[f] \in Int
    <2>1. f \in DOMAIN h
      BY <1>5
    <2>2. f \in EventNames
      <3>1. PICK i \in Those(M, Kinds) : f = log[i].event.name
        BY <1>3
      <3>2. log[i].event \in Kinds
        BY DEF Those
      <3> QED BY <3>1, <3>2 DEF EventNames
    <2>3. Value(Merged(types, M), f) = Number(M, Named(f))
      BY <2>2 DEF ReportInv, TypesInv
    <2> QED BY <1>2, <1>5, <2>1, <2>3 DEF Value, Hash
  <1>8. Report(now).top = TopEvents(h)
    BY <1>1, <1>2 DEF Report
  <1>9. ASSUME NEW top \in TopEvents(h)
        PROVE  LET listed == {top[i].name : i \in DOMAIN top}
               IN  /\ Len(top) = IF N < TopCount THEN N ELSE TopCount
                   /\ Cardinality(listed) = Len(top) /\ listed \subseteq F
                   /\ \A i \in DOMAIN top : top[i].count = Number(M, Named(top[i].name))
                   /\ \A i, j \in DOMAIN top : i < j => top[i].count >= top[j].count
                   /\ \A n \in F \ listed : \A i \in DOMAIN top :
                         Number(M, Named(n)) <= top[i].count
    <2> DEFINE listed == {top[i].name : i \in DOMAIN top}
    <2>1. PICK d \in EventDistribution(h) : top = First(d, TopCount)
      BY DEF TopEvents
    <2>2. d \in Ranked(h, F)
      BY <1>5, <2>1 DEF EventDistribution
    <2>3. PICK s \in Bijection(1..N, F) :
             /\ d = [i \in 1..N |-> [name |-> s[i], count |-> h[s[i]]]]
             /\ \A i, j \in 1..N : i < j => h[s[i]] >= h[s[j]]
      BY <1>4, <2>2, RankedIs
    <2>4. /\ s \in [1..N -> F] /\ \A i, j \in 1..N : s[i] = s[j] => i = j
          /\ \A f \in F : \E i \in 1..N : s[i] = f
      <3>1. PICK P : P = 1..N
        OBVIOUS
      <3>2. s \in Bijection(P, F)
        BY <2>3, <3>1
      <3>3. /\ s \in [P -> F] /\ \A i, j \in P : s[i] = s[j] => i = j
            /\ \A f \in F : \E i \in P : s[i] = f
        BY <3>2, Fun_BijectionProperties
      <3> QED BY <3>1, <3>3
    <2>5. PICK l : l = IF N < TopCount THEN N ELSE TopCount
      OBVIOUS
    <2>6. /\ l \in Nat /\ l <= N /\ DOMAIN top = 1..l /\ Len(top) = l
          /\ \A i \in 1..l : top[i] = d[i]
      <3>0. PICK S : S = {d[i] : i \in 1..N}
        OBVIOUS
      <3>1. d \in Seq(S) /\ Len(d) = N
        BY <1>6, <2>3, <3>0
      <3>2. PICK n \in Nat : n = TopCount
        BY ReportAssumption
      <3>3. l = IF N < n THEN N ELSE n
        BY <2>5, <3>2
      <3>4. /\ l \in Nat /\ l <= N /\ DOMAIN First(d, n) = 1..l /\ Len(First(d, n)) = l
            /\ \A i \in 1..l : First(d, n)[i] = d[i]
        BY <1>6, <3>1, <3>3, FirstIs
      <3> QED BY <2>1, <3>2, <3>4
    <2>7. /\ DOMAIN top = 1..l /\ Len(top) = l
          /\ \A i \in 1..l : i \in 1..N /\ top[i].name = s[i] /\ top[i].count = h[s[i]]
      <3>1. \A i \in 1..l : i \in 1..N
        BY <1>6, <2>6
      <3> QED BY <2>3, <2>6, <3>1
    <2>8. listed = {s[i] : i \in 1..l}
      BY <2>7
    <2>9. listed \subseteq F
      BY <2>4, <2>7
    <2>10. Cardinality(listed) = l
      <3> DEFINE g == [i \in 1..l |-> s[i]]
                 T == {s[i] : i \in 1..l}
      <3>1. PICK P : P = 1..l
        OBVIOUS
      <3>2. g \in [P -> T] /\ (\A t \in T : \E i \in P : g[i] = t)
        BY <3>1
      <3>3. \A i, j \in P : g[i] = g[j] => i = j
        BY <2>4, <2>7, <3>1
      <3>a. IsFiniteSet(1..l) /\ Cardinality(1..l) = IF 1 > l THEN 0 ELSE l - 1 + 1
        BY <2>6, FS_Interval
      <3>4. IsFiniteSet(P) /\ Cardinality(P) = l
        BY <2>6, <3>1, <3>a
      <3> HIDE DEF g, T
      <3>5. g \in Bijection(P, T)
        BY <3>2, <3>3, Fun_IsBij
      <3>6. Cardinality(T) = l
        BY <3>4, <3>5, FS_Bijection DEF ExistsBijection
      <3> QED BY <2>8, <3>6 DEF T
    <2>11. ASSUME NEW i \in DOMAIN top PROVE top[i].count = Number(M, Named(top[i].name))
      <3>1. s[i] \in F /\ top[i].name = s[i] /\ top[i].count = h[s[i]]
        BY <2>4, <2>7
      <3> QED BY <1>7, <3>1
    <2>12. \A i, j \in DOMAIN top : i < j => top[i].count >= top[j].count
      BY <2>3, <2>7
    <2>13. ASSUME NEW n \in F \ listed, NEW i \in DOMAIN top
           PROVE  Number(M, Named(n)) <= top[i].count
      <3>1. PICK j \in 1..N : s[j] = n
        BY <2>4
      <3>2. j \notin 1..l
        BY <2>8, <3>1
      <3>3. i < j /\ i \in 1..N
        BY <2>6, <2>7, <3>2
      <3>4. h[s[i]] >= h[n] /\ s[i] \in F
        BY <2>3, <2>4, <3>1, <3>3
      <3>5. h[n] = Number(M, Named(n)) /\ h[n] \in Int /\ h[s[i]] \in Int
        BY <1>7, <3>4
      <3> QED BY <2>7, <3>4, <3>5
    <2>14. Len(top) = IF N < TopCount THEN N ELSE TopCount
      BY <2>5, <2>7
    <2>15. Cardinality(listed) = Len(top)
      BY <2>7, <2>10
    <2> HIDE DEF listed
    <2>16. /\ Len(top) = IF N < TopCount THEN N ELSE TopCount
           /\ Cardinality(listed) = Len(top) /\ listed \subseteq F
           /\ \A i \in DOMAIN top : top[i].count = Number(M, Named(top[i].name))
           /\ \A i, j \in DOMAIN top : i < j => top[i].count >= top[j].count
           /\ \A n \in F \ listed : \A i \in DOMAIN top : Number(M, Named(n)) <= top[i].count
      BY <2>9, <2>11, <2>12, <2>13, <2>14, <2>15
    <2> QED BY <2>16 DEF listed
  <1> QED BY <1>1, <1>3, <1>4, <1>8, <1>9 DEF TopEventsRanked

\* topEvents has the true counts of the names it lists, as many as fit, and
\* leaves out none that happened more often, however ties fall.
THEOREM TopEventsFair == ReportSpec => []TopEventsRanked
  <1> QED BY ReportInvariant, TopRanked, PTL

-----------------------------------------------------------------------------
(* Rounding                                                                 *)

LEMMA RoundBracket ==
  ASSUME NEW n \in Int, NEW d \in Nat \ {0}, NEW r, r = Round(n, d)
  PROVE  /\ r \in Int
         /\ 2 * (d * r) <= 2 * n + d /\ 2 * n + d < 2 * (d * r) + 2 * d
  <1>1. PICK a \in Int : a = 2 * n + d
    OBVIOUS
  <1>2. PICK b \in Nat \ {0} : b = 2 * d
    OBVIOUS
  <1>3. r = a \div b
    BY <1>1, <1>2 DEF Round
  <1>4. r \in Int /\ b * r <= a /\ a < b * r + b
    BY <1>3
  <1>5. b * r = 2 * (d * r)
    BY <1>2, <1>4
  <1> QED BY <1>1, <1>2, <1>4, <1>5

\* What a change shown says of the numbers it compares.
ChangeHonest(change, current, previous) ==
    /\ change > 0 => current > previous
    /\ change < 0 => current < previous
    /\ change = 0 => current = previous \/ previous >= 20000
    /\ previous = 0 => change \in {0, 10000}
    /\ previous > 0 =>
          2 * change * previous \in
             (20000 * (current - previous) - previous)..(20000 * (current - previous) + previous)

LEMMA PercentageHonest ==
  ASSUME NEW c \in Nat, NEW p \in Nat
  PROVE  ChangeHonest(PercentageChange(c, p), c, p)
  <1>1. PICK g : g = PercentageChange(c, p)
    OBVIOUS
  <1>2. CASE p = 0
    <2>1. g = IF c > 0 THEN 10000 ELSE 0
      BY <1>1, <1>2 DEF PercentageChange
    <2> QED BY <1>1, <1>2, <2>1 DEF ChangeHonest
  <1>3. CASE p > 0
    <2>1. PICK n \in Int : n = (c - p) * 10000
      OBVIOUS
    <2>2. g = Round(n, p)
      BY <1>1, <1>3, <2>1 DEF PercentageChange
    <2>3. g \in Int /\ 2 * (p * g) <= 2 * n + p /\ 2 * n + p < 2 * (p * g) + 2 * p
      BY <1>3, <2>2, RoundBracket
    <2>4. PICK x \in Int : x = p * g
      BY <2>3
    <2>5. 2 * x <= 2 * n + p /\ 2 * n + p < 2 * x + 2 * p
      BY <2>3, <2>4
    <2>6. 2 * n = 20000 * (c - p)
      BY <2>1
    <2>7. /\ g > 0 => x >= p
          /\ g < 0 => x <= -p
          /\ g = 0 => x = 0
      BY <2>3, <2>4, <1>3
    <2>8. g > 0 => c > p
      BY <2>3, <2>5, <2>6, <2>7, <1>3
    <2>9. g < 0 => c < p
      BY <2>3, <2>5, <2>6, <2>7, <1>3
    <2>10. g = 0 => c = p \/ p >= 20000
      BY <2>3, <2>5, <2>6, <2>7, <1>3
    <2>11. 2 * g * p = 2 * x
      BY <2>3, <2>4
    <2>12. 2 * g * p \in (20000 * (c - p) - p)..(20000 * (c - p) + p)
      BY <2>5, <2>6, <2>11
    <2> QED BY <1>1, <1>3, <2>8, <2>9, <2>10, <2>12 DEF ChangeHonest
  <1> QED BY <1>2, <1>3

\* The places of two events of one minute differ.
LEMMA PlacesDiffer ==
  ASSUME log \in Seq(Entries), NEW i \in DOMAIN log, NEW j \in DOMAIN log,
         log[i].at = log[j].at, Place(i) = Place(j)
  PROVE  i = j
  <1>1. ASSUME NEW a \in DOMAIN log, NEW b \in DOMAIN log, log[a].at = log[b].at, a < b
        PROVE  Place(a) # Place(b)
    <2>1. /\ Newer(a) = {x \in DOMAIN log : log[x].at = log[a].at /\ a < x}
          /\ Newer(b) = {x \in DOMAIN log : log[x].at = log[b].at /\ b < x}
          /\ IsFiniteSet(Newer(a)) /\ Place(a) \in Nat /\ Place(b) \in Nat
      BY NewerIs
    <2>2. DOMAIN log \subseteq Int
      OBVIOUS
    <2>3. Newer(b) \in SUBSET Newer(a)
      BY <1>1, <2>1, <2>2
    <2>4. b \in Newer(a) /\ b \notin Newer(b)
      BY <1>1, <2>1, <2>2
    <2>5. Cardinality(Newer(a)) = Cardinality(Newer(b)) => Newer(a) = Newer(b)
      BY <2>1, <2>3, FS_Subset
    <2>6. Cardinality(Newer(a)) \in Nat /\ Cardinality(Newer(b)) \in Nat
      BY <2>1, <2>3, FS_Subset, FS_CardinalityType
    <2> QED BY <2>4, <2>5, <2>6 DEF Place
  <1>2. i \in Int /\ j \in Int
    OBVIOUS
  <1>3. ~(i < j)
    BY <1>1
  <1>4. ~(j < i)
    BY <1>1
  <1> QED BY <1>2, <1>3, <1>4

\* The times of a window are those of the newest events of its minutes.
LEMMA AverageHonest ==
  ASSUME ReportInv, NEW M \in SUBSET Minutes, NEW T,
         T = {i \in Those(M, Kinds) : Cardinality(Newer(i)) < TimesKept},
         NEW average, average = AverageResponseTime(ResponseTimes(M))
  PROVE  LET lags == SumOf([i \in T |-> log[i].event.lag])
             n == Cardinality(T)
         IN  /\ 2 * n * average \in (2 * lags - n)..(2 * lags + n)
             /\ n = 0 => average = 0
  <1> DEFINE b == [i \in T |-> <<log[i].at, Place(i)>>]
             g == [i \in T |-> log[i].event.lag]
  <1>1. /\ log \in Seq(Entries) /\ TimesKept \in Nat \ {0}
        /\ \A i \in DOMAIN log : log[i] \in Entries
    BY ReportAssumption DEF ReportInv, CountsTyped
  <1>2. PICK ts : ts = ResponseTimes(M)
    OBVIOUS
  <1>3. /\ \A p : p \in DOMAIN ts <=> \E m \in M : \E k \in DOMAIN times[m] : p = <<m, k>>
        /\ \A m \in M : \A k \in DOMAIN times[m] : ts[<<m, k>>] = times[m][k]
    BY <1>2 DEF ResponseTimes
  <1>4. ASSUME NEW m \in M
        PROVE  /\ times[m] \in Seq(Int) /\ DOMAIN times[m] = 1..Len(times[m])
               /\ Len(times[m]) \in Nat /\ Len(times[m]) <= TimesKept
               /\ \A k \in 1..Len(times[m]) :
                     \E i \in DOMAIN log :
                        log[i].at = m /\ Place(i) = k /\ times[m][k] = log[i].event.lag
               /\ \A i \in DOMAIN log :
                     log[i].at = m /\ Place(i) <= TimesKept => Place(i) <= Len(times[m])
    <2>1. m \in Minutes /\ times[m] \in Seq(Int)
      BY DEF ReportInv, TimesInv
    <2> QED BY <2>1 DEF ReportInv, TimesInv
  <1>5. /\ \A i \in DOMAIN log : Place(i) \in Nat \ {0} /\ log[i].event.lag \in Int
        /\ \A i : i \in T <=> i \in DOMAIN log /\ log[i].at \in M /\ Place(i) <= TimesKept
    <2>1. ASSUME NEW i \in DOMAIN log
          PROVE  /\ Place(i) \in Nat \ {0} /\ log[i].event \in Kinds
                 /\ Cardinality(Newer(i)) < TimesKept <=> Place(i) <= TimesKept
      <3>1. Cardinality(Newer(i)) \in Nat
        BY <1>1, NewerIs, FS_CardinalityType
      <3>2. log[i].event \in Kinds
        BY <1>1 DEF Entries
      <3> QED BY <1>1, <3>1, <3>2 DEF Place
    <2> QED BY <2>1, ReportAssumption DEF Those
  <1>6. ASSUME NEW i \in T
        PROVE  b[i] \in DOMAIN ts /\ ts[b[i]] = log[i].event.lag
    <2>1. PICK m \in M : m = log[i].at
      BY <1>5
    <2>2. PICK k : k = Place(i)
      OBVIOUS
    <2>3. k \in 1..Len(times[m]) /\ i \in DOMAIN log
      BY <1>4, <1>5, <2>1, <2>2
    <2>4. PICK j \in DOMAIN log :
             log[j].at = m /\ Place(j) = k /\ times[m][k] = log[j].event.lag
      BY <1>4, <2>3
    <2>5. j = i
      BY <1>1, <2>1, <2>2, <2>3, <2>4, PlacesDiffer
    <2>6. b[i] = <<m, k>> /\ k \in DOMAIN times[m]
      BY <1>4, <2>1, <2>2, <2>3
    <2> QED BY <1>3, <2>4, <2>5, <2>6
  <1>7. \A i, j \in T : b[i] = b[j] => i = j
    <2> SUFFICES ASSUME NEW i \in T, NEW j \in T, b[i] = b[j] PROVE i = j
      OBVIOUS
    <2>1. log[i].at = log[j].at /\ Place(i) = Place(j)
      OBVIOUS
    <2> QED BY <1>1, <1>5, <2>1, PlacesDiffer
  <1>8. ASSUME NEW p \in DOMAIN ts PROVE \E i \in T : b[i] = p
    <2>1. PICK m \in M : \E k \in DOMAIN times[m] : p = <<m, k>>
      BY <1>3
    <2>2. PICK k \in 1..Len(times[m]) : p = <<m, k>>
      BY <1>4, <2>1
    <2>3. PICK i \in DOMAIN log : log[i].at = m /\ Place(i) = k
      BY <1>4, <2>2
    <2>4. i \in T
      BY <1>1, <1>4, <1>5, <2>2, <2>3
    <2> QED BY <2>2, <2>3, <2>4
  <1>9. b \in [T -> DOMAIN ts]
    BY <1>6
  <1>10. DOMAIN g = T /\ \A i \in T : g[i] = log[i].event.lag
    OBVIOUS
  <1>11. \A i \in T : g[i] = ts[b[i]]
    BY <1>6, <1>10
  <1> HIDE DEF b, g
  <1>12. b \in Bijection(T, DOMAIN ts)
    BY <1>7, <1>8, <1>9, Fun_IsBij
  <1>13. IsFiniteSet(T)
    <2>1. T \in SUBSET Those(M, Kinds) /\ IsFiniteSet(Those(M, Kinds))
      BY <1>1, ThoseFinite
    <2> QED BY <2>1, FS_Subset
  <1>14. /\ IsFiniteSet(DOMAIN ts) /\ Cardinality(DOMAIN ts) = Cardinality(T)
         /\ Cardinality(T) \in Nat /\ (Cardinality(T) = 0 <=> T = {})
    BY <1>12, <1>13, FS_Bijection, FS_CardinalityType, FS_EmptySet DEF ExistsBijection
  <1>15. \A p \in DOMAIN ts : ts[p] \in Int
    BY <1>5, <1>6, <1>8
  <1>16. SumOf(g) = SumOf(ts) /\ SumOf(ts) \in Int
    BY <1>10, <1>11, <1>12, <1>14, <1>15, SumReindexed, SumInteger
  <1>17. PICK lags \in Int : lags = SumOf(g)
    BY <1>16
  <1>18. PICK n \in Nat : n = Cardinality(T)
    BY <1>14
  <1>19. CASE n = 0
    <2>1. T = {}
      BY <1>14, <1>18, <1>19
    <2>2. DOMAIN ts = {}
      BY <1>8, <2>1
    <2>3. average = 0
      BY <1>2, <2>2 DEF AverageResponseTime
    <2>4. lags = 0
      BY <1>14, <1>15, <1>16, <1>17, <2>2, SumInteger
    <2> QED BY <1>17, <1>18, <1>19, <2>3, <2>4 DEF g
  <1>20. CASE n # 0
    <2>1. DOMAIN ts # {}
      BY <1>14, <1>18, <1>20, FS_EmptySet
    <2>2. average = Round(lags, n)
      BY <1>2, <1>14, <1>16, <1>17, <1>18, <2>1 DEF AverageResponseTime
    <2>3. /\ average \in Int
          /\ 2 * (n * average) <= 2 * lags + n /\ 2 * lags + n < 2 * (n * average) + 2 * n
      BY <1>20, <2>2, RoundBracket
    <2>4. 2 * n * average = 2 * (n * average) /\ n * average \in Int
      BY <2>3
    <2>5. 2 * n * average \in (2 * lags - n)..(2 * lags + n)
      BY <2>3, <2>4
    <2> QED BY <1>17, <1>18, <1>20, <2>5 DEF g
  <1> QED BY <1>19, <1>20

LEMMA Rounded == ReportInv => RoundedHonest
  <1> SUFFICES ASSUME ReportInv PROVE RoundedHonest
    OBVIOUS
  <1>1. PICK M \in SUBSET Minutes : M = WindowFrom(now)
    BY WindowMinutes
  <1>2. PICK P \in SUBSET Minutes : P = WindowFrom(now - Window)
    BY WindowMinutes
  <1>3. ASSUME NEW W \in SUBSET Minutes
        PROVE  Value(Merged(volume, W), TotalEvents) \in Nat /\ UsersIn(W) \in Nat
    BY WindowHashes, ValueTyped, UsersOfWindow
  <1>4. PICK r : r = Report(now)
    OBVIOUS
  <1>5. PICK last : last = Report(now - Window)
    OBVIOUS
  <1>6. /\ r.total = Value(Merged(volume, M), TotalEvents) /\ r.users = UsersIn(M)
        /\ r.totalChange = PercentageChange(r.total, last.total)
        /\ r.usersChange = PercentageChange(r.users, last.users)
        /\ r.average = AverageResponseTime(ResponseTimes(M))
        /\ last.total = Value(Merged(volume, P), TotalEvents) /\ last.users = UsersIn(P)
    BY <1>1, <1>2, <1>4, <1>5 DEF Report
  <1>7. /\ ChangeHonest(r.totalChange, r.total, last.total)
        /\ ChangeHonest(r.usersChange, r.users, last.users)
    <2>1. /\ r.total \in Nat /\ last.total \in Nat /\ r.users \in Nat /\ last.users \in Nat
      BY <1>3, <1>6
    <2> QED BY <1>6, <2>1, PercentageHonest
  <1>8. PICK T : T = {i \in Those(M, Kinds) : Cardinality(Newer(i)) < TimesKept}
    OBVIOUS
  <1>9. /\ 2 * Cardinality(T) * r.average \in
              (2 * SumOf([i \in T |-> log[i].event.lag]) - Cardinality(T))
              ..(2 * SumOf([i \in T |-> log[i].event.lag]) + Cardinality(T))
        /\ Cardinality(T) = 0 => r.average = 0
    BY <1>6, <1>8, AverageHonest
  <1> QED BY <1>1, <1>4, <1>5, <1>7, <1>8, <1>9 DEF RoundedHonest, ChangeHonest, Newer

\* The changes and the average of a report are as near as Math.round allows,
\* and no decline is shown as growth.
THEOREM FiguresHonest == ReportSpec => []RoundedHonest
  <1> QED BY ReportInvariant, Rounded, PTL

==============================================================================
