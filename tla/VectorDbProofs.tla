--------------------------- MODULE VectorDbProofs ---------------------------
(***************************************************************************)
(* Theorems about a collection of the vector database, for every number of *)
(* vectors, batch size, deletes, loads and threads in create_index:        *)
(* inserts, deletes, persist, a failure or a crash at any point of it, and *)
(* a load that reads the files while other threads go on.                  *)
(***************************************************************************)
EXTENDS VectorDb, FiniteSetTheorems, SequenceTheorems, TLAPS

-----------------------------------------------------------------------------
(* Sets of rows and sequences of them.                                     *)

\* A nonempty set of naturals has a least element.
LEMMA LeastNat ==
  ASSUME NEW S \in SUBSET Nat, S # {}
  PROVE  \E m \in S : \A k \in S : m <= k
<1> DEFINE R == OpToRel(<, Nat)
<1>1. IsWellFoundedOn(R, Nat)
  BY NatLessThanWellFounded
<1>2. \E m \in S : \A k \in S : ~ (<<k, m>> \in R)
  <2> HIDE DEF R
  <2> QED  BY <1>1, WFMin
<1>3. PICK m \in S : \A k \in S : ~ (<<k, m>> \in R)
  BY <1>2
<1>4. \A k \in S : ~(k < m)
  BY <1>3 DEF OpToRel
<1> QED
  BY <1>4

\* The largest row that satisfies a condition, for the map that load fills.
LEMMA MaxOfRows ==
  ASSUME NEW n \in Nat, NEW S \in SUBSET (1..n), S # {}
  PROVE  Max(S) \in S /\ \A k \in S : k <= Max(S)
<1> DEFINE U == {m \in Nat : \A k \in S : k <= m}
<1>1. n \in U
  OBVIOUS
<1>2. PICK m \in U : \A k \in U : m <= k
  BY <1>1, LeastNat
<1>3. m \in S
  <2>1. SUFFICES ASSUME m \notin S PROVE FALSE
    OBVIOUS
  <2>2. m # 0
    <3>1. PICK x \in S : TRUE
      OBVIOUS
    <3>2. x \in 1..n /\ x <= m
      OBVIOUS
    <3> QED  BY <3>2
  <2>3. m - 1 \in U
    BY <2>1, <2>2
  <2> QED  BY <2>3, <1>2
<1>4. \E x \in S : \A y \in S : x >= y
  BY <1>3
<1>5. Max(S) \in S /\ \A y \in S : Max(S) >= y
  BY <1>4 DEF Max
<1> QED
  BY <1>5

\* Rows can be listed in their order.
LEMMA InOrder ==
  ASSUME NEW n \in Nat, NEW S \in SUBSET (1..n)
  PROVE  \E s \in SetToSeqs(S) : \A j, k \in DOMAIN s : j < k => s[j] < s[k]
<1> DEFINE Lists(T) == \E s \in SetToSeqs(T) : \A j, k \in DOMAIN s : j < k => s[j] < s[k]
           Bad == {m \in Nat : \E T \in SUBSET (1..m) : ~Lists(T)}
<1>1. SUFFICES Bad = {}
  OBVIOUS
<1>2. SUFFICES ASSUME Bad # {} PROVE FALSE
  OBVIOUS
<1>3. PICK m \in Bad : \A k \in Bad : m <= k
  BY <1>2, LeastNat
<1>4. PICK T \in SUBSET (1..m) : ~Lists(T)
  OBVIOUS
<1>5. m # 0
  <2>1. SUFFICES ASSUME m = 0 PROVE FALSE
    OBVIOUS
  <2>2. T = {}
    BY <2>1
  <2>3. 1..Cardinality(T) = {}
    BY <2>2, FS_EmptySet
  <2>4. <<>> \in [1..Cardinality(T) -> T] /\ DOMAIN <<>> = {}
    BY <2>3
  <2>5. <<>> \in SetToSeqs(T)
    BY <2>3, <2>4 DEF SetToSeqs
  <2> QED  BY <2>4, <2>5, <1>4
<1>6. m \in T
  <2>1. SUFFICES ASSUME m \notin T PROVE FALSE
    OBVIOUS
  <2>2. T \in SUBSET (1..(m - 1))
    BY <2>1
  <2>3. m - 1 \in Bad
    BY <2>2, <1>4, <1>5
  <2>4. m <= m - 1
    BY <2>3, <1>3
  <2> QED  BY <2>4
<1> DEFINE U == T \ {m}
<1>7. U \in SUBSET (1..(m - 1))
  OBVIOUS
<1>8. m - 1 \notin Bad
  BY <1>3
<1>9. Lists(U)
  BY <1>7, <1>8, <1>5
<1>10. PICK s \in SetToSeqs(U) : \A j, k \in DOMAIN s : j < k => s[j] < s[k]
  BY <1>9
<1>11. IsFiniteSet(T) /\ Cardinality(T) \in Nat
  <2>1. IsFiniteSet(1..m)
    BY FS_Interval
  <2> QED  BY <2>1, FS_Subset, FS_CardinalityType
<1>12. Cardinality(U) = Cardinality(T) - 1 /\ Cardinality(U) \in Nat
  BY <1>6, <1>11, FS_RemoveElement, FS_CardinalityType
<1> DEFINE c == Cardinality(U)
           t == [k \in 1..(c + 1) |-> IF k = c + 1 THEN m ELSE s[k]]
<1>13. s \in [1..c -> U] /\ \A i, j \in 1..c : i # j => s[i] # s[j]
  BY DEF SetToSeqs
<1>14. Cardinality(T) = c + 1
  BY <1>11, <1>12
<1> HIDE DEF U, c
<1>15. U \subseteq T /\ \A x \in U : x \in Nat /\ x < m
  BY <1>7 DEF U
<1>16. t \in [1..(c + 1) -> T]
  <2> SUFFICES ASSUME NEW k \in 1..(c + 1) PROVE (IF k = c + 1 THEN m ELSE s[k]) \in T
    OBVIOUS
  <2>1. c \in Nat
    BY <1>12 DEF c
  <2>2. k = c + 1 \/ k \in 1..c
    BY <2>1
  <2> QED  BY <2>2, <1>13, <1>6, <1>15
<1>17. \A j, k \in 1..(c + 1) : j < k => t[j] < t[k]
  <2> SUFFICES ASSUME NEW j \in 1..(c + 1), NEW k \in 1..(c + 1), j < k
               PROVE  t[j] < t[k]
    OBVIOUS
  <2>1. c \in Nat /\ j \in 1..c
    BY <1>12 DEF c
  <2>2. t[j] = s[j] /\ s[j] \in U
    BY <2>1, <1>13
  <2>3. CASE k = c + 1
    BY <2>2, <2>3, <1>15
  <2>4. CASE k # c + 1
    <3>1. k \in 1..c
      BY <2>4, <2>1
    <3>2. t[k] = s[k]
      BY <2>4
    <3> QED  BY <3>1, <3>2, <2>1, <2>2, <1>10, <1>13
  <2> QED  BY <2>3, <2>4
<1>18. \A i, j \in 1..(c + 1) : i # j => t[i] # t[j]
  <2>1. \A i \in 1..(c + 1) : t[i] \in Nat
    <3> HIDE DEF t
    <3>1. T \subseteq Nat
      OBVIOUS
    <3> QED  BY <1>16, <3>1
  <2> HIDE DEF t
  <2>2. \A i, j \in 1..(c + 1) : i # j => i < j \/ j < i
    BY <1>12 DEF c
  <2> QED  BY <2>1, <2>2, <1>17
<1>19. DOMAIN t = 1..(c + 1)
  OBVIOUS
<1>20. t \in SetToSeqs(T)
  <2> HIDE DEF t
  <2> QED  BY <1>14, <1>16, <1>18 DEF SetToSeqs
<1> HIDE DEF t
<1> QED
  BY <1>17, <1>19, <1>20, <1>4

\* The smaller and the larger of two numbers.
LEMMA MinMaxOfTwo ==
  ASSUME NEW a \in Int, NEW b \in Int
  PROVE  /\ Min({a, b}) = IF a <= b THEN a ELSE b
         /\ Max({a, b}) = IF a <= b THEN b ELSE a
<1>1. \E x \in {a, b} : \A y \in {a, b} : x <= y
  OBVIOUS
<1>2. \E x \in {a, b} : \A y \in {a, b} : x >= y
  OBVIOUS
<1>3. Min({a, b}) \in {a, b} /\ \A y \in {a, b} : Min({a, b}) <= y
  BY <1>1 DEF Min
<1>4. Max({a, b}) \in {a, b} /\ \A y \in {a, b} : Max({a, b}) >= y
  BY <1>2 DEF Max
<1> QED
  BY <1>3, <1>4

\* FlatIndex.search loses nothing by looking at only as many rows more as
\* there are rows it leaves out: it finds the nearest of the others.
LEMMA SlackIsEnough ==
  ASSUME size \in Nat, Cardinality(deleted) \in Nat, NEW top \in Nat,
         Cardinality((1..size) \ Visible) <= Cardinality(deleted), NEW rank \in [1..size -> Int]
  PROVE  Search(rank, top) = Nearest(Visible, rank, top)
<1> DEFINE n == size
           V == Visible
           d == Cardinality(deleted)
<1>0. /\ n \in Nat /\ V \in SUBSET (1..n) /\ d \in Nat
      /\ Cardinality((1..n) \ V) <= d /\ rank \in [1..n -> Int]
  BY DEF Visible
<1>11. Search(rank, top) = Nearest(Nearest(1..n, rank, Min({top + d, n})) \cap V, rank, top)
  BY DEF Search
<1> HIDE DEF n, V, d
<1> USE <1>0
<1> DEFINE m == Min({top + d, n})
           Before(S, r) == {q \in S : rank[q] < rank[r]}
           A == Nearest(1..n, rank, m)
<1>1. m = (IF top + d <= n THEN top + d ELSE n)
  BY MinMaxOfTwo
<1>2. IsFiniteSet(1..n) /\ Cardinality(1..n) = n
  BY FS_Interval
<1>3. ASSUME NEW S \in SUBSET (1..n)
      PROVE  IsFiniteSet(S) /\ Cardinality(S) \in Nat
  BY <1>2, FS_Subset, FS_CardinalityType
<1>4. A = {r \in 1..n : Cardinality(Before(1..n, r)) < m}
  BY DEF Nearest
<1> HIDE DEF m
<1>5. ASSUME NEW r \in V, Cardinality(Before(V, r)) < top
      PROVE  r \in A
  <2> DEFINE D == (1..n) \ V
  <2>1. Before(1..n, r) = Before(V, r) \cup Before(D, r)
    OBVIOUS
  <2>2. Before(V, r) \in SUBSET (1..n) /\ Before(D, r) \in SUBSET (1..n) /\ Before(1..n, r) \in SUBSET (1..n)
    OBVIOUS
  <2>3. D \in SUBSET (1..n) /\ Before(D, r) \in SUBSET D
    OBVIOUS
  <2>11. Cardinality(Before(V, r)) < top
    BY <1>5
  <2> HIDE DEF D, Before
  <2>4. Cardinality(Before(D, r)) <= Cardinality(D) /\ Cardinality(D) <= d
    BY <2>3, <1>3, FS_Subset DEF D
  <2>5. Cardinality(Before(V, r) \cup Before(D, r))
          = Cardinality(Before(V, r)) + Cardinality(Before(D, r)) - Cardinality(Before(V, r) \cap Before(D, r))
    BY <2>2, <1>3, FS_Union
  <2>6. Before(V, r) \cap Before(D, r) \in SUBSET (1..n)
    BY <2>2
  <2>7. Cardinality(Before(V, r)) \in Nat /\ Cardinality(Before(D, r)) \in Nat /\ Cardinality(D) \in Nat
        /\ Cardinality(Before(V, r) \cap Before(D, r)) \in Nat /\ Cardinality(Before(1..n, r)) \in Nat
    BY <2>2, <2>3, <2>6, <1>3
  <2>8. Cardinality(Before(1..n, r)) < top + d
    <3>1. Cardinality(Before(1..n, r))
            = Cardinality(Before(V, r)) + Cardinality(Before(D, r)) - Cardinality(Before(V, r) \cap Before(D, r))
      BY <2>1, <2>5
    <3> QED  BY <3>1, <2>4, <2>7, <2>11, SMTT(30)
  <2>9. Cardinality(Before(1..n, r)) < n
    <3>1. r \in 1..n /\ r \notin Before(1..n, r)
      BY DEF Before
    <3>2. Before(1..n, r) # 1..n
      BY <3>1
    <3>3. Cardinality(Before(1..n, r)) <= n /\ (Cardinality(1..n) = Cardinality(Before(1..n, r)) => 1..n = Before(1..n, r))
      BY <1>2, <2>2, FS_Subset
    <3> QED  BY <3>2, <3>3, <1>2, <2>7
  <2>10. Cardinality(Before(1..n, r)) < m
    BY <1>1, <2>8, <2>9, <2>7
  <2> QED  BY <2>10, <1>4 DEF Before
<1>6. ASSUME NEW r \in A, NEW q \in 1..n, rank[q] < rank[r]
      PROVE  q \in A
  <2>0. r \in 1..n
    BY <1>4
  <2>1. Before(1..n, q) \in SUBSET Before(1..n, r)
    <3> SUFFICES ASSUME NEW x \in 1..n, rank[x] < rank[q] PROVE rank[x] < rank[r]
      OBVIOUS
    <3>1. rank[x] \in Int /\ rank[q] \in Int /\ rank[r] \in Int
      BY <2>0
    <3> QED  BY <3>1, <1>6
  <2>2. Before(1..n, r) \in SUBSET (1..n) /\ Before(1..n, q) \in SUBSET (1..n)
    OBVIOUS
  <2> HIDE DEF Before
  <2>3. Cardinality(Before(1..n, q)) <= Cardinality(Before(1..n, r))
    BY <2>1, <2>2, <1>3, FS_Subset
  <2>4. Cardinality(Before(1..n, q)) \in Nat /\ Cardinality(Before(1..n, r)) \in Nat /\ m \in Int
    BY <2>2, <1>1, <1>3
  <2>5. Cardinality(Before(1..n, r)) < m
    BY <1>4 DEF Before
  <2>6. Cardinality(Before(1..n, q)) < m
    BY <2>3, <2>4, <2>5
  <2> QED  BY <2>6, <1>4 DEF Before
<1>7. ASSUME NEW r \in A \cap V
      PROVE  Before(A \cap V, r) = Before(V, r)
  BY <1>6
<1> HIDE DEF A
<1>8. Nearest(A \cap V, rank, top) = {r \in A \cap V : Cardinality(Before(A \cap V, r)) < top}
  BY DEF Nearest
<1>9. Nearest(V, rank, top) = {r \in V : Cardinality(Before(V, r)) < top}
  BY DEF Nearest
<1> HIDE DEF Before
<1>10. \A r : r \in Nearest(A \cap V, rank, top) <=> r \in Nearest(V, rank, top)
  BY <1>5, <1>7, <1>8, <1>9
<1>12. Nearest(A \cap V, rank, top) = Nearest(V, rank, top)
  BY <1>10
<1> QED
  BY <1>11, <1>12 DEF A, m, V

\* While no two rows have the same id, as many rows are deleted as ids are.
LEMMA RowsOfIds ==
  ASSUME size \in Nat, \A j, k \in 1..size : ids[j] = ids[k] => j = k,
         \A i \in deleted : \E k \in 1..size : ids[k] = i
  PROVE  /\ IsFiniteSet(deleted)
         /\ Cardinality({k \in 1..size : ids[k] \in deleted}) = Cardinality(deleted)
<1> DEFINE K == {k \in 1..size : ids[k] \in deleted}
           f == [k \in K |-> ids[k]]
           D == deleted
<1>1. IsFiniteSet(K)
  <2>1. IsFiniteSet(1..size) /\ K \in SUBSET (1..size)
    BY FS_Interval
  <2> QED  BY <2>1, FS_Subset
<1>2. f \in Bijection(K, D)
  <2>1. f \in [K -> D]
    OBVIOUS
  <2>2. \A a, b \in K : f[a] = f[b] => a = b
    OBVIOUS
  <2>3. \A i \in D : \E k \in K : f[k] = i
    OBVIOUS
  <2> HIDE DEF f, K
  <2> QED  BY <2>1, <2>2, <2>3 DEF Bijection, Injection, Surjection, IsInjective
<1>3. ExistsBijection(K, D)
  BY <1>2 DEF ExistsBijection
<1> QED
  BY <1>1, <1>3, FS_Bijection

\* FlatIndex.save writes each row search can return once.
LEMMA ValidRows ==
  ASSUME TypeOK
  PROVE  /\ Len(Valid) \in Nat /\ Len(Valid) <= size /\ Len(Valid) = Cardinality(Visible)
         /\ DOMAIN Valid = 1..Len(Valid)
         /\ \A k \in 1..Len(Valid) : Valid[k] \in Visible
         /\ \A j, k \in 1..Len(Valid) : Valid[j] = Valid[k] => j = k
         /\ \A q \in Visible : \E k \in 1..Len(Valid) : Valid[k] = q
         /\ Valid = <<>> <=> Len(Valid) = 0
<1> DEFINE c == Cardinality(Visible)
<1>1. size \in Nat /\ Visible \in SUBSET (1..size)
  BY DEF TypeOK, Visible
<1>2. IsFiniteSet(Visible) /\ c \in Nat /\ c <= size
  <2>1. IsFiniteSet(1..size) /\ Cardinality(1..size) = size
    BY <1>1, FS_Interval
  <2> QED  BY <2>1, <1>1, FS_Subset, FS_CardinalityType
<1>3. \E s \in SetToSeqs(Visible) : \A j, k \in DOMAIN s : j < k => s[j] < s[k]
  BY <1>1, InOrder
<1>4. Valid \in SetToSeqs(Visible)
  BY <1>3 DEF Valid
<1>5. Valid \in [1..c -> Visible] /\ \A i, j \in 1..c : i # j => Valid[i] # Valid[j]
  BY <1>4 DEF SetToSeqs
<1>6. Valid \in Seq(Visible) /\ Len(Valid) = c
  BY <1>2, <1>5
<1>7. Valid \in Injection(1..c, Visible)
  BY <1>5 DEF Injection, IsInjective
<1>8. Cardinality(1..c) = c
  BY <1>2, FS_Interval
<1>9. Valid \in Surjection(1..c, Visible)
  BY <1>2, <1>7, <1>8, FS_Injection
<1>10. \A q \in Visible : \E k \in 1..c : Valid[k] = q
  BY <1>9 DEF Surjection
<1>11. Valid = <<>> <=> Len(Valid) = 0
  BY <1>6, EmptySeq
<1> QED
  BY <1>2, <1>5, <1>6, <1>10, <1>11

-----------------------------------------------------------------------------
(***************************************************************************)
(* The inductive invariant.  Bounded is what every state satisfies, also   *)
(* one loaded from files of two saves: no more rows and ids than vectors   *)
(* were ever inserted, and a history of vectors that were.                 *)
(***************************************************************************)
Bounded ==
  /\ Len(ids) <= used /\ Len(vecs) <= used /\ Len(file.ids) <= used /\ Len(file.vecs) <= used
  /\ \A k \in 1..Len(vecs) : vecs[k] <= used
  /\ \A k \in 1..Len(file.vecs) : file.vecs[k] <= used
  /\ size <= Len(ids)
  /\ deleted \subseteq ToSet(ids)
  /\ count = size - Cardinality(deleted)
  /\ live \subseteq 1..used /\ gone \subseteq 1..used
  /\ mark.live \subseteq 1..used /\ mark.gone \subseteq 1..used
  /\ mark.reused \in BOOLEAN /\ mark.torn \in BOOLEAN /\ mark.replaced \in BOOLEAN
  /\ saving # "no" => exists /\ file.mixed

\* What the history says of n rows with the ids u and the vectors v, when the
\* ids D are deleted and the vectors G are gone: no vector is in two rows, a
\* vector that is gone is in no row that search returns, and as long as none
\* is gone every id is one that was given in order.
SoundRows(u, v, n, D, G) ==
  /\ \A j, k \in 1..n : v[j] = v[k] => j = k
  /\ \A k \in 1..n : v[k] \in G => u[k] \in D
  /\ G = {} => D = {} /\ \A k \in 1..n : u[k] < n

\* When in addition no id was given twice: every id belongs to one row, and
\* the rows that search returns hold the vectors L unless R: the collection
\* was replaced by an empty one.
ExactRows(u, v, n, D, L, R) ==
  /\ \A j, k \in 1..n : u[j] = u[k] => j = k
  /\ ~R => L = {v[k] : k \in {q \in 1..n : u[q] \notin D}}

\* The collection in memory, unless it was loaded from files of two saves.
Sound ==
  ~torn =>
    /\ Len(ids) = size
    /\ \A i \in DOMAIN index : index[i] \in 1..size /\ ids[index[i]] = i /\ vecs[index[i]] \notin gone
    /\ SoundRows(ids, vecs, size, deleted, gone)
    /\ reused => gone # {}

Exact ==
  ~torn /\ ~reused =>
    /\ ExactRows(ids, vecs, size, deleted, live, replaced)
    /\ DOMAIN index = ToSet(ids) \ deleted
    /\ \A i \in Id : meta[i] # None => i \in DOMAIN index /\ vecs[index[i]] = meta[i]

\* Ids u and vectors v as one complete persist wrote them, described by the
\* mark m it left.
Describes(u, v, m) ==
  /\ Len(u) = 0 \/ Len(u) = Len(v)
  /\ m.seen = {<<u[k], v[k]>> : k \in 1..Len(u)}
  /\ ~m.torn => SoundRows(u, v, Len(u), {}, m.gone)
  /\ ~m.torn /\ ~m.reused => ExactRows(u, v, Len(u), {}, m.live, m.replaced)

\* The files, when the last persist was complete.
Saved ==
  /\ mark.reused /\ ~mark.torn => mark.gone # {}
  /\ ~file.mixed => Describes(file.ids, file.vecs, mark)

\* A persist in progress: vectors.npy holds the rows of the collection.
Half == saving \in {"between", "index"} => Valid = <<>> \/ file.vecs = SavedVecs

\* A load in progress: what it has read is of files that were there, and when
\* no persist came between its reads, of one complete persist.
Reading ==
  /\ Len(reader.ids) <= used /\ Len(reader.vecs) <= used
  /\ \A k \in 1..Len(reader.vecs) : reader.vecs[k] <= used
  /\ reader.mark.live \subseteq 1..used /\ reader.mark.gone \subseteq 1..used
  /\ reader.mark.reused \in BOOLEAN /\ reader.mark.torn \in BOOLEAN /\ reader.mark.replaced \in BOOLEAN
  /\ reader.mark.reused /\ ~reader.mark.torn => reader.mark.gone # {}
  /\ reader.pc = "ids" /\ reader.whole => ~file.mixed /\ reader.ids = file.ids /\ reader.mark = mark
  /\ reader.pc = "read" /\ reader.whole => Describes(reader.ids, reader.vecs, reader.mark)
  /\ reader.pc # "no" => loads < MaxLoads

VectorIInv == TypeOK /\ Bounded /\ Sound /\ Exact /\ Saved /\ Half /\ Reading

-----------------------------------------------------------------------------
(* What the invariant implies.                                             *)

\* The invariant implies what CollectionInv states.
LEMMA IInvCollection ==
  ASSUME VectorIInv
  PROVE  CollectionInv
<1> USE DEF VectorIInv
<1>1. ReuseOnlyAfterDelete
  BY DEF Sound, ReuseOnlyAfterDelete
<1>2. DeletedGone
  <2> SUFFICES ASSUME exists, ~torn PROVE /\ {vecs[k] : k \in Visible} \cap gone = {}
                                          /\ {Get(i) : i \in Id} \cap gone = {}
    BY DEF DeletedGone
  <2>1. \A k \in Visible : vecs[k] \notin gone
    BY DEF Sound, SoundRows, Visible
  <2>2. None \notin gone
    BY DEF Bounded, None
  <2>3. \A i \in Id : Get(i) \notin gone
    BY <2>2 DEF Sound, Get
  <2> QED  BY <2>1, <2>3
<1>3. MetadataOwn
  BY DEF Exact, MetadataOwn, Get
<1> QED
  BY <1>1, <1>2, <1>3 DEF CollectionInv

\* The invariant implies what ExactWhileIdsUnique states.
LEMMA IInvExact ==
  ASSUME VectorIInv
  PROVE  ExactWhileIdsUnique
<1> SUFFICES ASSUME exists, ~reused, ~torn
             PROVE  /\ ~replaced => {vecs[k] : k \in Visible} = live
                    /\ {Get(i) : i \in Id} \ {None} = {vecs[k] : k \in Visible}
                    /\ count = Cardinality(Visible)
                    /\ \A rank \in Ranks, topK \in 1..MaxVectors : Search(rank, topK) = Nearest(Visible, rank, topK)
  BY DEF ExactWhileIdsUnique
<1>1. /\ size \in Nat /\ Len(ids) = size /\ ids \in Seq(Id) /\ vecs \in Seq(Vector) /\ size <= Len(vecs)
      /\ \A i \in DOMAIN index : index[i] \in 1..size /\ ids[index[i]] = i
      /\ \A j, k \in 1..size : vecs[j] = vecs[k] => j = k
      /\ \A j, k \in 1..size : ids[j] = ids[k] => j = k
      /\ ~replaced => live = {vecs[k] : k \in {q \in 1..size : ids[q] \notin deleted}}
      /\ DOMAIN index = ToSet(ids) \ deleted /\ DOMAIN index \subseteq Id
      /\ deleted \subseteq ToSet(ids) /\ count = size - Cardinality(deleted)
  BY DEF VectorIInv, TypeOK, Bounded, Sound, SoundRows, Exact, ExactRows
<1>2. ~replaced => {vecs[k] : k \in Visible} = live
  BY <1>1 DEF Visible
<1>3. ToSet(ids) = {ids[k] : k \in 1..size}
  BY <1>1 DEF ToSet
<1>4. \A x : x \in {vecs[k] : k \in Visible} <=> x \in {Get(i) : i \in Id} \ {None}
  <2>1. ASSUME NEW k \in Visible PROVE \E i \in Id : Get(i) = vecs[k] /\ vecs[k] # None
    <3>1. k \in 1..size /\ ids[k] \in ToSet(ids) \ deleted
      BY <1>3 DEF Visible
    <3>2. ids[k] \in DOMAIN index /\ index[ids[k]] = k
      BY <1>1, <3>1
    <3>3. vecs[k] # None
      <4>1. vecs[k] \in Vector
        BY <1>1, <3>1, ElementOfSeq
      <4> QED  BY <4>1 DEF Vector, None
    <3> QED  BY <1>1, <3>2, <3>3 DEF Get
  <2>2. ASSUME NEW i \in Id, Get(i) # None PROVE Get(i) \in {vecs[k] : k \in Visible}
    <3>1. i \in DOMAIN index /\ Get(i) = vecs[index[i]]
      BY <2>2 DEF Get
    <3>2. index[i] \in Visible
      BY <1>1, <3>1 DEF Visible
    <3> QED  BY <3>1, <3>2
  <2> QED  BY <2>1, <2>2
<1>5. /\ IsFiniteSet(deleted)
      /\ Cardinality({k \in 1..size : ids[k] \in deleted}) = Cardinality(deleted)
  <2>1. \A i \in deleted : \E k \in 1..size : ids[k] = i
    BY <1>1, <1>3
  <2>2. size \in Nat /\ ids \in Seq(Id) /\ \A j, k \in 1..size : ids[j] = ids[k] => j = k
    BY <1>1
  <2> QED  BY <2>1, <2>2, RowsOfIds
<1>6. (1..size) \ Visible = {k \in 1..size : ids[k] \in deleted} /\ Visible \in SUBSET (1..size)
  BY DEF Visible
<1>7. IsFiniteSet(1..size) /\ Cardinality(1..size) = size
  <2>1. size \in Nat
    BY <1>1
  <2> QED  BY <2>1, FS_Interval
<1>8. Cardinality((1..size) \ Visible) = size - Cardinality(Visible) /\ IsFiniteSet(Visible) /\ Cardinality(Visible) \in Nat
  <2>1. (1..size) \cap Visible = Visible
    BY <1>6
  <2>2. IsFiniteSet(Visible) /\ Cardinality(Visible) \in Nat
    BY <1>6, <1>7, FS_Subset, FS_CardinalityType
  <2>3. Cardinality((1..size) \ Visible) = Cardinality(1..size) - Cardinality((1..size) \cap Visible)
    BY <1>7, FS_Difference
  <2> QED  BY <2>1, <2>2, <2>3, <1>7
<1>10. Cardinality(deleted) \in Nat
  BY <1>5, FS_CardinalityType
<1>11. count = Cardinality(Visible)
  <2>1. size - Cardinality(Visible) = Cardinality(deleted)
    BY <1>5, <1>6, <1>8
  <2>2. count = size - Cardinality(deleted) /\ size \in Nat
    BY <1>1
  <2> QED  BY <2>1, <2>2, <1>8, <1>10
<1>12. ASSUME NEW rank \in Ranks, NEW topK \in 1..MaxVectors
       PROVE  Search(rank, topK) = Nearest(Visible, rank, topK)
  <2>1. rank \in [1..size -> Int] /\ topK \in Nat
    BY <1>1, VectorDbAssumption DEF Ranks
  <2>2. Cardinality((1..size) \ Visible) <= Cardinality(deleted)
    BY <1>5, <1>6, <1>10
  <2>3. size \in Nat
    BY <1>1
  <2> QED  BY <2>1, <2>2, <2>3, <1>10, SlackIsEnough
<1> QED
  BY <1>2, <1>4, <1>11, <1>12

-----------------------------------------------------------------------------
(* Every step keeps the invariant.                                         *)

\* The invariant holds initially.
LEMMA InitIInv ==
  ASSUME Init
  PROVE  VectorIInv
<1> USE VectorDbAssumption DEF Init
<1>1. /\ <<>> \in Seq(Vector) /\ <<>> \in Seq(Id) /\ Len(<<>>) = 0
      /\ file.vecs = <<>> /\ file.ids = <<>> /\ DOMAIN index = {}
      /\ reader.pc = "no" /\ reader.ids = <<>> /\ reader.vecs = <<>> /\ reader.whole = FALSE /\ reader.mark = NoMark
  BY EmptySeq DEF Empty, Idle
<1>2. ToSet(ids) = {} /\ Visible = {}
  BY DEF ToSet, Visible
<1>3. TypeOK
  <2>1. file \in [vecs : Seq(Vector), ids : Seq(Id), db : BOOLEAN, mixed : BOOLEAN]
    BY <1>1
  <2>4. {exists, reused, torn, replaced} \subseteq BOOLEAN
    BY Zenon
  <2>2. /\ vecs \in Seq(Vector) /\ ids \in Seq(Id) /\ size \in 0..Len(vecs)
    BY <1>1
  <2>3. meta \in [Id -> Vector \cup {None}]
    OBVIOUS
  <2>5. /\ reader.pc \in {"no", "ids", "read"} /\ reader.whole \in BOOLEAN
        /\ reader.ids \in Seq(Id) /\ reader.vecs \in Seq(Vector)
    BY <1>1
  <2>6. saving \in {"no", "vectors", "between", "index"} /\ creators \in 0..MaxCreators
    OBVIOUS
  <2>7. used \in 0..MaxVectors /\ deletes \in 0..MaxDeletes /\ loads \in 0..MaxLoads
    OBVIOUS
  <2> QED  BY <2>1, <2>2, <2>3, <2>4, <2>5, <2>6, <2>7, <1>1 DEF TypeOK
<1>4. Bounded
  BY <1>1, FS_EmptySet DEF Bounded, NoMark
<1>5. Sound /\ Exact
  BY <1>1, <1>2 DEF Sound, SoundRows, Exact, ExactRows
<1>6. Saved
  BY <1>1 DEF Saved, Describes, SoundRows, ExactRows, NoMark
<1>7. Reading
  BY <1>1 DEF Reading, NoMark
<1> QED
  BY <1>3, <1>4, <1>5, <1>6, <1>7 DEF VectorIInv, Half

\* The files and what load has read are sequences, and rows search can return are rows in use.
LEMMA IInvTypes ==
  ASSUME VectorIInv
  PROVE  /\ vecs \in Seq(Vector) /\ ids \in Seq(Id) /\ size \in Nat
         /\ file.vecs \in Seq(Vector) /\ file.ids \in Seq(Id)
         /\ Len(vecs) \in Nat /\ Len(ids) \in Nat /\ Len(file.vecs) \in Nat /\ Len(file.ids) \in Nat
         /\ reader.vecs \in Seq(Vector) /\ reader.ids \in Seq(Id)
         /\ Len(reader.vecs) \in Nat /\ Len(reader.ids) \in Nat
         /\ used \in Nat /\ size <= Len(vecs) /\ size <= Len(ids) /\ Len(ids) <= used
         /\ \A k \in 1..size : k \in 1..Len(vecs) /\ k \in 1..Len(ids) /\ vecs[k] \in Vector /\ ids[k] \in Id
         /\ \A k \in Visible : k \in 1..size
BY SMTT(30) DEF VectorIInv, TypeOK, Bounded, Visible

\* What a load has read stays as it is while other threads only insert.
LEMMA ReadingKept ==
  ASSUME VectorIInv, used' \in Nat, used <= used', reader' = reader, file' = file, mark' = mark, loads' = loads
  PROVE  Reading'
<1>1. used \in Nat /\ Len(reader.ids) \in Nat /\ Len(reader.vecs) \in Nat
      /\ \A k \in 1..Len(reader.vecs) : reader.vecs[k] \in Vector
  BY IInvTypes
<1>2. Reading
  BY DEF VectorIInv
<1>3. Len(reader.ids) <= used' /\ Len(reader.vecs) <= used'
  BY <1>1, <1>2 DEF Reading
<1>4. \A k \in 1..Len(reader.vecs) : reader.vecs[k] <= used'
  BY <1>1, <1>2 DEF Reading, Vector
<1>5. 1..used \subseteq 1..used'
  BY <1>1
<1>6. reader.mark.live \subseteq 1..used' /\ reader.mark.gone \subseteq 1..used'
  BY <1>2, <1>5 DEF Reading
<1> QED
  BY <1>2, <1>3, <1>4, <1>6 DEF Reading

\* No load has read anything.
LEMMA ReadingIdle ==
  ASSUME VectorIInv, used' \in Nat, reader' = Idle
  PROVE  /\ Reading'
         /\ reader'.pc = "no" /\ reader'.whole = FALSE /\ reader'.ids = <<>> /\ reader'.vecs = <<>>
<1>1. /\ reader'.pc = "no" /\ reader'.whole = FALSE /\ reader'.ids = <<>> /\ reader'.vecs = <<>>
      /\ reader'.mark = NoMark /\ Len(<<>>) = 0
  BY DEF Idle
<1> QED
  BY <1>1 DEF Reading, NoMark

\* A collection that is new, dropped or lost in a crash is empty; one that
\* create_index put in the place of another keeps that one's history.
LEMMA FreshStep ==
  ASSUME VectorIInv, Cleared, exists' \in BOOLEAN, saving' = "no", creators' \in 0..MaxCreators,
         reader' = reader \/ reader' = Idle, replaced' \in BOOLEAN,
         (live' = {} /\ gone' = {}) \/ (live' = live /\ gone' = gone /\ replaced' = TRUE),
         UNCHANGED <<file, bounds, mark>>
  PROVE  VectorIInv'
<1>1. /\ <<>> \in Seq(Vector) /\ <<>> \in Seq(Id) /\ Len(<<>>) = 0
      /\ vecs' = <<>> /\ ids' = <<>> /\ size' = 0 /\ deleted' = {} /\ count' = 0
      /\ DOMAIN index' = {} /\ meta' = [i \in Id |-> None] /\ reused' = FALSE /\ torn' = FALSE
      /\ file' = file /\ mark' = mark /\ used' = used /\ deletes' = deletes /\ loads' = loads
  BY EmptySeq DEF Cleared, FreshIndex, Empty, bounds
<1>2. ToSet(ids)' = {}
  BY <1>1 DEF ToSet
<1>7. Reading'
  <2>1. used \in Nat
    BY IInvTypes
  <2>2. used' \in Nat /\ used <= used'
    BY <1>1, <2>1
  <2>3. CASE reader' = reader
    BY <1>1, <2>2, <2>3, ReadingKept
  <2>4. CASE reader' = Idle
    BY <2>2, <2>4, ReadingIdle
  <2> QED  BY <2>3, <2>4
<1>8. live' \subseteq 1..used /\ gone' \subseteq 1..used /\ live' \subseteq Vector /\ gone' \subseteq Vector
  BY DEF VectorIInv, Bounded, TypeOK
<1>9. /\ reader'.pc \in {"no", "ids", "read"} /\ reader'.whole \in BOOLEAN
      /\ reader'.ids \in Seq(Id) /\ reader'.vecs \in Seq(Vector)
  <2>1. CASE reader' = reader
    BY <2>1 DEF VectorIInv, TypeOK
  <2>2. CASE reader' = Idle
    <3>1. reader'.pc = "no" /\ reader'.whole = FALSE /\ reader'.ids = <<>> /\ reader'.vecs = <<>>
      BY <2>2 DEF Idle
    <3> QED  BY <3>1, <1>1
  <2> QED  BY <2>1, <2>2
<1>3. TypeOK'
  <2>3. {exists, reused, torn, replaced}' \subseteq BOOLEAN
    BY <1>1, Zenon
  <2>1. /\ vecs' \in Seq(Vector) /\ ids' \in Seq(Id) /\ size' \in 0..Len(vecs')
    BY <1>1 DEF VectorIInv, TypeOK
  <2>2. meta' \in [Id -> Vector \cup {None}]
    BY <1>1
  <2> QED  BY <2>1, <2>2, <2>3, <1>1, <1>8, <1>9 DEF TypeOK, VectorIInv
<1>4. Bounded'
  BY <1>1, <1>2, <1>8, FS_EmptySet, SMTT(30) DEF Bounded, VectorIInv, TypeOK
<1>5. Sound' /\ Exact'
  <2>1. ~replaced' => live' = {}
    OBVIOUS
  <2> QED  BY <1>1, <1>2, <2>1 DEF Sound, SoundRows, Exact, ExactRows
<1>6. Saved'
  BY <1>1 DEF Saved, VectorIInv
<1> QED
  BY <1>3, <1>4, <1>5, <1>6, <1>7 DEF VectorIInv, Half

\* Steps of persist, load and create_index that leave the collection as it is.
LEMMA CollectionKept ==
  ASSUME VectorIInv, UNCHANGED <<exists, indexVars, meta, bounds, history, mark>>,
         creators' \in 0..MaxCreators, saving' \in {"no", "vectors", "between", "index"},
         file' \in [vecs : Seq(Vector), ids : Seq(Id), db : BOOLEAN, mixed : BOOLEAN],
         Len(file'.ids) <= used, Len(file'.vecs) <= used, \A k \in 1..Len(file'.vecs) : file'.vecs[k] <= used,
         file'.mixed \/ (file'.ids = file.ids /\ file'.vecs = file.vecs /\ file'.mixed = file.mixed),
         saving' # "no" => exists /\ file'.mixed,
         saving' \in {"between", "index"} => Valid = <<>> \/ file'.vecs = SavedVecs,
         reader'.pc \in {"no", "ids", "read"}, reader'.whole \in BOOLEAN,
         reader'.ids \in Seq(Id), reader'.vecs \in Seq(Vector), Reading'
  PROVE  VectorIInv'
<1>1. /\ vecs' = vecs /\ size' = size /\ ids' = ids /\ index' = index /\ deleted' = deleted /\ count' = count
      /\ exists' = exists /\ meta' = meta /\ mark' = mark /\ used' = used /\ deletes' = deletes /\ loads' = loads
      /\ live' = live /\ gone' = gone /\ reused' = reused /\ torn' = torn /\ replaced' = replaced
  BY DEF indexVars, bounds, history
<1>2. TypeOK'
  <2>1. {exists, reused, torn, replaced}' \subseteq BOOLEAN
    BY <1>1, Zenon DEF VectorIInv, TypeOK
  <2> QED  BY <1>1, <2>1 DEF VectorIInv, TypeOK
<1>3. Bounded'
  BY <1>1 DEF VectorIInv, Bounded
<1>4. Sound' /\ Exact'
  BY <1>1 DEF VectorIInv, Sound, Exact
<1>5. Saved'
  BY <1>1 DEF VectorIInv, Saved
<1>6. Visible' = Visible
  BY <1>1 DEF Visible
<1>7. Valid' = Valid
  BY <1>6 DEF Valid
<1>8. Half'
  BY <1>1, <1>7 DEF Half, SavedVecs
<1> QED
  BY <1>2, <1>3, <1>4, <1>5, <1>8 DEF VectorIInv

\* What persist writes to vectors.npy.
LEMMA SavedVecsRows ==
  ASSUME VectorIInv
  PROVE  SavedVecs \in Seq(Vector) /\ Len(SavedVecs) <= used /\ \A k \in 1..Len(SavedVecs) : SavedVecs[k] <= used
<1>1. /\ Len(Valid) \in Nat /\ Len(Valid) <= size /\ DOMAIN Valid = 1..Len(Valid)
      /\ \A k \in 1..Len(Valid) : Valid[k] \in Visible
  BY ValidRows DEF VectorIInv
<1>2. \A k \in 1..Len(Valid) : vecs[Valid[k]] \in Vector /\ vecs[Valid[k]] <= used
  BY <1>1, IInvTypes DEF VectorIInv, Bounded
<1>3. SavedVecs = [k \in 1..Len(Valid) |-> vecs[Valid[k]]]
  BY <1>1 DEF SavedVecs
<1>4. SavedVecs \in Seq(Vector) /\ Len(SavedVecs) = Len(Valid)
  BY <1>1, <1>2, <1>3
<1>5. \A k \in 1..Len(SavedVecs) : SavedVecs[k] <= used
  BY <1>2, <1>3, <1>4
<1>6. Len(SavedVecs) <= used
  BY <1>1, <1>4, IInvTypes
<1> QED
  BY <1>4, <1>5, <1>6

\* A step of persist before the last: files are emptied or written, and a
\* load that has read only index.json is no longer whole.
LEMMA PersistStep ==
  ASSUME VectorIInv, PersistStart \/ PersistVectors \/ PersistOpen
  PROVE  VectorIInv'
<1>1. UNCHANGED <<exists, indexVars, meta, bounds, history, mark, creators>> /\ exists
  BY DEF PersistStart, PersistVectors, PersistOpen, VectorIInv, Bounded
<1>2. file \in [vecs : Seq(Vector), ids : Seq(Id), db : BOOLEAN, mixed : BOOLEAN]
      /\ Len(file.ids) <= used /\ Len(file.vecs) <= used /\ (\A k \in 1..Len(file.vecs) : file.vecs[k] <= used)
      /\ used \in Nat /\ creators \in 0..MaxCreators
  BY IInvTypes DEF VectorIInv, Bounded, TypeOK
<1>3. <<>> \in Seq(Vector) /\ <<>> \in Seq(Id) /\ Len(<<>>) = 0
  BY EmptySeq
<1>4. SavedVecs \in Seq(Vector) /\ Len(SavedVecs) <= used /\ \A k \in 1..Len(SavedVecs) : SavedVecs[k] <= used
  BY SavedVecsRows
<1>5. /\ file' \in [vecs : Seq(Vector), ids : Seq(Id), db : BOOLEAN, mixed : BOOLEAN]
      /\ file'.mixed = TRUE
      /\ file'.ids \in {file.ids, <<>>} /\ file'.vecs \in {file.vecs, <<>>, SavedVecs}
      /\ saving' \in {"vectors", "between", "index"}
      /\ saving' \in {"between", "index"} => Valid = <<>> \/ file'.vecs = SavedVecs
  <2> HIDE DEF SavedVecs, Valid
  <2>1. CASE PersistStart
    <3>1. PICK w \in {file.vecs, <<>>} : file' = [file EXCEPT !.vecs = w, !.mixed = TRUE]
      BY <2>1 DEF PersistStart
    <3> QED  BY <3>1, <2>1, <1>2, <1>3 DEF PersistStart
  <2>2. CASE PersistVectors
    <3>1. PICK w \in {file.vecs, SavedVecs} : file' = [file EXCEPT !.vecs = w] /\ (Valid = <<>> \/ w = SavedVecs)
      BY <2>2 DEF PersistVectors
    <3>2. file.mixed = TRUE
      BY <2>2 DEF PersistVectors, VectorIInv, Bounded, TypeOK
    <3> QED  BY <3>1, <3>2, <2>2, <1>2, <1>4 DEF PersistVectors
  <2>3. CASE PersistOpen
    <3>1. file' = [file EXCEPT !.ids = <<>>] /\ saving = "between" /\ saving' = "index"
      BY <2>3 DEF PersistOpen
    <3>2. file.mixed = TRUE
      BY <3>1 DEF VectorIInv, Bounded, TypeOK
    <3>3. Valid = <<>> \/ file.vecs = SavedVecs
      BY <3>1 DEF VectorIInv, Half
    <3> QED  BY <3>1, <3>2, <3>3, <1>2, <1>3
  <2> QED  BY <2>1, <2>2, <2>3
<1>6. /\ reader'.pc = reader.pc /\ reader'.ids = reader.ids /\ reader'.vecs = reader.vecs /\ reader'.mark = reader.mark
      /\ reader'.whole \in BOOLEAN /\ (reader'.whole => reader.whole /\ reader.pc # "ids")
  <2>1. reader.whole \in BOOLEAN /\ reader.pc \in {"no", "ids", "read"}
    BY DEF VectorIInv, TypeOK
  <2>2. CASE PersistStart
    <3>1. reader' = [reader EXCEPT !.whole = @ /\ reader.pc = "read"]
      BY <2>2 DEF PersistStart
    <3>2. /\ reader'.pc = reader.pc /\ reader'.ids = reader.ids /\ reader'.vecs = reader.vecs
          /\ reader'.mark = reader.mark
      BY <3>1
    <3>3. reader'.whole = (reader.whole /\ reader.pc = "read")
      BY <3>1
    <3>4. reader'.whole \in BOOLEAN
      BY <3>3, Zenon
    <3>5. reader'.whole => reader.whole /\ reader.pc # "ids"
      BY <3>3
    <3> QED  BY <3>2, <3>4, <3>5
  <2>3. CASE PersistVectors \/ PersistOpen
    <3>1. reader' = reader /\ file.mixed
      BY <2>3 DEF PersistVectors, PersistOpen, VectorIInv, Bounded
    <3> QED  BY <3>1, <2>1 DEF VectorIInv, Reading
  <2> QED  BY <2>2, <2>3
<1>7. Reading'
  BY <1>1, <1>6 DEF VectorIInv, Reading, bounds
<1>8. Len(file'.ids) <= used /\ Len(file'.vecs) <= used /\ \A k \in 1..Len(file'.vecs) : file'.vecs[k] <= used
  <2> HIDE DEF SavedVecs
  <2> QED  BY <1>2, <1>3, <1>4, <1>5
<1>9. reader'.pc \in {"no", "ids", "read"} /\ reader'.ids \in Seq(Id) /\ reader'.vecs \in Seq(Vector)
  BY <1>6 DEF VectorIInv, TypeOK
<1>10. UNCHANGED <<exists, indexVars, meta, bounds, history, mark>> /\ creators' \in 0..MaxCreators
  BY <1>1, <1>2
<1> HIDE DEF SavedVecs, Valid
<1>11. saving' \in {"no", "vectors", "between", "index"} /\ file'.mixed /\ exists
  BY <1>1, <1>5
<1>12. saving' \in {"between", "index"} => Valid = <<>> \/ file'.vecs = SavedVecs
  BY <1>5
<1>13. file' \in [vecs : Seq(Vector), ids : Seq(Id), db : BOOLEAN, mixed : BOOLEAN]
  BY <1>5
<1>14. reader'.whole \in BOOLEAN
  BY <1>6
<1> HIDE <1>1, <1>2, <1>5, <1>6
<1> QED
  BY <1>7, <1>8, <1>9, <1>10, <1>11, <1>12, <1>13, <1>14, CollectionKept

\* A save that fails leaves the files as it found them.
LEMMA SaveFailsStep ==
  ASSUME VectorIInv, SaveFails
  PROVE  VectorIInv'
<1>1. UNCHANGED <<exists, indexVars, meta, bounds, history, mark, creators, reader>> /\ saving' = "no"
  BY DEF SaveFails
<1>2. file \in [vecs : Seq(Vector), ids : Seq(Id), db : BOOLEAN, mixed : BOOLEAN]
      /\ Len(file.ids) <= used /\ Len(file.vecs) <= used /\ (\A k \in 1..Len(file.vecs) : file.vecs[k] <= used)
      /\ creators \in 0..MaxCreators
  BY DEF VectorIInv, Bounded, TypeOK
<1>3. /\ file' \in [vecs : Seq(Vector), ids : Seq(Id), db : BOOLEAN, mixed : BOOLEAN]
      /\ file'.ids = file.ids /\ file'.vecs = file.vecs /\ file'.mixed = file.mixed
  BY <1>2 DEF SaveFails
<1>4. Reading'
  BY <1>1, <1>3 DEF VectorIInv, Reading, bounds
<1>5. /\ reader'.pc \in {"no", "ids", "read"} /\ reader'.whole \in BOOLEAN
      /\ reader'.ids \in Seq(Id) /\ reader'.vecs \in Seq(Vector)
  BY <1>1 DEF VectorIInv, TypeOK
<1> HIDE DEF SavedVecs, Valid
<1> QED
  BY <1>1, <1>2, <1>3, <1>4, <1>5, CollectionKept

\* A load that reads a file, and a thread that looks for the name, change
\* nothing that others see.
LEMMA ReadStep ==
  ASSUME VectorIInv, LoadIds \/ LoadVectors \/ CreateTest \/ UNCHANGED vars
  PROVE  VectorIInv'
<1>1. UNCHANGED <<exists, indexVars, meta, bounds, history, mark, file, saving>>
  BY DEF LoadIds, LoadVectors, CreateTest, vars
<1>2. /\ file \in [vecs : Seq(Vector), ids : Seq(Id), db : BOOLEAN, mixed : BOOLEAN]
      /\ Len(file.ids) <= used /\ Len(file.vecs) <= used /\ (\A k \in 1..Len(file.vecs) : file.vecs[k] <= used)
      /\ saving \in {"no", "vectors", "between", "index"} /\ creators \in 0..MaxCreators
      /\ saving # "no" => exists /\ file.mixed
  BY DEF VectorIInv, Bounded, TypeOK
<1>3. saving \in {"between", "index"} => Valid = <<>> \/ file.vecs = SavedVecs
  BY DEF VectorIInv, Half
<1>4. creators' \in 0..MaxCreators
  BY <1>2, VectorDbAssumption DEF LoadIds, LoadVectors, CreateTest, vars
<1>5. /\ reader'.pc \in {"no", "ids", "read"} /\ reader'.whole \in BOOLEAN
      /\ reader'.ids \in Seq(Id) /\ reader'.vecs \in Seq(Vector) /\ Reading'
  <2>0. /\ reader.pc \in {"no", "ids", "read"} /\ reader.whole \in BOOLEAN
        /\ reader.ids \in Seq(Id) /\ reader.vecs \in Seq(Vector) /\ Reading /\ used \in Nat
        /\ used' = used /\ mark' = mark /\ loads' = loads /\ file' = file
    BY <1>1, IInvTypes DEF VectorIInv, TypeOK, bounds
  <2>1. CASE LoadIds
    <3>1. /\ reader'.pc = "ids" /\ reader'.ids = file.ids /\ reader'.vecs = <<>> /\ reader'.mark = mark
          /\ reader'.whole = ~file.mixed /\ <<>> \in Seq(Vector) /\ Len(<<>>) = 0 /\ loads < MaxLoads
      BY <2>1, EmptySeq DEF LoadIds
    <3>2. file.mixed \in BOOLEAN /\ file.ids \in Seq(Id)
      BY <1>2
    <3>3. reader'.whole \in BOOLEAN
      BY <3>1, <3>2, Zenon
    <3>4. /\ mark.live \subseteq 1..used /\ mark.gone \subseteq 1..used
          /\ mark.reused \in BOOLEAN /\ mark.torn \in BOOLEAN /\ mark.replaced \in BOOLEAN
          /\ mark.reused /\ ~mark.torn => mark.gone # {}
      BY DEF VectorIInv, Bounded, Saved
    <3>6. reader'.whole => ~file.mixed
      BY <3>1
    <3>7. Len(reader'.ids) <= used /\ Len(reader'.vecs) <= used /\ \A k \in 1..Len(reader'.vecs) : reader'.vecs[k] <= used
      BY <3>1, <1>2, <2>0
    <3>5. Reading'
      BY <3>1, <3>4, <3>6, <3>7, <2>0 DEF Reading
    <3> QED  BY <3>1, <3>2, <3>3, <3>5
  <2>2. CASE LoadVectors
    <3>0. reader' = [reader EXCEPT !.pc = "read", !.vecs = file.vecs] /\ reader.pc = "ids"
      BY <2>2 DEF LoadVectors
    <3>1. /\ reader'.pc = "read" /\ reader'.ids = reader.ids /\ reader'.vecs = file.vecs /\ reader'.mark = reader.mark
          /\ reader'.whole = reader.whole
      BY <3>0
    <3>2. reader.whole => Describes(reader.ids, file.vecs, reader.mark)
      BY <3>0, <2>0 DEF VectorIInv, Reading, Saved
    <3>3. Reading'
      BY <3>0, <3>1, <3>2, <1>2, <2>0 DEF Reading
    <3> QED  BY <3>1, <3>3, <1>2, <2>0
  <2>3. CASE CreateTest \/ UNCHANGED vars
    <3>1. reader' = reader
      BY <2>3 DEF CreateTest, vars
    <3> QED  BY <3>1, <2>0 DEF Reading
  <2> QED  BY <2>1, <2>2, <2>3
<1> HIDE DEF SavedVecs, Valid
<1> QED
  BY <1>1, <1>2, <1>3, <1>4, <1>5, CollectionKept

\* index.json completes the persist: the files describe the collection as it is.
LEMMA PersistIndexStep ==
  ASSUME VectorIInv, PersistIndex
  PROVE  VectorIInv'
<1>1. /\ vecs' = vecs /\ size' = size /\ ids' = ids /\ index' = index /\ deleted' = deleted /\ count' = count
      /\ exists' = exists /\ meta' = meta /\ used' = used /\ deletes' = deletes /\ loads' = loads
      /\ live' = live /\ gone' = gone /\ reused' = reused /\ torn' = torn /\ replaced' = replaced
      /\ saving = "index" /\ saving' = "no" /\ creators' = creators /\ reader' = reader
  BY DEF PersistIndex, indexVars, bounds, history
<1>2. TypeOK
  BY DEF VectorIInv
<1> DEFINE n == Len(Valid)
<1>3. /\ n \in Nat /\ n <= size /\ n = Cardinality(Visible) /\ DOMAIN Valid = 1..n
      /\ \A k \in 1..n : Valid[k] \in Visible
      /\ \A j, k \in 1..n : Valid[j] = Valid[k] => j = k
      /\ \A q \in Visible : \E k \in 1..n : Valid[k] = q
      /\ Valid = <<>> <=> n = 0
  BY <1>2, ValidRows
<1> HIDE DEF n
<1>4. /\ \A k \in 1..n : ids[Valid[k]] \in Id /\ Valid[k] \in 1..size
      /\ SavedIds = [k \in 1..n |-> ids[Valid[k]]]
  BY <1>3, IInvTypes DEF SavedIds
<1>5. SavedIds \in Seq(Id) /\ Len(SavedIds) = n
  BY <1>3, <1>4
<1>6. file' = [file EXCEPT !.ids = SavedIds, !.db = TRUE, !.mixed = FALSE]
  BY DEF PersistIndex
<1>7. /\ file' \in [vecs : Seq(Vector), ids : Seq(Id), db : BOOLEAN, mixed : BOOLEAN]
      /\ file'.vecs = file.vecs /\ file'.ids = SavedIds /\ file'.mixed = FALSE
  BY <1>5, <1>6 DEF VectorIInv, TypeOK
<1>8. /\ mark'.live = live /\ mark'.gone = gone /\ mark'.reused = reused /\ mark'.torn = torn /\ mark'.replaced = replaced
      /\ mark'.seen = {Row(k) : k \in Visible}
  BY DEF PersistIndex
<1>9. /\ Len(file'.ids) = n
      /\ n = 0 \/ n = Len(file'.vecs)
      /\ \A k \in 1..n : file'.ids[k] = ids[Valid[k]] /\ file'.vecs[k] = vecs[Valid[k]]
  <2>1. n = 0 \/ file.vecs = [k \in 1..n |-> vecs[Valid[k]]]
    BY <1>1, <1>3 DEF VectorIInv, Half, SavedVecs
  <2>2. n = 0 \/ n = Len(file.vecs)
    BY <2>1, <1>3
  <2>3. \A k \in 1..n : file.vecs[k] = vecs[Valid[k]] /\ SavedIds[k] = ids[Valid[k]]
    BY <2>1, <1>3, <1>4
  <2> QED  BY <2>2, <2>3, <1>5, <1>7
<1>10. TypeOK'
  <2>1. {exists, reused, torn, replaced}' \subseteq BOOLEAN
    BY <1>1, Zenon DEF VectorIInv, TypeOK
  <2> QED  BY <1>1, <1>7, <2>1 DEF VectorIInv, TypeOK
<1>11. Bounded'
  <2>1. n <= used
    BY <1>3, IInvTypes
  <2>2. mark'.reused \in BOOLEAN /\ mark'.torn \in BOOLEAN /\ mark'.replaced \in BOOLEAN
    BY <1>8, Zenon DEF VectorIInv, TypeOK
  <2> QED  BY <1>1, <1>5, <1>7, <1>8, <2>1, <2>2 DEF VectorIInv, Bounded
<1>12. Sound' /\ Exact'
  BY <1>1 DEF VectorIInv, Sound, Exact
<1>13. mark'.seen = {<<file'.ids[k], file'.vecs[k]>> : k \in 1..n}
  <2>1. \A k \in 1..n : <<file'.ids[k], file'.vecs[k]>> = Row(Valid[k])
    BY <1>9 DEF Row
  <2>2. \A x : x \in {Row(k) : k \in Visible} <=> x \in {<<file'.ids[k], file'.vecs[k]>> : k \in 1..n}
    BY <2>1, <1>3
  <2> QED  BY <2>2, <1>8
<1>14. ASSUME ~torn
       PROVE  SoundRows(file'.ids, file'.vecs, n, {}, gone)
  <2>1. /\ \A j, k \in 1..size : vecs[j] = vecs[k] => j = k
        /\ \A k \in 1..size : vecs[k] \in gone => ids[k] \in deleted
        /\ gone = {} => deleted = {} /\ \A k \in 1..size : ids[k] < size
    BY <1>14 DEF VectorIInv, Sound, SoundRows
  <2>2. \A j, k \in 1..n : file'.vecs[j] = file'.vecs[k] => j = k
    BY <2>1, <1>3, <1>4, <1>9, SMTT(30)
  <2>3. \A k \in 1..n : file'.vecs[k] \notin gone
    BY <2>1, <1>3, <1>4, <1>9 DEF Visible
  <2>4. ASSUME gone = {} PROVE \A k \in 1..n : file'.ids[k] < n
    <3>1. Visible = 1..size
      BY <2>1, <2>4 DEF Visible
    <3>2. n = size
      BY <3>1, <1>3, IInvTypes, FS_Interval
    <3> QED  BY <3>2, <2>1, <2>4, <1>4, <1>9
  <2> QED  BY <2>2, <2>3, <2>4 DEF SoundRows
<1>15. ASSUME ~torn, ~reused
       PROVE  ExactRows(file'.ids, file'.vecs, n, {}, live, replaced)
  <2>1. /\ \A j, k \in 1..size : ids[j] = ids[k] => j = k
        /\ ~replaced => live = {vecs[k] : k \in Visible}
    BY <1>15 DEF VectorIInv, Exact, ExactRows, Visible
  <2>2. ASSUME NEW j \in 1..n, NEW k \in 1..n, file'.ids[j] = file'.ids[k] PROVE j = k
    <3>1. ids[Valid[j]] = ids[Valid[k]] /\ Valid[j] \in 1..size /\ Valid[k] \in 1..size
      BY <2>2, <1>4, <1>9
    <3> QED  BY <3>1, <2>1, <1>3
  <2>3. ASSUME ~replaced
        PROVE  \A x : x \in live <=> x \in {file'.vecs[k] : k \in {q \in 1..n : file'.ids[q] \notin {}}}
    <3>1. ASSUME NEW q \in Visible PROVE \E k \in 1..n : file'.vecs[k] = vecs[q]
      BY <1>3, <1>9
    <3>2. \A k \in 1..n : Valid[k] \in Visible /\ file'.vecs[k] = vecs[Valid[k]]
      BY <1>3, <1>9
    <3> QED  BY <3>1, <3>2, <2>1, <2>3
  <2> QED  BY <2>2, <2>3 DEF ExactRows
<1>16. Saved'
  <2>1. mark'.reused /\ ~mark'.torn => mark'.gone # {}
    BY <1>8 DEF VectorIInv, Sound
  <2>2. Len(file'.ids) = n
    BY <1>9
  <2>3. ~mark'.torn => SoundRows(file'.ids, file'.vecs, Len(file'.ids), {}, mark'.gone)
    BY <1>8, <1>14, <2>2
  <2>4. ~mark'.torn /\ ~mark'.reused => ExactRows(file'.ids, file'.vecs, Len(file'.ids), {}, mark'.live, mark'.replaced)
    BY <1>8, <1>15, <2>2
  <2> QED  BY <1>9, <1>13, <2>1, <2>2, <2>3, <2>4 DEF Saved, Describes, SoundRows, ExactRows
<1>17. Half'
  BY <1>1 DEF Half
<1>18. Reading'
  <2>1. file.mixed
    BY <1>1 DEF VectorIInv, Bounded
  <2> QED  BY <1>1, <2>1 DEF VectorIInv, Reading
<1> QED
  BY <1>10, <1>11, <1>12, <1>16, <1>17, <1>18 DEF VectorIInv

\* load: the ids add() enters, and the row each is mapped to.
LEMMA LoadRows ==
  ASSUME VectorIInv, LoadInstall
  PROVE  /\ ids' \in Seq(Id) /\ Len(ids') <= Len(reader.ids) /\ Len(ids') <= Len(reader.vecs)
         /\ Len(ids') = IF Len(reader.vecs) <= Len(reader.ids) THEN Len(reader.vecs) ELSE Len(reader.ids)
         /\ \A k \in 1..Len(ids') : ids'[k] = reader.ids[k]
         /\ DOMAIN index' = ToSet(ids')
         /\ \A i \in DOMAIN index' : index'[i] \in 1..Len(ids') /\ ids'[index'[i]] = i
<1> DEFINE m == Min({Len(reader.vecs), Len(reader.ids)})
<1>1. Len(reader.vecs) \in Nat /\ Len(reader.ids) \in Nat /\ reader.ids \in Seq(Id)
  BY IInvTypes
<1>2. m = IF Len(reader.vecs) <= Len(reader.ids) THEN Len(reader.vecs) ELSE Len(reader.ids)
  BY <1>1, MinMaxOfTwo
<1>3. ids' = SubSeq(reader.ids, 1, m)
  BY DEF LoadInstall, EnteredIds
<1> HIDE DEF m
<1>4. m \in Nat /\ m <= Len(reader.ids) /\ m <= Len(reader.vecs)
  BY <1>1, <1>2
<1>5. \A k \in 1..m : reader.ids[k] \in Id
  BY <1>1, <1>4
<1>6. ids' \in Seq(Id) /\ Len(ids') = m /\ \A k \in 1..m : ids'[k] = reader.ids[k]
  BY <1>3, <1>4, <1>5, SubSeqProperties
<1>7. index' = [i \in ToSet(ids') |-> Max({k \in DOMAIN ids' : ids'[k] = i})]
  BY DEF LoadInstall
<1>8. DOMAIN ids' = 1..m
  BY <1>6
<1>9. ASSUME NEW i \in ToSet(ids') PROVE index'[i] \in 1..m /\ ids'[index'[i]] = i
  <2> DEFINE S == {k \in DOMAIN ids' : ids'[k] = i}
  <2>1. S \in SUBSET (1..m) /\ S # {}
    BY <1>8 DEF ToSet
  <2>2. index'[i] = Max(S)
    BY <1>7
  <2>3. Max(S) \in S
    <3> HIDE DEF S
    <3> QED  BY <2>1, <1>4, MaxOfRows
  <2> QED  BY <2>1, <2>2, <2>3
<1> QED
  BY <1>2, <1>4, <1>6, <1>7, <1>9

\* load keeps the invariant, whatever it has read.
LEMMA LoadStep ==
  ASSUME VectorIInv, LoadInstall
  PROVE  VectorIInv'
<1>1. /\ file' = file /\ mark' = mark /\ used' = used /\ deletes' = deletes /\ saving' = saving /\ saving = "no"
      /\ creators' = creators /\ reader' = Idle /\ reader.pc = "read"
      /\ vecs' = reader.vecs /\ deleted' = {} /\ count' = size' /\ live' = reader.mark.live /\ gone' = reader.mark.gone
      /\ size' = (IF Len(reader.ids) < Len(reader.vecs) THEN 0 ELSE Len(reader.vecs))
      /\ loads' = loads + 1 /\ exists' = TRUE
  BY DEF LoadInstall
<1>2. /\ reused' = reader.mark.reused /\ torn' = (~reader.whole \/ reader.mark.torn)
      /\ replaced' = reader.mark.replaced
  BY DEF LoadInstall
<1>3. /\ ids' \in Seq(Id) /\ Len(ids') <= Len(reader.ids) /\ Len(ids') <= Len(reader.vecs)
      /\ Len(ids') = IF Len(reader.vecs) <= Len(reader.ids) THEN Len(reader.vecs) ELSE Len(reader.ids)
      /\ \A k \in 1..Len(ids') : ids'[k] = reader.ids[k]
      /\ DOMAIN index' = ToSet(ids')
      /\ \A i \in DOMAIN index' : index'[i] \in 1..Len(ids') /\ ids'[index'[i]] = i
  BY LoadRows
<1>4. /\ reader.vecs \in Seq(Vector) /\ Len(reader.vecs) \in Nat /\ Len(reader.ids) \in Nat /\ Len(ids') \in Nat
      /\ used \in Nat /\ Len(reader.ids) <= used /\ Len(reader.vecs) <= used
  BY <1>3, IInvTypes DEF VectorIInv, Reading
<1>5. size' \in Nat /\ size' <= Len(ids') /\ size' <= Len(vecs')
  BY <1>1, <1>3, <1>4
<1>6. TypeOK'
  <2>1. {exists, reused, torn, replaced}' \subseteq BOOLEAN
    <3>1. reader.whole \in BOOLEAN /\ reader.mark.reused \in BOOLEAN /\ reader.mark.replaced \in BOOLEAN
      BY DEF VectorIInv, TypeOK, Reading
    <3> QED  BY <3>1, <1>1, <1>2, Zenon
  <2>2. meta' = [i \in Id |-> None]
    BY DEF LoadInstall
  <2>3. meta' \in [Id -> Vector \cup {None}]
    BY <2>2
  <2>4. DOMAIN index' \subseteq Id /\ \A i \in DOMAIN index' : index'[i] \in DOMAIN vecs'
    BY <1>1, <1>3, <1>4, SMTT(30) DEF ToSet
  <2>5. size' \in 0..Len(vecs') /\ count' \in Int
    BY <1>1, <1>4, <1>5
  <2>6. live' \subseteq Vector /\ gone' \subseteq Vector
    <3>1. used \in 0..MaxVectors /\ reader.mark.live \subseteq 1..used /\ reader.mark.gone \subseteq 1..used
      BY DEF VectorIInv, Reading, TypeOK
    <3>2. 1..used \subseteq Vector
      BY <3>1, VectorDbAssumption DEF Vector
    <3> QED  BY <1>1, <3>1, <3>2
  <2>7. loads' \in 0..MaxLoads
    BY <1>1, VectorDbAssumption DEF VectorIInv, TypeOK, Reading
  <2>8. /\ reader'.pc \in {"no", "ids", "read"} /\ reader'.whole \in BOOLEAN
        /\ reader'.ids \in Seq(Id) /\ reader'.vecs \in Seq(Vector)
    BY <1>1, EmptySeq DEF Idle
  <2> QED  BY <1>1, <1>3, <1>4, <2>1, <2>3, <2>4, <2>5, <2>6, <2>7, <2>8 DEF VectorIInv, TypeOK
<1>7. Bounded'
  <2>1. Cardinality(deleted') = 0
    BY <1>1, FS_EmptySet
  <2>2. count' = size' - Cardinality(deleted')
    BY <1>1, <1>5, <2>1
  <2>3. Len(ids') <= used
    BY <1>3, <1>4
  <2>4. \A k \in 1..Len(reader.vecs) : reader.vecs[k] <= used
    BY DEF VectorIInv, Reading
  <2>5. live' \subseteq 1..used /\ gone' \subseteq 1..used
    BY <1>1 DEF VectorIInv, Reading
  <2> QED  BY <1>1, <1>4, <1>5, <2>2, <2>3, <2>4, <2>5 DEF VectorIInv, Bounded
<1>8. Saved'
  BY <1>1 DEF VectorIInv, Saved
<1>9. Half'
  BY <1>1 DEF Half
<1>10. ASSUME ~torn'
       PROVE  /\ reader.whole /\ ~reader.mark.torn /\ size' = Len(reader.ids) /\ Len(ids') = Len(reader.ids)
              /\ \A k \in 1..size' : ids'[k] = reader.ids[k]
  <2>1. reader.whole /\ ~reader.mark.torn
    BY <1>2, <1>10
  <2>2. Len(reader.ids) = 0 \/ Len(reader.ids) = Len(reader.vecs)
    BY <2>1, <1>1 DEF VectorIInv, Reading, Describes
  <2>3. size' = Len(reader.ids) /\ Len(ids') = Len(reader.ids)
    BY <1>1, <1>3, <1>4, <2>2
  <2> QED  BY <2>1, <2>3, <1>3
<1>11. Sound'
  <2> SUFFICES ASSUME ~torn'
               PROVE  /\ Len(ids') = size'
                      /\ \A i \in DOMAIN index' : index'[i] \in 1..size' /\ ids'[index'[i]] = i /\ vecs'[index'[i]] \notin gone'
                      /\ SoundRows(ids', vecs', size', deleted', gone')
                      /\ reused' => gone' # {}
    BY DEF Sound, SoundRows
  <2>1. SoundRows(reader.ids, reader.vecs, Len(reader.ids), {}, reader.mark.gone)
    BY <1>10, <1>1 DEF VectorIInv, Reading, Describes
  <2>2. SoundRows(ids', vecs', size', deleted', gone')
    BY <2>1, <1>1, <1>10 DEF SoundRows
  <2>3. \A i \in DOMAIN index' : index'[i] \in 1..size' /\ ids'[index'[i]] = i
    BY <1>3, <1>10
  <2>4. \A i \in DOMAIN index' : vecs'[index'[i]] \notin gone'
    BY <2>2, <2>3, <1>1 DEF SoundRows
  <2>5. reused' => gone' # {}
    BY <1>1, <1>2, <1>10 DEF VectorIInv, Reading
  <2> QED  BY <1>10, <2>2, <2>3, <2>4, <2>5
<1>12. Exact'
  <2> SUFFICES ASSUME ~torn', ~reused'
               PROVE  /\ ExactRows(ids', vecs', size', deleted', live', replaced')
                      /\ DOMAIN index' = ToSet(ids') \ deleted'
                      /\ \A i \in Id : meta'[i] # None => i \in DOMAIN index' /\ vecs'[index'[i]] = meta'[i]
    BY DEF Exact, ExactRows, ToSet
  <2>1. ExactRows(reader.ids, reader.vecs, Len(reader.ids), {}, reader.mark.live, reader.mark.replaced)
    BY <1>1, <1>2, <1>10 DEF VectorIInv, Reading, Describes
  <2>2. ExactRows(ids', vecs', size', deleted', live', replaced')
    BY <2>1, <1>1, <1>2, <1>10 DEF ExactRows
  <2>3. meta' = [i \in Id |-> None]
    BY DEF LoadInstall
  <2>4. DOMAIN index' = ToSet(ids') \ deleted'
    BY <1>1, <1>3
  <2> QED  BY <2>2, <2>3, <2>4
<1>13. Reading'
  BY <1>1, <1>4, ReadingIdle
<1> QED
  BY <1>6, <1>7, <1>8, <1>9, <1>11, <1>12, <1>13 DEF VectorIInv

\* No more ids are deleted than there are, so that the next id stays in range.
LEMMA DeletedCount ==
  ASSUME NEW s \in Seq(Id), NEW D \in SUBSET ToSet(s)
  PROVE  IsFiniteSet(D) /\ Cardinality(D) \in Nat /\ Cardinality(D) <= Len(s)
<1> DEFINE n == Len(s)
<1>1. n \in Nat /\ DOMAIN s = 1..n
  OBVIOUS
<1>2. s \in Surjection(1..n, ToSet(s))
  BY <1>1 DEF Surjection, ToSet
<1>3. IsFiniteSet(1..n) /\ Cardinality(1..n) = n
  BY <1>1, FS_Interval, SMTT(30)
<1>4. IsFiniteSet(ToSet(s)) /\ Cardinality(ToSet(s)) <= n
  BY <1>2, <1>3, FS_Surjection
<1>5. IsFiniteSet(D) /\ Cardinality(D) <= Cardinality(ToSet(s))
  BY <1>4, FS_Subset
<1> QED
  BY <1>1, <1>4, <1>5, FS_CardinalityType

\* delete keeps the invariant.
LEMMA DeleteStep ==
  ASSUME VectorIInv, NEW S \in SUBSET ToSet(ids), Delete(S)
  PROVE  VectorIInv'
<1> DEFINE hit == {vecs[k] : k \in {q \in 1..size : ids[q] \in S \cap DOMAIN index}}
<1>1. /\ vecs' = vecs /\ size' = size /\ ids' = ids /\ exists' = exists /\ file' = file /\ mark' = mark
      /\ saving' = saving /\ used' = used /\ loads' = loads /\ saving = "no"
      /\ reused' = reused /\ torn' = torn /\ replaced' = replaced /\ creators' = creators /\ reader' = reader
  BY DEF Delete
<1>2. /\ deleted' = deleted \cup (S \cap DOMAIN index)
      /\ count' = size - Cardinality(deleted')
      /\ deletes < MaxDeletes /\ deletes' = deletes + 1
      /\ live' = live \ hit /\ gone' = gone \cup hit
  BY DEF Delete
<1>3. /\ DOMAIN index' = DOMAIN index \ S
      /\ \A i \in DOMAIN index' : i \in DOMAIN index /\ i \notin S /\ index'[i] = index[i]
  BY DEF Delete, Restrict
<1>4. meta' = [i \in Id |-> IF i \in S THEN None ELSE meta[i]]
  BY DEF Delete, DeleteMetadata
<1>5. \A x \in hit : \E k \in 1..size : x = vecs[k] /\ ids[k] \in S /\ ids[k] \in DOMAIN index
  OBVIOUS
<1>6. \A k \in 1..size : ids[k] \in S /\ ids[k] \in DOMAIN index => vecs[k] \in hit
  OBVIOUS
<1> HIDE DEF hit
<1>7. /\ hit \subseteq Vector /\ hit \subseteq 1..used
  <2> SUFFICES ASSUME NEW x \in hit PROVE x \in Vector /\ x \in 1..used
    OBVIOUS
  <2>1. PICK k \in 1..size : x = vecs[k]
    BY <1>5
  <2>2. vecs[k] \in Vector /\ k \in 1..Len(vecs) /\ used \in Nat
    BY IInvTypes
  <2>3. vecs[k] <= used
    BY <2>2 DEF VectorIInv, Bounded
  <2> QED  BY <2>1, <2>2, <2>3 DEF Vector
<1>8. deleted' \subseteq ToSet(ids) /\ deleted' \subseteq Id
  <2>1. ToSet(ids) \subseteq Id
    BY IInvTypes DEF ToSet
  <2> QED  BY <1>2, <2>1 DEF VectorIInv, Bounded
<1>9. Cardinality(deleted') \in Nat
  BY <1>8, IInvTypes, DeletedCount
<1>10. TypeOK'
  <2>1. {exists, reused, torn, replaced}' \subseteq BOOLEAN
    BY <1>1, Zenon DEF VectorIInv, TypeOK
  <2>2. meta' \in [Id -> Vector \cup {None}]
    <3>1. \A i \in Id : meta[i] \in Vector \cup {None}
      BY DEF VectorIInv, TypeOK
    <3> QED  BY <1>4, <3>1
  <2>3. DOMAIN index' \subseteq Id /\ \A i \in DOMAIN index' : index'[i] \in DOMAIN vecs'
    BY <1>1, <1>3 DEF VectorIInv, TypeOK
  <2>4. count' \in Int
    BY <1>2, <1>9, IInvTypes
  <2>5. deletes' \in 0..MaxDeletes
    BY <1>2, VectorDbAssumption DEF VectorIInv, TypeOK
  <2>6. live' \subseteq Vector /\ gone' \subseteq Vector
    BY <1>2, <1>7 DEF VectorIInv, TypeOK
  <2> QED  BY <1>1, <1>8, <2>1, <2>2, <2>3, <2>4, <2>5, <2>6 DEF VectorIInv, TypeOK
<1>11. Bounded'
  <2>1. live' \subseteq 1..used /\ gone' \subseteq 1..used
    BY <1>2, <1>7 DEF VectorIInv, Bounded
  <2> QED  BY <1>1, <1>2, <1>8, <2>1 DEF VectorIInv, Bounded
<1>12. Saved'
  BY <1>1 DEF VectorIInv, Saved
<1>13. Half'
  BY <1>1 DEF Half
<1>14. Sound'
  <2> SUFFICES ASSUME ~torn
               PROVE  /\ Len(ids) = size
                      /\ \A i \in DOMAIN index' : index'[i] \in 1..size /\ ids[index'[i]] = i /\ vecs[index'[i]] \notin gone'
                      /\ SoundRows(ids, vecs, size, deleted', gone')
                      /\ reused => gone' # {}
    BY <1>1 DEF Sound, SoundRows
  <2>1. /\ Len(ids) = size
        /\ \A i \in DOMAIN index : index[i] \in 1..size /\ ids[index[i]] = i /\ vecs[index[i]] \notin gone
        /\ \A j, k \in 1..size : vecs[j] = vecs[k] => j = k
        /\ \A k \in 1..size : vecs[k] \in gone => ids[k] \in deleted
        /\ gone = {} => deleted = {} /\ \A k \in 1..size : ids[k] < size
        /\ reused => gone # {}
    BY DEF VectorIInv, Sound, SoundRows
  <2>2. ASSUME NEW i \in DOMAIN index'
        PROVE  index'[i] \in 1..size /\ ids[index'[i]] = i /\ vecs[index'[i]] \notin gone'
    <3>1. index'[i] \in 1..size /\ ids[index'[i]] = i /\ vecs[index'[i]] \notin gone /\ i \notin S
      BY <2>1, <1>3
    <3>2. vecs[index'[i]] \notin hit
      BY <3>1, <2>1, <1>5
    <3> QED  BY <3>1, <3>2, <1>2
  <2>3. ASSUME NEW k \in 1..size, vecs[k] \in gone' PROVE ids[k] \in deleted'
    BY <2>1, <2>3, <1>2, <1>5
  <2>4. ASSUME gone' = {} PROVE deleted' = {} /\ \A k \in 1..size : ids[k] < size
    <3>1. gone = {} /\ hit = {}
      BY <2>4, <1>2
    <3>2. S \cap DOMAIN index = {}
      BY <3>1, <2>1, <1>6
    <3> QED  BY <3>1, <3>2, <2>1, <1>2
  <2>5. SoundRows(ids, vecs, size, deleted', gone')
    BY <2>1, <2>3, <2>4 DEF SoundRows
  <2>6. reused => gone' # {}
    BY <2>1, <1>2
  <2> QED  BY <2>1, <2>2, <2>5, <2>6
<1>15. Exact'
  <2> SUFFICES ASSUME ~torn, ~reused
               PROVE  /\ ExactRows(ids, vecs, size, deleted', live', replaced)
                      /\ DOMAIN index' = ToSet(ids) \ deleted'
                      /\ \A i \in Id : meta'[i] # None => i \in DOMAIN index' /\ vecs[index'[i]] = meta'[i]
    BY <1>1 DEF Exact, ExactRows, ToSet
  <2>1. /\ \A j, k \in 1..size : ids[j] = ids[k] => j = k
        /\ ~replaced => live = {vecs[k] : k \in {q \in 1..size : ids[q] \notin deleted}}
        /\ DOMAIN index = ToSet(ids) \ deleted
        /\ \A i \in Id : meta[i] # None => i \in DOMAIN index /\ vecs[index[i]] = meta[i]
    BY DEF VectorIInv, Exact, ExactRows
  <2>2. \A j, k \in 1..size : vecs[j] = vecs[k] => j = k
    BY DEF VectorIInv, Sound, SoundRows
  <2>3. \A k \in 1..size : ids[k] \in ToSet(ids)
    BY IInvTypes DEF ToSet
  <2>4. ASSUME NEW k \in 1..size
        PROVE  ids[k] \notin deleted' <=> ids[k] \notin deleted /\ vecs[k] \notin hit
    BY <2>1, <2>2, <2>3, <1>2, <1>5, <1>6
  <2>5. ASSUME ~replaced
        PROVE  \A x : x \in live' <=> x \in {vecs[k] : k \in {q \in 1..size : ids[q] \notin deleted'}}
    BY <2>1, <2>4, <2>5, <1>2
  <2>6. ExactRows(ids, vecs, size, deleted', live', replaced)
    BY <2>1, <2>5 DEF ExactRows
  <2>7. \A i : i \in DOMAIN index' <=> i \in ToSet(ids) \ deleted'
    BY <2>1, <1>2, <1>3
  <2>8. ASSUME NEW i \in Id, meta'[i] # None
        PROVE  i \in DOMAIN index' /\ vecs[index'[i]] = meta'[i]
    <3>1. i \notin S /\ meta'[i] = meta[i]
      BY <2>8, <1>4
    <3>2. i \in DOMAIN index /\ vecs[index[i]] = meta[i]
      BY <3>1, <2>8, <2>1
    <3> QED  BY <3>1, <3>2, <1>3
  <2> QED  BY <2>6, <2>7, <2>8
<1>16. Reading'
  <2>1. used \in Nat
    BY IInvTypes
  <2> QED  BY <1>1, <2>1, ReadingKept
<1> QED
  BY <1>10, <1>11, <1>12, <1>13, <1>14, <1>15, <1>16 DEF VectorIInv

\* What insert writes: the rows behind those in use, the ids from the number
\* of active vectors on, each mapped to its row, and the metadata.
LEMMA InsertRows ==
  ASSUME VectorIInv, NEW n \in Nat \ {0}, NEW described \in BOOLEAN, Insert(n, described)
  PROVE  /\ count \in Int /\ n \in Nat /\ Len(vecs) <= Len(vecs')
         /\ vecs' \in Seq(Vector) /\ size + n <= Len(vecs') /\ Len(vecs') <= used + n
         /\ \A k \in 1..size : vecs'[k] = vecs[k]
         /\ \A k \in 1..n : vecs'[size + k] = used + k
         /\ \A k \in 1..Len(vecs') : vecs'[k] <= used + n
         /\ ids' \in Seq(Id) /\ Len(ids') = Len(ids) + n
         /\ \A k \in 1..Len(ids) : ids'[k] = ids[k]
         /\ \A k \in 1..n : ids'[Len(ids) + k] = count + k - 1
         /\ DOMAIN index' = DOMAIN index \cup (count..(count + n - 1))
         /\ \A i \in count..(count + n - 1) : index'[i] = size + i - count + 1
         /\ \A i \in DOMAIN index \ (count..(count + n - 1)) : index'[i] = index[i]
         /\ \A i \in Id \ (count..(count + n - 1)) : meta'[i] = meta[i]
         /\ \A i \in count..(count + n - 1) : i \in Id /\ meta'[i] \in {meta[i], used + i - count + 1}
         /\ meta' \in [Id -> Vector \cup {None}]
         /\ live' = live \cup ((used + 1)..(used + n))
         /\ ~reused' => ~reused /\ (count..(count + n - 1)) \cap ToSet(ids) = {}
         /\ reused' => reused \/ (count..(count + n - 1)) \cap ToSet(ids) # {}
         /\ reused' \in BOOLEAN
         /\ described => \A i \in count..(count + n - 1) : meta'[i] = used + i - count + 1
         /\ ~described => meta' = meta
<1> DEFINE rows == [k \in 1..n |-> used + k]
           new == [k \in 1..n |-> count + k - 1]
           at(i) == CHOOSE k \in 1..n : new[k] = i
           I == count..(count + n - 1)
<1>1. /\ used \in Nat /\ size \in Nat /\ vecs \in Seq(Vector) /\ ids \in Seq(Id) /\ Len(vecs) \in Nat /\ Len(ids) \in Nat
      /\ size <= Len(vecs) /\ size <= Len(ids) /\ Len(ids) <= used /\ Len(vecs) <= used
      /\ \A k \in 1..Len(vecs) : vecs[k] <= used /\ vecs[k] \in Vector
      /\ MaxVectors \in Nat /\ n \in Nat
  BY IInvTypes, VectorDbAssumption DEF VectorIInv, Bounded
<1>2. count \in Int /\ count <= size /\ -used <= count
  <2>1. Cardinality(deleted) \in Nat /\ Cardinality(deleted) <= Len(ids)
    BY <1>1, DeletedCount DEF VectorIInv, Bounded
  <2>2. count = size - Cardinality(deleted)
    BY DEF VectorIInv, Bounded
  <2> QED  BY <1>1, <2>1, <2>2
<1>3. /\ used + n <= MaxVectors
      /\ vecs' = WriteRows(rows)
      /\ ids' = ids \o new
      /\ index' = [i \in DOMAIN index \cup ToSet(new) |-> IF i \in ToSet(new) THEN size + at(i) ELSE index[i]]
      /\ meta' = IF described THEN [i \in Id |-> IF i \in ToSet(new) THEN rows[at(i)] ELSE meta[i]] ELSE meta
      /\ live' = live \cup ToSet(rows)
      /\ reused' = (reused \/ ToSet(new) \cap ToSet(ids) # {})
  BY DEF Insert, StartId
<1>4. \A i \in I : i \in Id
  BY <1>1, <1>2, <1>3 DEF Id
<1>5. new \in Seq(Id) /\ Len(new) = n
  <2>1. \A k \in 1..n : count + k - 1 \in I
    BY <1>1, <1>2
  <2>2. new \in [1..n -> Id]
    BY <2>1, <1>4
  <2> QED  BY <2>2, <1>1
<1>6. ToSet(new) = I
  <2>1. ASSUME NEW i \in I PROVE i \in ToSet(new)
    <3>1. i - count + 1 \in 1..n /\ count + (i - count + 1) - 1 = i
      BY <1>1, <1>2
    <3>2. new[i - count + 1] = i
      BY <3>1
    <3> QED  BY <3>1, <3>2 DEF ToSet
  <2>2. ASSUME NEW k \in 1..n PROVE new[k] \in I
    BY <1>1, <1>2
  <2>3. \A i : i \in ToSet(new) <=> i \in I
    BY <2>1, <2>2 DEF ToSet
  <2> QED  BY <2>3
<1>7. ASSUME NEW i \in I PROVE at(i) = i - count + 1 /\ at(i) \in 1..n
  <2>1. i - count + 1 \in 1..n /\ count + (i - count + 1) - 1 = i
    BY <1>1, <1>2
  <2>2. new[i - count + 1] = i
    BY <2>1
  <2>3. at(i) \in 1..n /\ new[at(i)] = i
    BY <2>1, <2>2
  <2>4. count + at(i) - 1 = i
    BY <2>3
  <2> HIDE DEF at
  <2> QED  BY <2>3, <2>4, <1>2
<1>8. ToSet(rows) = (used + 1)..(used + n)
  <2>1. ASSUME NEW i \in (used + 1)..(used + n) PROVE i \in ToSet(rows)
    <3>1. i - used \in 1..n /\ used + (i - used) = i
      BY <1>1
    <3>2. rows[i - used] = i
      BY <3>1
    <3> QED  BY <3>1, <3>2 DEF ToSet
  <2>2. ASSUME NEW k \in 1..n PROVE rows[k] \in (used + 1)..(used + n)
    BY <1>1
  <2>3. \A i : i \in ToSet(rows) <=> i \in (used + 1)..(used + n)
    BY <2>1, <2>2 DEF ToSet
  <2> QED  BY <2>3
<1>9. Len(rows) = n /\ \A k \in 1..n : rows[k] = used + k
  BY <1>1
<1> DEFINE m == Max({Len(vecs), size + n})
<1>10. m = (IF Len(vecs) <= size + n THEN size + n ELSE Len(vecs))
  <2>1. Len(vecs) \in Int /\ size + n \in Int
    BY <1>1
  <2> QED  BY <2>1, MinMaxOfTwo
<1>11. vecs' = [k \in 1..m |-> IF k > size /\ k <= size + n THEN rows[k - size] ELSE vecs[k]]
  BY <1>3, <1>9 DEF WriteRows
<1> HIDE DEF rows, new, at, m, I
<1>12. m \in Nat /\ size + n <= m /\ m <= used + n /\ (m > size + n => m = Len(vecs))
  BY <1>1, <1>10
<1>13. ASSUME NEW k \in 1..m
       PROVE  /\ vecs'[k] \in Vector /\ vecs'[k] <= used + n
              /\ k <= size => vecs'[k] = vecs[k]
              /\ k > size /\ k <= size + n => vecs'[k] = used + (k - size)
  <2>1. CASE k > size /\ k <= size + n
    <3>1. k - size \in 1..n
      BY <2>1, <1>1
    <3>2. vecs'[k] = used + (k - size)
      BY <3>1, <2>1, <1>9, <1>11
    <3> QED  BY <3>1, <3>2, <2>1, <1>1, <1>3 DEF Vector
  <2>2. CASE ~(k > size /\ k <= size + n)
    <3>1. vecs'[k] = vecs[k]
      BY <2>2, <1>11
    <3>2. k \in 1..Len(vecs)
      BY <2>2, <1>1, <1>12
    <3>3. vecs[k] \in Vector /\ vecs[k] <= used
      BY <3>2, <1>1
    <3>4. vecs[k] <= used + n
      BY <3>3, <1>1 DEF Vector
    <3> QED  BY <3>1, <3>3, <3>4, <2>2
  <2> QED  BY <2>1, <2>2
<1>14. vecs' \in Seq(Vector) /\ Len(vecs') = m
  <2>1. vecs' \in [1..m -> Vector]
    BY <1>11, <1>13
  <2> QED  BY <2>1, <1>12
<1>15. \A k \in 1..size : vecs'[k] = vecs[k]
  <2> SUFFICES ASSUME NEW k \in 1..size PROVE vecs'[k] = vecs[k]
    OBVIOUS
  <2>1. k \in 1..m /\ k <= size
    BY <1>1, <1>12
  <2> QED  BY <2>1, <1>13
<1>16. \A k \in 1..n : vecs'[size + k] = used + k
  <2> SUFFICES ASSUME NEW k \in 1..n PROVE vecs'[size + k] = used + k
    OBVIOUS
  <2>1. PICK q \in 1..m : q = size + k
    BY <1>1, <1>12
  <2>2. q > size /\ q <= size + n /\ q - size = k
    BY <2>1, <1>1
  <2>3. vecs'[q] = used + (q - size)
    BY <2>2, <1>13
  <2> QED  BY <2>1, <2>2, <2>3
<1>17. /\ ids' \in Seq(Id) /\ Len(ids') = Len(ids) + n
       /\ \A k \in 1..Len(ids) : ids'[k] = ids[k]
       /\ \A k \in 1..n : ids'[Len(ids) + k] = new[k]
  <2>1. ids' = ids \o new
    BY <1>3
  <2>2. ids \in Seq(Id) /\ new \in Seq(Id) /\ Len(ids) \in Nat /\ n \in Nat
    BY <1>1, <1>5
  <2>3. /\ ids \o new \in Seq(Id) /\ Len(ids \o new) = Len(ids) + n
        /\ \A k \in 1..(Len(ids) + n) : (ids \o new)[k] = IF k <= Len(ids) THEN ids[k] ELSE new[k - Len(ids)]
    BY <2>2, <1>5, ConcatProperties
  <2>4. ASSUME NEW k \in 1..n PROVE ids'[Len(ids) + k] = new[k]
    <3>1. Len(ids) + k \in 1..(Len(ids) + n) /\ ~(Len(ids) + k <= Len(ids)) /\ Len(ids) + k - Len(ids) = k
      BY <2>2
    <3> QED  BY <3>1, <2>1, <2>3
  <2>5. ASSUME NEW k \in 1..Len(ids) PROVE ids'[k] = ids[k]
    <3>1. k \in 1..(Len(ids) + n) /\ k <= Len(ids)
      BY <2>2
    <3> QED  BY <3>1, <2>1, <2>3
  <2> QED  BY <2>1, <2>3, <2>4, <2>5
<1>18. \A k \in 1..n : new[k] = count + k - 1
  BY DEF new
<1>19. /\ DOMAIN index' = DOMAIN index \cup I
       /\ \A i \in I : index'[i] = size + at(i)
       /\ \A i \in DOMAIN index \ I : index'[i] = index[i]
  BY <1>3, <1>6
<1>20. \A i \in I : index'[i] = size + i - count + 1
  <2> SUFFICES ASSUME NEW i \in I PROVE index'[i] = size + i - count + 1
    OBVIOUS
  <2>1. i \in Int
    BY <1>2 DEF I
  <2>2. at(i) = i - count + 1
    BY <1>7
  <2> QED  BY <2>1, <2>2, <1>19, <1>1, <1>2
<1>21. \A i \in I : rows[at(i)] = used + i - count + 1 /\ used + i - count + 1 \in Vector
  <2> SUFFICES ASSUME NEW i \in I PROVE rows[at(i)] = used + i - count + 1 /\ used + i - count + 1 \in Vector
    OBVIOUS
  <2>1. at(i) = i - count + 1 /\ at(i) \in 1..n /\ i \in Int
    BY <1>2, <1>7 DEF I
  <2>2. rows[at(i)] = used + at(i)
    BY <2>1, <1>9
  <2> QED  BY <2>1, <2>2, <1>1, <1>2, <1>3 DEF Vector
<1>22. /\ \A i \in Id \ I : meta'[i] = meta[i]
       /\ \A i \in I : meta'[i] \in {meta[i], used + i - count + 1}
       /\ meta' \in [Id -> Vector \cup {None}]
       /\ described => \A i \in I : meta'[i] = used + i - count + 1
       /\ ~described => meta' = meta
  <2>0. meta \in [Id -> Vector \cup {None}]
    BY DEF VectorIInv, TypeOK
  <2>1. CASE described
    <3>1. meta' = [i \in Id |-> IF i \in I THEN rows[at(i)] ELSE meta[i]]
      BY <2>1, <1>3, <1>6
    <3>2. \A i \in I : meta'[i] = used + i - count + 1
      BY <3>1, <1>4, <1>21
    <3>3. \A i \in Id : meta'[i] = IF i \in I THEN used + i - count + 1 ELSE meta[i]
      BY <3>1, <3>2
    <3>4. meta' \in [Id -> Vector \cup {None}]
      BY <3>1, <1>21, <2>0
    <3> QED  BY <2>1, <3>2, <3>3, <3>4
  <2>2. CASE ~described
    BY <2>0, <2>2, <1>3
  <2> QED  BY <2>1, <2>2
<1>23. /\ ~reused' => ~reused /\ I \cap ToSet(ids) = {}
       /\ reused' => reused \/ I \cap ToSet(ids) # {}
  BY <1>3, <1>6
<1>24. reused' \in BOOLEAN
  BY <1>3, Zenon
<1>25. live' = live \cup ((used + 1)..(used + n))
  BY <1>3, <1>8
<1>26. \A k \in 1..Len(vecs') : vecs'[k] <= used + n
  BY <1>13, <1>14
<1>27. size + n <= Len(vecs') /\ Len(vecs') <= used + n /\ Len(vecs) <= Len(vecs')
  BY <1>1, <1>10, <1>12, <1>14
<1> HIDE <1>3, <1>7, <1>13
<1>28. \A k \in 1..n : ids'[Len(ids) + k] = count + k - 1
  BY <1>17, <1>18
<1> USE DEF I
<1> QED
  BY <1>1, <1>2, <1>4, <1>14, <1>15, <1>16, <1>17, <1>19, <1>20, <1>22, <1>23, <1>24, <1>25, <1>26, <1>27, <1>28

\* insert keeps the invariant.
LEMMA InsertStep ==
  ASSUME VectorIInv, NEW n \in Nat \ {0}, NEW described \in BOOLEAN, Insert(n, described)
  PROVE  VectorIInv'
<1> DEFINE I == count..(count + n - 1)
<1>1. /\ count \in Int /\ n \in Nat
      /\ vecs' \in Seq(Vector) /\ size + n <= Len(vecs') /\ Len(vecs') <= used + n
      /\ \A k \in 1..size : vecs'[k] = vecs[k]
      /\ \A k \in 1..n : vecs'[size + k] = used + k
  <2>1. count \in Int /\ n \in Nat
    BY InsertRows
  <2>2. vecs' \in Seq(Vector)
    BY InsertRows
  <2>3. size + n <= Len(vecs') /\ Len(vecs') <= used + n
    BY InsertRows, ZenonT(60)
  <2>4. \A k \in 1..size : vecs'[k] = vecs[k]
    BY InsertRows
  <2>5. \A k \in 1..n : vecs'[size + k] = used + k
    BY InsertRows, ZenonT(60)
  <2> QED  BY <2>1, <2>2, <2>3, <2>4, <2>5
<1>19. \A k \in 1..Len(vecs') : vecs'[k] <= used + n
  BY InsertRows, ZenonT(60)
<1>2. /\ ids' \in Seq(Id) /\ Len(ids') = Len(ids) + n
      /\ \A k \in 1..Len(ids) : ids'[k] = ids[k]
      /\ \A k \in 1..n : ids'[Len(ids) + k] = count + k - 1
  BY InsertRows, ZenonT(60)
<1>3. /\ DOMAIN index' = DOMAIN index \cup I
      /\ \A i \in I : index'[i] = size + i - count + 1
      /\ \A i \in DOMAIN index \ I : index'[i] = index[i]
  BY InsertRows, ZenonT(60)
<1>4. /\ \A i \in Id \ I : meta'[i] = meta[i]
      /\ \A i \in I : i \in Id
      /\ meta' \in [Id -> Vector \cup {None}]
      /\ described => \A i \in I : meta'[i] = used + i - count + 1
      /\ ~described => meta' = meta
  BY InsertRows, ZenonT(60)
<1>5. /\ live' = live \cup ((used + 1)..(used + n))
      /\ ~reused' => ~reused /\ I \cap ToSet(ids) = {}
      /\ reused' => reused \/ I \cap ToSet(ids) # {}
      /\ reused' \in BOOLEAN
  BY InsertRows, ZenonT(60)
<1>6. /\ size' = size + n /\ used' = used + n /\ used + n <= MaxVectors /\ saving = "no"
      /\ deleted' = deleted /\ count' = size' - Cardinality(deleted)
      /\ exists' = exists /\ file' = file /\ mark' = mark /\ saving' = saving /\ deletes' = deletes /\ loads' = loads
      /\ gone' = gone /\ torn' = torn /\ replaced' = replaced /\ creators' = creators /\ reader' = reader
  BY DEF Insert
<1>7. /\ used \in Nat /\ size \in Nat /\ Len(ids) \in Nat /\ size <= Len(vecs) /\ size <= Len(ids)
      /\ Len(ids) <= used /\ ids \in Seq(Id) /\ DOMAIN ids = 1..Len(ids) /\ DOMAIN ids' = 1..(Len(ids) + n)
      /\ Len(vecs) \in Nat /\ Len(vecs') \in Nat /\ DOMAIN vecs' = 1..Len(vecs') /\ DOMAIN vecs = 1..Len(vecs)
  BY <1>1, <1>2, IInvTypes
<1>8. Cardinality(deleted) \in Nat
  BY <1>7, DeletedCount DEF VectorIInv, Bounded
<1>9. \A k \in 1..(Len(ids) + n) : k \in 1..Len(ids) \/ \E j \in 1..n : k = Len(ids) + j
  <2> SUFFICES ASSUME NEW k \in 1..(Len(ids) + n), k \notin 1..Len(ids) PROVE k - Len(ids) \in 1..n /\ k = Len(ids) + (k - Len(ids))
    OBVIOUS
  <2> QED  BY <1>1, <1>7
<1>10. /\ \A j \in 1..n : count + j - 1 \in I
       /\ \A i \in I : i \in Int /\ i - count + 1 \in 1..n
  BY <1>1
<1>11. \A i : i \in ToSet(ids') <=> i \in ToSet(ids) \/ i \in I
  <2>1. ASSUME NEW k \in 1..(Len(ids) + n) PROVE ids'[k] \in ToSet(ids) \/ ids'[k] \in I
    BY <1>2, <1>7, <1>9, <1>10, ZenonT(60) DEF ToSet
  <2>2. ASSUME NEW k \in 1..Len(ids) PROVE \E j \in DOMAIN ids' : ids'[j] = ids[k]
    <3>1. k \in DOMAIN ids' /\ ids'[k] = ids[k]
      BY <1>1, <1>2, <1>7
    <3> QED  BY <3>1
  <2>3. ASSUME NEW i \in I PROVE \E j \in DOMAIN ids' : ids'[j] = i
    <3>1. i - count + 1 \in 1..n /\ count + (i - count + 1) - 1 = i
      BY <1>1, <1>10
    <3>2. ids'[Len(ids) + (i - count + 1)] = i
      BY <3>1, <1>2
    <3>3. Len(ids) + (i - count + 1) \in DOMAIN ids'
      BY <3>1, <1>7
    <3> QED  BY <3>2, <3>3
  <2> QED  BY <2>1, <2>2, <2>3, <1>7 DEF ToSet
<1> HIDE DEF I
<1>12. TypeOK'
  <2>1. {exists, reused, torn, replaced}' \subseteq BOOLEAN
    BY <1>5, <1>6, Zenon DEF VectorIInv, TypeOK
  <2>2. DOMAIN index' \subseteq Id
    BY <1>3, <1>4 DEF VectorIInv, TypeOK
  <2>3. ASSUME NEW i \in DOMAIN index' PROVE index'[i] \in DOMAIN vecs'
    <3>1. CASE i \in I
      <4>1. i - count + 1 \in 1..n /\ i \in Int
        BY <3>1, <1>10
      <4>2. index'[i] = size + i - count + 1
        BY <3>1, <1>3
      <4> QED  BY <4>1, <4>2, <1>1, <1>7, SMTT(30)
    <3>2. CASE i \notin I
      <4>1. i \in DOMAIN index /\ index'[i] = index[i]
        BY <3>2, <1>3
      <4>2. index[i] \in 1..Len(vecs)
        BY <4>1, <1>7 DEF VectorIInv, TypeOK
      <4>3. Len(vecs) <= Len(vecs')
        BY InsertRows
      <4> QED  BY <4>1, <4>2, <4>3, <1>7
    <3> QED  BY <3>1, <3>2
  <2>4. size' \in 0..Len(vecs') /\ count' \in Int /\ used' \in 0..MaxVectors
    BY <1>1, <1>6, <1>7, <1>8, VectorDbAssumption
  <2>5. live' \subseteq Vector
    <3>1. (used + 1)..(used + n) \subseteq Vector
      BY <1>6, <1>7, VectorDbAssumption DEF Vector
    <3> QED  BY <3>1, <1>5 DEF VectorIInv, TypeOK
  <2> QED  BY <1>1, <1>2, <1>4, <1>6, <2>1, <2>2, <2>3, <2>4, <2>5 DEF VectorIInv, TypeOK
<1>13. Bounded'
  <2>1. deleted' \subseteq ToSet(ids')
    BY <1>6, <1>11 DEF VectorIInv, Bounded
  <2>2. /\ live' \subseteq 1..(used + n) /\ gone \subseteq 1..(used + n)
        /\ mark.live \subseteq 1..(used + n) /\ mark.gone \subseteq 1..(used + n)
    <3>1. 1..used \subseteq 1..(used + n) /\ (used + 1)..(used + n) \subseteq 1..(used + n)
      BY <1>1, <1>7
    <3> QED  BY <3>1, <1>5 DEF VectorIInv, Bounded
  <2>3. /\ Len(file.ids) <= used + n /\ Len(file.vecs) <= used + n
        /\ \A k \in 1..Len(file.vecs) : file.vecs[k] <= used + n
    <3>1. /\ Len(file.ids) <= used /\ Len(file.vecs) <= used
          /\ \A k \in 1..Len(file.vecs) : file.vecs[k] <= used /\ file.vecs[k] \in Vector
          /\ Len(file.ids) \in Nat /\ Len(file.vecs) \in Nat
      BY IInvTypes DEF VectorIInv, Bounded
    <3> QED  BY <3>1, <1>1, <1>7, SMTT(30) DEF Vector
  <2>4. Len(ids') <= used + n /\ size + n <= Len(ids')
    BY <1>1, <1>2, <1>7
  <2> QED  BY <1>1, <1>6, <1>19, <2>1, <2>2, <2>3, <2>4 DEF VectorIInv, Bounded
<1>14. Saved'
  BY <1>6 DEF VectorIInv, Saved
<1>15. Half'
  BY <1>6 DEF Half
<1>16. ASSUME ~torn
       PROVE  /\ Len(ids) = size /\ Len(ids') = size + n
              /\ \A k \in 1..(size + n) : \/ k \in 1..size /\ vecs'[k] = vecs[k] /\ ids'[k] = ids[k] /\ vecs[k] <= used
                                          \/ \E j \in 1..n : k = size + j /\ vecs'[k] = used + j /\ ids'[k] = count + j - 1
  <2>1. Len(ids) = size
    BY <1>16 DEF VectorIInv, Sound
  <2>2. \A k \in 1..size : vecs[k] <= used
    BY <1>7 DEF VectorIInv, Bounded
  <2>3. ASSUME NEW k \in 1..(size + n)
        PROVE  \/ k \in 1..size /\ vecs'[k] = vecs[k] /\ ids'[k] = ids[k] /\ vecs[k] <= used
               \/ \E j \in 1..n : k = size + j /\ vecs'[k] = used + j /\ ids'[k] = count + j - 1
    BY <2>1, <2>2, <1>1, <1>2, <1>9, ZenonT(60)
  <2> QED  BY <2>1, <2>3, <1>2
<1>17. Sound'
  <2> SUFFICES ASSUME ~torn
               PROVE  /\ Len(ids') = size + n
                      /\ \A i \in DOMAIN index' : index'[i] \in 1..(size + n) /\ ids'[index'[i]] = i /\ vecs'[index'[i]] \notin gone
                      /\ SoundRows(ids', vecs', size + n, deleted, gone)
                      /\ reused' => gone # {}
    BY <1>6 DEF Sound, SoundRows
  <2>1. /\ \A i \in DOMAIN index : index[i] \in 1..size /\ ids[index[i]] = i /\ vecs[index[i]] \notin gone
        /\ \A j, k \in 1..size : vecs[j] = vecs[k] => j = k
        /\ \A k \in 1..size : vecs[k] \in gone => ids[k] \in deleted
        /\ gone = {} => deleted = {} /\ \A k \in 1..size : ids[k] < size
        /\ reused => gone # {}
    BY DEF VectorIInv, Sound, SoundRows
  <2>2. \A j \in 1..n : used + j \notin gone
    <3>1. gone \subseteq 1..used
      BY DEF VectorIInv, Bounded
    <3> QED  BY <3>1, <1>7
  <2>3. ASSUME NEW i \in DOMAIN index'
        PROVE  index'[i] \in 1..(size + n) /\ ids'[index'[i]] = i /\ vecs'[index'[i]] \notin gone
    <3>1. CASE i \in I
      <4>1. PICK j \in 1..n : j = i - count + 1
        BY <3>1, <1>10
      <4>2. index'[i] = size + j /\ count + j - 1 = i
        BY <3>1, <4>1, <1>1, <1>3, <1>7, <1>10, SMTT(30)
      <4>3. ids'[size + j] = i /\ vecs'[size + j] = used + j
        BY <4>2, <1>1, <1>2, <1>16
      <4> QED  BY <4>2, <4>3, <2>2, <1>7
    <3>2. CASE i \notin I
      <4>1. i \in DOMAIN index /\ index'[i] = index[i] /\ index[i] \in 1..size
        BY <3>2, <2>1, <1>3
      <4>2. ids'[index[i]] = ids[index[i]] /\ vecs'[index[i]] = vecs[index[i]]
        BY <4>1, <1>1, <1>2, <1>16
      <4> QED  BY <4>1, <4>2, <2>1, <1>7
    <3> QED  BY <3>1, <3>2
  <2>4. ASSUME NEW j \in 1..(size + n), NEW k \in 1..(size + n), vecs'[j] = vecs'[k] PROVE j = k
    <3>1. CASE j \in 1..size /\ k \in 1..size
      BY <3>1, <2>1, <2>4, <1>1
    <3>2. CASE j \notin 1..size /\ k \in 1..size
      <4>1. PICK x \in 1..n : vecs'[j] = used + x
        BY <3>2, <1>16
      <4>2. vecs'[k] \in Int /\ vecs'[k] <= used
        BY <3>2, <1>1, <1>7, IInvTypes, SMTT(30) DEF VectorIInv, Bounded, Vector
      <4> QED  BY <4>1, <4>2, <2>4, <1>7
    <3>3. CASE j \in 1..size /\ k \notin 1..size
      <4>1. PICK x \in 1..n : vecs'[k] = used + x
        BY <3>3, <1>16
      <4>2. vecs'[j] \in Int /\ vecs'[j] <= used
        BY <3>3, <1>1, <1>7, IInvTypes, SMTT(30) DEF VectorIInv, Bounded, Vector
      <4> QED  BY <4>1, <4>2, <2>4, <1>7
    <3>4. CASE j \notin 1..size /\ k \notin 1..size
      <4>1. PICK x \in 1..n : j = size + x /\ vecs'[j] = used + x
        BY <3>4, <1>16
      <4>2. PICK y \in 1..n : k = size + y /\ vecs'[k] = used + y
        BY <3>4, <1>16
      <4>3. x = y
        BY <4>1, <4>2, <2>4, <1>7
      <4> QED  BY <4>1, <4>2, <4>3
    <3> QED  BY <3>1, <3>2, <3>3, <3>4
  <2>5. ASSUME NEW k \in 1..(size + n), vecs'[k] \in gone PROVE ids'[k] \in deleted
    <3>1. CASE k \in 1..size
      BY <3>1, <2>1, <2>5, <1>1, <1>2, <1>16
    <3>2. CASE k \notin 1..size
      <4>1. PICK x \in 1..n : vecs'[k] = used + x
        BY <3>2, <1>16
      <4> QED  BY <4>1, <2>2, <2>5
    <3> QED  BY <3>1, <3>2
  <2>6. ASSUME gone = {} PROVE deleted = {} /\ \A k \in 1..(size + n) : ids'[k] < size + n
    <3>1. deleted = {} /\ \A k \in 1..size : ids[k] < size
      BY <2>1, <2>6
    <3>2. count = size
      BY <3>1, <1>7, FS_EmptySet DEF VectorIInv, Bounded
    <3>3. ASSUME NEW k \in 1..(size + n) PROVE ids'[k] < size + n
      <4>1. CASE k \in 1..size
        <5>1. ids'[k] = ids[k] /\ ids[k] < size /\ ids[k] \in Id
          BY <4>1, <3>1, <1>2, <1>16, IInvTypes
        <5> QED  BY <5>1, <1>1, <1>7, VectorDbAssumption, SMTT(30) DEF Id
      <4>2. CASE k \notin 1..size
        <5>1. PICK x \in 1..n : ids'[k] = count + x - 1
          BY <4>2, <1>16
        <5> QED  BY <5>1, <3>2, <1>1, <1>7
      <4> QED  BY <4>1, <4>2
    <3> QED  BY <3>1, <3>3
  <2>7. SoundRows(ids', vecs', size + n, deleted, gone)
    BY <2>4, <2>5, <2>6 DEF SoundRows
  <2>8. ASSUME reused', gone = {} PROVE FALSE
    <3>1. deleted = {} /\ \A k \in 1..size : ids[k] < size
      BY <2>1, <2>8
    <3>2. count = size
      BY <3>1, <1>7, FS_EmptySet DEF VectorIInv, Bounded
    <3>3. I \cap ToSet(ids) # {}
      BY <2>1, <2>8, <1>5
    <3>4. PICK i \in I : i \in ToSet(ids)
      BY <3>3
    <3>5. PICK k \in 1..size : ids[k] = i
      BY <3>4, <1>7, <1>16 DEF ToSet
    <3>6. i < size
      BY <3>1, <3>5
    <3>7. i >= count
      BY <1>1 DEF I
    <3> QED  BY <3>2, <3>6, <3>7, <1>7, <1>10
  <2> QED  BY <2>3, <2>7, <2>8, <1>16
<1>18. Exact'
  <2> SUFFICES ASSUME ~torn, ~reused'
               PROVE  /\ ExactRows(ids', vecs', size + n, deleted, live', replaced)
                      /\ DOMAIN index' = ToSet(ids') \ deleted
                      /\ \A i \in Id : meta'[i] # None => i \in DOMAIN index' /\ vecs'[index'[i]] = meta'[i]
    BY <1>6 DEF Exact, ExactRows, ToSet
  <2>1. ~reused /\ I \cap ToSet(ids) = {}
    BY <1>5
  <2>2. /\ \A j, k \in 1..size : ids[j] = ids[k] => j = k
        /\ ~replaced => live = {vecs[k] : k \in {q \in 1..size : ids[q] \notin deleted}}
        /\ DOMAIN index = ToSet(ids) \ deleted
        /\ \A i \in Id : meta[i] # None => i \in DOMAIN index /\ vecs[index[i]] = meta[i]
        /\ deleted \subseteq ToSet(ids)
    BY <2>1 DEF VectorIInv, Exact, ExactRows, Bounded
  <2>3. \A k \in 1..size : ids[k] \in ToSet(ids) /\ ids[k] \notin I
    <3>1. \A k \in 1..size : ids[k] \in ToSet(ids)
      BY <1>7 DEF ToSet
    <3> QED  BY <3>1, <2>1
  <2>4. ASSUME NEW j \in 1..(size + n), NEW k \in 1..(size + n), ids'[j] = ids'[k] PROVE j = k
    <3>1. CASE j \in 1..size /\ k \in 1..size
      BY <3>1, <2>2, <2>4, <1>2, <1>16
    <3>2. CASE j \notin 1..size /\ k \in 1..size
      <4>1. ids'[j] \in I
        BY <3>2, <1>10, <1>16
      <4>2. ids'[k] \notin I
        BY <3>2, <2>3, <1>2, <1>16
      <4> QED  BY <4>1, <4>2, <2>4
    <3>3. CASE j \in 1..size /\ k \notin 1..size
      <4>1. ids'[k] \in I
        BY <3>3, <1>10, <1>16
      <4>2. ids'[j] \notin I
        BY <3>3, <2>3, <1>2, <1>16
      <4> QED  BY <4>1, <4>2, <2>4
    <3>4. CASE j \notin 1..size /\ k \notin 1..size
      <4>1. PICK x \in 1..n : j = size + x /\ ids'[j] = count + x - 1
        BY <3>4, <1>16
      <4>2. PICK y \in 1..n : k = size + y /\ ids'[k] = count + y - 1
        BY <3>4, <1>16
      <4>3. x = y
        BY <4>1, <4>2, <2>4, <1>1
      <4> QED  BY <4>1, <4>2, <4>3
    <3> QED  BY <3>1, <3>2, <3>3, <3>4
  <2>5. ASSUME NEW k \in 1..(size + n)
        PROVE  /\ k \in 1..size => ids'[k] = ids[k] /\ vecs'[k] = vecs[k]
               /\ k \notin 1..size => ids'[k] \notin deleted /\ vecs'[k] \in (used + 1)..(used + n)
    <3>1. k \in 1..size => ids'[k] = ids[k] /\ vecs'[k] = vecs[k]
      BY <1>1, <1>2, <1>16
    <3>2. ASSUME k \notin 1..size PROVE ids'[k] \notin deleted /\ vecs'[k] \in (used + 1)..(used + n)
      <4>1. PICK x \in 1..n : ids'[k] = count + x - 1 /\ vecs'[k] = used + x
        BY <3>2, <1>16
      <4>2. ids'[k] \in I
        BY <4>1, <1>10
      <4> QED  BY <4>1, <4>2, <2>1, <2>2, <1>1, <1>7
    <3> QED  BY <3>1, <3>2
  <2>6. ASSUME NEW x \in (used + 1)..(used + n)
        PROVE  \E k \in 1..(size + n) : k \notin 1..size /\ vecs'[k] = x
    <3>1. x - used \in 1..n /\ used + (x - used) = x
      BY <1>1, <1>7
    <3>2. vecs'[size + (x - used)] = x
      BY <3>1, <1>1
    <3>3. size + (x - used) \in 1..(size + n) /\ size + (x - used) \notin 1..size
      BY <3>1, <1>7
    <3> QED  BY <3>2, <3>3
  <2>7. \A k \in 1..size : k \in 1..(size + n)
    BY <1>1, <1>7
  <2>8. ASSUME ~replaced
        PROVE  \A x : x \in live' <=> x \in {vecs'[k] : k \in {q \in 1..(size + n) : ids'[q] \notin deleted}}
    <3>1. ASSUME NEW x \in live' PROVE \E k \in 1..(size + n) : ids'[k] \notin deleted /\ vecs'[k] = x
      <4>1. CASE x \in live
        <5>1. PICK k \in 1..size : ids[k] \notin deleted /\ vecs[k] = x
          BY <4>1, <2>2, <2>8
        <5> QED  BY <5>1, <2>5, <2>7
      <4>2. CASE x \in (used + 1)..(used + n)
        BY <4>2, <2>5, <2>6
      <4> QED  BY <4>1, <4>2, <1>5
    <3>2. ASSUME NEW k \in 1..(size + n), ids'[k] \notin deleted PROVE vecs'[k] \in live'
      <4>1. CASE k \in 1..size
        BY <4>1, <3>2, <2>2, <2>5, <2>8, <1>5
      <4>2. CASE k \notin 1..size
        BY <4>2, <2>5, <1>5
      <4> QED  BY <4>1, <4>2
    <3> QED  BY <3>1, <3>2
  <2>9. ExactRows(ids', vecs', size + n, deleted, live', replaced)
    BY <2>4, <2>8 DEF ExactRows
  <2>10. \A i : i \in DOMAIN index' <=> i \in ToSet(ids') \ deleted
    BY <2>1, <2>2, <1>3, <1>11
  <2>11. ASSUME NEW i \in Id, meta'[i] # None
         PROVE  i \in DOMAIN index' /\ vecs'[index'[i]] = meta'[i]
    <3>1. CASE i \in I
      <4>1. i \notin DOMAIN index
        BY <3>1, <2>1, <2>2
      <4>2. meta[i] = None
        BY <4>1, <2>2
      <4>3. described
        BY <4>2, <2>11, <1>4
      <4>4. PICK j \in 1..n : j = i - count + 1
        BY <3>1, <1>10
      <4>5. index'[i] = size + j /\ used + i - count + 1 = used + j
        BY <3>1, <4>4, <1>1, <1>3, <1>7, <1>10, SMTT(30)
      <4>6. meta'[i] = used + j
        BY <3>1, <4>3, <4>5, <1>4
      <4> QED  BY <3>1, <4>5, <4>6, <1>1, <1>3
    <3>2. CASE i \notin I
      <4>1. meta'[i] = meta[i]
        BY <3>2, <1>4
      <4>2. i \in DOMAIN index /\ vecs[index[i]] = meta[i]
        BY <4>1, <2>2, <2>11
      <4>3. index[i] \in 1..size
        BY <4>2 DEF VectorIInv, Sound
      <4> QED  BY <3>2, <4>1, <4>2, <4>3, <1>1, <1>3
    <3> QED  BY <3>1, <3>2
  <2> QED  BY <2>9, <2>10, <2>11
<1>20. Reading'
  <2>1. used' \in Nat /\ used <= used'
    BY <1>1, <1>6, <1>7
  <2> QED  BY <1>6, <2>1, ReadingKept
<1> QED
  BY <1>12, <1>13, <1>14, <1>15, <1>17, <1>18, <1>20 DEF VectorIInv

\* Every step of the collection keeps the invariant.
LEMMA NextIInv ==
  ASSUME VectorIInv, [Next]_vars
  PROVE  VectorIInv'
<1>1. CASE CreateInstall
  <2>1. creators' \in 0..MaxCreators
    BY <1>1, VectorDbAssumption DEF CreateInstall, VectorIInv, TypeOK
  <2>2. Cleared /\ exists' \in BOOLEAN /\ saving' = "no" /\ UNCHANGED <<file, bounds, mark>>
    BY <1>1, Zenon DEF CreateInstall
  <2>3. reader' = reader \/ reader' = Idle
    BY <1>1 DEF CreateInstall
  <2>4. (live' = {} /\ gone' = {}) \/ (live' = live /\ gone' = gone /\ replaced' = TRUE)
    BY <1>1 DEF CreateInstall, Forgotten
  <2>5. replaced' \in BOOLEAN
    BY <1>1, Zenon DEF CreateInstall, Forgotten
  <2> HIDE <1>1
  <2> QED  BY <2>1, <2>2, <2>3, <2>4, <2>5, FreshStep, Zenon
<1>2. CASE DropIndex
  <2>1. creators' \in 0..MaxCreators
    BY <1>2 DEF DropIndex, VectorIInv, TypeOK
  <2>2. Cleared /\ exists' \in BOOLEAN /\ saving' = "no" /\ UNCHANGED <<file, bounds, mark>>
    BY <1>2, Zenon DEF DropIndex
  <2>3. reader' = reader \/ reader' = Idle
    BY <1>2 DEF DropIndex
  <2>4. (live' = {} /\ gone' = {}) \/ (live' = live /\ gone' = gone /\ replaced' = TRUE)
    BY <1>2 DEF DropIndex, Forgotten
  <2>5. replaced' \in BOOLEAN
    BY <1>2, Zenon DEF DropIndex, Forgotten
  <2> HIDE <1>2
  <2> QED  BY <2>1, <2>2, <2>3, <2>4, <2>5, FreshStep, Zenon
<1>3. CASE Crash
  <2>1. creators' \in 0..MaxCreators
    BY <1>3, VectorDbAssumption DEF Crash
  <2>2. Cleared /\ exists' \in BOOLEAN /\ saving' = "no" /\ UNCHANGED <<file, bounds, mark>>
    BY <1>3, Zenon DEF Crash
  <2>3. reader' = reader \/ reader' = Idle
    BY <1>3 DEF Crash
  <2>4. (live' = {} /\ gone' = {}) \/ (live' = live /\ gone' = gone /\ replaced' = TRUE)
    BY <1>3 DEF Crash, Forgotten
  <2>5. replaced' \in BOOLEAN
    BY <1>3, Zenon DEF Crash, Forgotten
  <2> HIDE <1>3
  <2> QED  BY <2>1, <2>2, <2>3, <2>4, <2>5, FreshStep, Zenon
<1>4. ASSUME NEW n \in 1..MaxBatch, NEW described \in BOOLEAN, Insert(n, described) PROVE VectorIInv'
  <2>1. n \in Nat \ {0}
    BY VectorDbAssumption
  <2> QED  BY <1>4, <2>1, InsertStep
<1>5. ASSUME NEW S \in SUBSET ToSet(ids), Delete(S) PROVE VectorIInv'
  BY <1>5, DeleteStep
<1>6. CASE PersistStart \/ PersistVectors \/ PersistOpen
  BY <1>6, PersistStep
<1>7. CASE PersistIndex
  BY <1>7, PersistIndexStep
<1>8. CASE SaveFails
  BY <1>8, SaveFailsStep
<1>9. CASE LoadIds \/ LoadVectors \/ CreateTest \/ UNCHANGED vars
  BY <1>9, ReadStep
<1>10. CASE LoadInstall
  BY <1>10, LoadStep
<1> QED
  BY <1>1, <1>2, <1>3, <1>4, <1>5, <1>6, <1>7, <1>8, <1>9, <1>10 DEF Next

-----------------------------------------------------------------------------
(* The theorems.                                                           *)

\* The inductive invariant holds in every reachable state: what search, get
\* and the files hold follows from the calls that were made.
THEOREM VectorInvariant == Spec => []VectorIInv
<1>1. Init => VectorIInv
  BY InitIInv
<1>2. VectorIInv /\ [Next]_vars => VectorIInv'
  BY NextIInv
<1> QED
  BY <1>1, <1>2, PTL DEF Spec

\* The state has its types, an id is given twice only after a delete or a
\* load of files of two saves, what was deleted is not returned again, and
\* metadata belongs to its vector (insert, delete, persist, load).
THEOREM CollectionSafe == Spec => []CollectionInv
<1>1. VectorIInv => CollectionInv
  BY IInvCollection
<1> QED
  BY <1>1, VectorInvariant, PTL

\* While no id was given twice search over any query, get and size() agree
\* with one another, and with the vectors inserted and not deleted as long as
\* no create_index replaced the collection; also after persist, a crash and a
\* load that ran beside other threads.
THEOREM SearchExact == Spec => []ExactWhileIdsUnique
<1>1. VectorIInv => ExactWhileIdsUnique
  BY IInvExact
<1> QED
  BY <1>1, VectorInvariant, PTL

\* A load that read the files one complete persist left, with no other
\* persist between its reads, brings back the rows search saw at that persist,
\* whatever other threads do until it installs them.
THEOREM LoadRestores == Spec => RoundTrip
<1>1. ASSUME VectorIInv, [Next]_vars, loads' # loads, reader.whole
      PROVE  {Row(k) : k \in Visible}' = reader.mark.seen
  <2>1. LoadInstall
    BY <1>1 DEF Next, vars, bounds, CreateTest, CreateInstall, DropIndex, Insert, Delete, PersistStart, PersistVectors,
                PersistOpen, PersistIndex, SaveFails, Crash, LoadIds, LoadVectors
  <2>2. /\ Len(ids') = IF Len(reader.vecs) <= Len(reader.ids) THEN Len(reader.vecs) ELSE Len(reader.ids)
        /\ \A k \in 1..Len(ids') : ids'[k] = reader.ids[k]
    BY <1>1, <2>1, LoadRows
  <2>3. /\ vecs' = reader.vecs /\ deleted' = {}
        /\ size' = (IF Len(reader.ids) < Len(reader.vecs) THEN 0 ELSE Len(reader.vecs))
    BY <2>1 DEF LoadInstall
  <2>4. /\ Len(reader.ids) = 0 \/ Len(reader.ids) = Len(reader.vecs)
        /\ reader.mark.seen = {<<reader.ids[k], reader.vecs[k]>> : k \in 1..Len(reader.ids)}
    BY <1>1, <2>1 DEF LoadInstall, VectorIInv, Reading, Describes
  <2>5. Len(reader.vecs) \in Nat /\ Len(reader.ids) \in Nat
    BY <1>1, IInvTypes
  <2>6. size' = Len(reader.ids) /\ Len(ids') = Len(reader.ids)
    BY <2>2, <2>3, <2>4, <2>5
  <2>7. Visible' = 1..Len(reader.ids)
    BY <2>3, <2>6 DEF Visible
  <2>8. \A k \in 1..Len(reader.ids) : <<ids'[k], vecs'[k]>> = <<reader.ids[k], reader.vecs[k]>>
    BY <2>2, <2>3, <2>6
  <2>9. {Row(k) : k \in Visible}' = {<<ids'[k], vecs'[k]>> : k \in Visible'}
    BY DEF Row
  <2> QED  BY <2>4, <2>7, <2>8, <2>9
<1>2. VectorIInv /\ [Next]_vars => [loads' # loads /\ reader.whole => {Row(k) : k \in Visible}' = reader.mark.seen]_vars
  BY <1>1
<1> QED
  BY <1>2, VectorInvariant, PTL DEF Spec, RoundTrip

=============================================================================
