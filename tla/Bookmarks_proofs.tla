-------------------------- MODULE Bookmarks_proofs --------------------------
(***************************************************************************)
(* Whatever is saved, imported, reordered or deleted, for any paths,       *)
(* identifiers and results.                                                *)
(***************************************************************************)
EXTENDS Bookmarks, FiniteSums, FunctionTheorems, TLAPS

-------------------------------------------------------------------------------
(* Counting *)

\* Those that come before an element, in an order of the set.
Below(S, R, x) == {y \in S : <<y, x>> \in R}

\* What comes before x, in a strict order of all elements, numbers them without
\* gaps or ties.
LEMMA Ranks ==
    ASSUME NEW S, IsFiniteSet(S), NEW R,
           \A x \in S : <<x, x>> \notin R,
           \A x, y \in S : x = y \/ <<x, y>> \in R \/ <<y, x>> \in R,
           \A x, y, z \in S : <<x, y>> \in R /\ <<y, z>> \in R => <<x, z>> \in R
    PROVE  /\ \A x \in S : Cardinality(Below(S, R, x)) \in 0..(Cardinality(S) - 1)
           /\ \A x, y \in S : <<x, y>> \in R
                 <=> Cardinality(Below(S, R, x)) < Cardinality(Below(S, R, y))
           /\ {Cardinality(Below(S, R, x)) : x \in S} = 0..(Cardinality(S) - 1)
<1> DEFINE rank(x) == Cardinality(Below(S, R, x))
<1>1. ASSUME NEW x \in S
      PROVE  rank(x) \in 0..(Cardinality(S) - 1)
  <2>1. Below(S, R, x) \subseteq S \ {x}
    BY DEF Below
  <2>2. IsFiniteSet(S \ {x}) /\ Cardinality(S \ {x}) = Cardinality(S) - 1
    BY FS_RemoveElement
  <2>3. /\ IsFiniteSet(Below(S, R, x)) /\ Cardinality(Below(S, R, x)) \in Nat
        /\ Cardinality(Below(S, R, x)) <= Cardinality(S) - 1
    BY <2>1, <2>2, FS_Subset, FS_CardinalityType
  <2>4. Cardinality(S) \in Nat
    BY FS_CardinalityType
  <2>5. QED
    BY <2>3, <2>4
<1>2. ASSUME NEW x \in S, NEW y \in S, <<x, y>> \in R
      PROVE  rank(x) < rank(y)
  <2>1. Below(S, R, x) \subseteq Below(S, R, y)
    BY <1>2 DEF Below
  <2>2. x \in Below(S, R, y) /\ x \notin Below(S, R, x)
    BY <1>2 DEF Below
  <2>3. IsFiniteSet(Below(S, R, y))
    BY FS_Subset DEF Below
  <2>4. /\ Cardinality(Below(S, R, x)) <= Cardinality(Below(S, R, y))
        /\ Cardinality(Below(S, R, x)) = Cardinality(Below(S, R, y))
               => Below(S, R, x) = Below(S, R, y)
    BY <2>1, <2>3, FS_Subset
  <2>5. rank(x) \in Nat /\ rank(y) \in Nat
    BY <1>1
  <2>6. QED
    BY <2>1, <2>2, <2>4, <2>5
<1>3. \A x, y \in S : <<x, y>> \in R <=> rank(x) < rank(y)
  <2>1. SUFFICES ASSUME NEW x \in S, NEW y \in S, rank(x) < rank(y)
                 PROVE  <<x, y>> \in R
    BY <1>2
  <2>2. rank(x) \in Int /\ rank(y) \in Int
    BY <1>1
  <2>3. x # y /\ <<y, x>> \notin R
    BY <1>2, <2>1, <2>2
  <2>4. QED
    BY <2>3
<1>4. {rank(x) : x \in S} = 0..(Cardinality(S) - 1)
  <2> DEFINE f == [x \in S |-> rank(x)]
             Image == {rank(x) : x \in S}
  <2>1. Image \subseteq 0..(Cardinality(S) - 1)
    BY <1>1
  <2>2. f \in Bijection(S, Image)
    <3>1. f \in [S -> Image] /\ \A z \in Image : \E x \in S : f[x] = z
      OBVIOUS
    <3>2. ASSUME NEW x \in S, NEW y \in S, f[x] = f[y]
          PROVE  x = y
      <4>1. rank(x) = rank(y) /\ rank(x) \in Int
        BY <1>1, <3>2
      <4>2. ~(rank(x) < rank(y)) /\ ~(rank(y) < rank(x))
        BY <4>1
      <4>3. <<x, y>> \notin R /\ <<y, x>> \notin R
        BY <1>2, <4>2
      <4>4. QED
        BY <4>3
    <3>3. IsInjective(f)
      BY <3>2 DEF IsInjective
    <3>4. QED
      BY <3>1, <3>3 DEF Bijection, Injection, Surjection
  <2>3. ExistsBijection(S, Image)
    BY <2>2 DEF ExistsBijection
  <2>4. IsFiniteSet(Image) /\ Cardinality(Image) = Cardinality(S)
    BY <2>3, FS_Bijection
  <2>5. /\ IsFiniteSet(0..(Cardinality(S) - 1)) /\ Cardinality(S) \in Nat
        /\ Cardinality(0..(Cardinality(S) - 1)) = Cardinality(S)
    <3>1. Cardinality(S) \in Nat
      BY FS_CardinalityType
    <3> DEFINE n == Cardinality(S) - 1
    <3>2. n \in Int
      BY <3>1
    <3>3. IsFiniteSet(0..n) /\ Cardinality(0..n) = IF 0 > n THEN 0 ELSE n - 0 + 1
      <4> HIDE DEF n
      <4>1. QED
        BY <3>2, FS_Interval
    <3>4. QED
      BY <3>1, <3>3
  <2> HIDE DEF Image
  <2>6. Image = 0..(Cardinality(S) - 1)
    BY <2>1, <2>4, <2>5, FS_Subset
  <2>7. QED
    BY <2>6 DEF Image
<1>5. QED
  BY <1>1, <1>3, <1>4

-------------------------------------------------------------------------------
(* Sorting *)

\* What the sort finds for each place, and that it finds it.
LEMMA SortIsPermutation ==
    ASSUME NEW h \in Seq(Results)
    PROVE  \E p \in [DOMAIN h -> DOMAIN h] :
              /\ SortHistory(h) = [k \in DOMAIN h |-> h[p[k]]]
              /\ \A k, l \in DOMAIN h : k < l <=> Newer(h, p[k], p[l])
              /\ \A i \in DOMAIN h : \E k \in DOMAIN h : p[k] = i
              /\ Descending(h) => \A k \in DOMAIN h : p[k] = k
<1> DEFINE D == DOMAIN h
           R == {q \in D \X D : Newer(h, q[1], q[2])}
           rank == [i \in D |-> Cardinality({j \in D : Newer(h, j, i)})]
           p == [k \in D |-> CHOOSE i \in D : Cardinality({j \in D : Newer(h, j, i)}) = k - 1]
<1>1. D = 1..Len(h) /\ Len(h) \in Nat
  OBVIOUS
<1>2. \A i \in D : h[i].at \in Nat
  <2>1. \A i \in D : h[i] \in Results
    OBVIOUS
  <2>2. QED
    BY <2>1, NumbersAssumption DEF Results
<1>3. IsFiniteSet(D) /\ Cardinality(D) = Len(h)
  BY <1>1, FS_Interval
<1>4. \A i, j \in D : <<i, j>> \in R <=> Newer(h, i, j)
  OBVIOUS
<1>5. \A i \in D : {j \in D : Newer(h, j, i)} = Below(D, R, i)
  BY <1>4 DEF Below
<1>6. \A i \in D : rank[i] = Cardinality(Below(D, R, i))
  <2> HIDE DEF R
  <2>1. QED
    BY <1>5
<1>7. SortHistory(h) = [k \in D |-> h[p[k]]]
  BY DEF SortHistory
<1>8. \A i, j \in D : i = j \/ <<i, j>> \in R \/ <<j, i>> \in R
  <2>1. SUFFICES ASSUME NEW i \in D, NEW j \in D, i # j
                 PROVE  Newer(h, i, j) \/ Newer(h, j, i)
    <3> HIDE DEF R
    <3>1. QED
      BY <1>4
  <2>2. i \in Nat /\ j \in Nat /\ h[i].at \in Nat /\ h[j].at \in Nat
    BY <1>1, <1>2
  <2>3. QED
    BY <2>1, <2>2 DEF Newer
<1>9. /\ \A i \in D : <<i, i>> \notin R
      /\ \A i, j, k \in D : <<i, j>> \in R /\ <<j, k>> \in R => <<i, k>> \in R
  <2>1. \A i \in D : i \in Nat /\ h[i].at \in Nat
    BY <1>1, <1>2
  <2> HIDE DEF R
  <2>2. \A i \in D : <<i, i>> \notin R
    BY <1>4, <2>1 DEF Newer
  <2>3. ASSUME NEW i \in D, NEW j \in D, NEW k \in D, <<i, j>> \in R, <<j, k>> \in R
        PROVE  <<i, k>> \in R
    <3>1. Newer(h, i, j) /\ Newer(h, j, k)
      BY <1>4, <2>3
    <3>2. Newer(h, i, k)
      BY ONLY <2>1, <2>3, <3>1 DEF Newer
    <3>3. QED
      BY <1>4, <3>2
  <2>4. QED
    BY <2>2, <2>3
<1>10. /\ \A i \in D : rank[i] \in 0..(Len(h) - 1)
       /\ \A i, j \in D : <<i, j>> \in R <=> rank[i] < rank[j]
       /\ \A n \in 0..(Len(h) - 1) : \E i \in D : rank[i] = n
  <2> HIDE DEF D, R
  <2>1. /\ \A i \in D : Cardinality(Below(D, R, i)) \in 0..(Len(h) - 1)
        /\ \A i, j \in D : <<i, j>> \in R
              <=> Cardinality(Below(D, R, i)) < Cardinality(Below(D, R, j))
        /\ {Cardinality(Below(D, R, i)) : i \in D} = 0..(Len(h) - 1)
    BY <1>3, <1>8, <1>9, Ranks
  <2> HIDE DEF rank
  <2>2. QED
    BY <1>6, <2>1
<1>11. \A i \in D : Descending(h) => rank[i] = i - 1
  <2>1. SUFFICES ASSUME NEW i \in D, Descending(h) PROVE rank[i] = i - 1
    OBVIOUS
  <2>2. \A j \in D : <<j, i>> \in R <=> j < i
    <3> HIDE DEF R
    <3>1. QED
      BY <1>1, <1>2, <1>4, <2>1 DEF Newer, Descending
  <2>3. Below(D, R, i) = 1..(i - 1)
    <3> HIDE DEF R
    <3>1. QED
      BY <1>1, <2>2 DEF Below
  <2>4. i \in Nat \ {0}
    BY <1>1
  <2> DEFINE n == i - 1
  <2>5. n \in Nat
    BY <2>4
  <2>6. Cardinality(1..n) = n
    <3> HIDE DEF n
    <3>1. Cardinality(1..n) = IF 1 > n THEN 0 ELSE n - 1 + 1
      BY <2>5, FS_Interval
    <3>2. QED
      BY <2>5, <3>1
  <2>7. QED
    BY <1>6, <2>3, <2>6
<1> HIDE DEF rank, R
<1>12. \A k \in D : p[k] \in D /\ rank[p[k]] = k - 1
  <2>1. \A k \in D : \E i \in D : rank[i] = k - 1
    BY <1>1, <1>10
  <2>2. \A k \in D : \E i \in D : Cardinality({j \in D : Newer(h, j, i)}) = k - 1
    BY <2>1 DEF rank
  <2>3. \A k \in D : p[k] \in D /\ Cardinality({j \in D : Newer(h, j, p[k])}) = k - 1
    BY <2>2
  <2>4. QED
    BY <2>3 DEF rank
<1>13. p \in [D -> D]
  BY <1>12
<1>14. ASSUME NEW i \in D, NEW j \in D, rank[i] = rank[j]
       PROVE  i = j
  <2>1. rank[i] \in Nat /\ ~(rank[i] < rank[j]) /\ ~(rank[j] < rank[i])
    BY <1>10, <1>14
  <2>2. QED
    BY <1>8, <1>10, <2>1
<1> HIDE DEF p
<1>15. \A k, l \in D : k < l <=> Newer(h, p[k], p[l])
  <2>1. SUFFICES ASSUME NEW k \in D, NEW l \in D
                 PROVE  k < l <=> Newer(h, p[k], p[l])
    OBVIOUS
  <2>2. rank[p[k]] = k - 1 /\ rank[p[l]] = l - 1 /\ p[k] \in D /\ p[l] \in D
    BY <1>12
  <2>3. k \in Nat /\ l \in Nat
    BY <1>1
  <2>4. <<p[k], p[l]>> \in R <=> rank[p[k]] < rank[p[l]]
    BY <1>10, <2>2
  <2>5. <<p[k], p[l]>> \in R <=> Newer(h, p[k], p[l])
    BY <1>4, <2>2
  <2>6. QED
    BY <2>2, <2>3, <2>4, <2>5
<1>16. \A i \in D : \E k \in D : p[k] = i
  <2>1. SUFFICES ASSUME NEW i \in D PROVE \E k \in D : p[k] = i
    OBVIOUS
  <2>2. rank[i] \in Nat /\ rank[i] + 1 \in D
    BY <1>1, <1>10
  <2>3. PICK k \in D : k = rank[i] + 1
    BY <2>2
  <2>4. rank[p[k]] = k - 1 /\ p[k] \in D
    BY <1>12
  <2>5. k - 1 = rank[i]
    BY <2>2, <2>3
  <2>6. QED
    BY <1>14, <2>4, <2>5
<1>17. ASSUME Descending(h), NEW k \in D
       PROVE  p[k] = k
  BY <1>11, <1>12, <1>14, <1>17
<1>18. QED
  BY <1>7, <1>13, <1>15, <1>16, <1>17

\* No two results of one timestamp.
Distinct(h) == \A i, j \in DOMAIN h : h[i].at = h[j].at => i = j

\* The timestamps of a history.
Times(h) == {r.at : r \in ToSet(h)}

\* Sorting keeps the results, and what is sorted stays as it is.
LEMMA Sorted ==
    ASSUME NEW h \in Seq(Results)
    PROVE  /\ SortHistory(h) \in Seq(Results)
           /\ SortHistory(h) = <<>> <=> h = <<>>
           /\ ToSet(SortHistory(h)) = ToSet(h)
           /\ Distinct(h) => Descending(SortHistory(h))
           /\ Descending(h) => SortHistory(h) = h
<1> DEFINE D == DOMAIN h
<1>0. \A i \in D : h[i] \in Results
  OBVIOUS
<1>a. \A i \in D : h[i].at \in Nat
  BY <1>0, NumbersAssumption DEF Results
<1>b. D = 1..Len(h) /\ Len(h) \in Nat
  OBVIOUS
<1>1. D = 1..Len(h) /\ Len(h) \in Nat /\ \A i \in D : h[i] \in Results /\ h[i].at \in Nat
  BY <1>0, <1>a, <1>b
<1>2. PICK p \in [D -> D] :
          /\ SortHistory(h) = [k \in D |-> h[p[k]]]
          /\ \A k, l \in D : k < l <=> Newer(h, p[k], p[l])
          /\ \A i \in D : \E k \in D : p[k] = i
          /\ Descending(h) => \A k \in D : p[k] = k
  BY SortIsPermutation
<1>3. SortHistory(h) \in [1..Len(h) -> Results]
  BY <1>1, <1>2
<1>4. SortHistory(h) \in Seq(Results) /\ Len(SortHistory(h)) = Len(h)
  BY <1>1, <1>3
<1>5. ToSet(SortHistory(h)) = ToSet(h)
  <2>1. \A k \in D : p[k] \in D /\ SortHistory(h)[k] = h[p[k]]
    BY <1>2
  <2>2. DOMAIN SortHistory(h) = D
    BY <1>2
  <2>3. QED
    BY <1>2, <2>1, <2>2 DEF ToSet
<1>6. ASSUME Distinct(h), NEW k \in D, NEW l \in D, k < l
      PROVE  SortHistory(h)[k].at > SortHistory(h)[l].at
  <2>1. p[k] \in D /\ p[l] \in D /\ Newer(h, p[k], p[l])
    BY <1>2, <1>6
  <2>2. k \in Nat /\ l \in Nat /\ ~(l < k) /\ ~(k < k)
    BY <1>1, <1>6
  <2>3. ~Newer(h, p[k], p[k])
    BY <1>2, <2>2
  <2>4. p[k] # p[l]
    BY <2>1, <2>3
  <2>5. h[p[k]].at # h[p[l]].at
    BY <1>6, <2>1, <2>4 DEF Distinct
  <2>6. h[p[k]].at > h[p[l]].at
    BY <2>1, <2>5 DEF Newer
  <2>7. QED
    BY <1>2, <2>6
<1>7. Distinct(h) => Descending(SortHistory(h))
  <2>1. DOMAIN SortHistory(h) = D
    BY <1>2
  <2>2. QED
    BY <1>6, <2>1 DEF Descending
<1>8. Descending(h) => SortHistory(h) = h
  <2>1. SUFFICES ASSUME Descending(h) PROVE SortHistory(h) = h
    OBVIOUS
  <2>2. \A k \in D : SortHistory(h)[k] = h[k]
    BY <1>2, <2>1
  <2>3. QED
    BY <1>4, <2>2
<1>9. SortHistory(h) = <<>> <=> h = <<>>
  BY <1>4
<1>10. QED
  BY <1>4, <1>5, <1>7, <1>8, <1>9

\* What is in descending order holds no timestamp twice.
LEMMA DescendingIsDistinct ==
    ASSUME NEW h \in Seq(Results), Descending(h)
    PROVE  Distinct(h)
<1>1. \A i \in DOMAIN h : i \in Nat /\ h[i].at \in Nat
  <2>1. \A i \in DOMAIN h : h[i] \in Results /\ i \in Nat
    OBVIOUS
  <2>2. QED
    BY <2>1, NumbersAssumption DEF Results
<1>2. SUFFICES ASSUME NEW i \in DOMAIN h, NEW j \in DOMAIN h, h[i].at = h[j].at
               PROVE  i = j
  BY DEF Distinct
<1>3. ~(i < j) /\ ~(j < i)
  BY <1>1, <1>2 DEF Descending
<1>4. QED
  BY <1>1, <1>3

-------------------------------------------------------------------------------
(* One bookmark *)

\* What a load makes of one bookmark, but for its number.
Clean(b) == SyncLastResult(Migrate(b))

\* The timestamps of the results a bookmark holds once it is loaded.
Held(b) == Times(Migrate(b).history)
Sound(b) == Distinct(Migrate(b).history)

\* A bookmark as it is after a load.
Tidy(b) == /\ Descending(b.history)
           /\ b.last = IF b.history = <<>> THEN NoResult ELSE Head(b.history)

\* The migration invents nothing.
LEMMA Migrated ==
    ASSUME NEW b \in Bookmark
    PROVE  /\ Migrate(b) \in Bookmark
           /\ Migrate(b).path = b.path /\ Migrate(b).note = b.note /\ Migrate(b).order = b.order
           /\ Migrate(b).last = b.last
           /\ b.history # <<>> \/ b.last = NoResult => Migrate(b) = b
           /\ Migrate(b).history = <<>> => Migrate(b).last = NoResult
<1>1. b.history \in Seq(Results) /\ b.last \in Results \cup {NoResult}
  BY DEF Bookmark
<1>2. CASE b.history = <<>> /\ b.last # NoResult
  <2>1. <<b.last>> \in Seq(Results) /\ <<b.last>> # <<>>
    BY <1>1, <1>2
  <2>2. Migrate(b) = [b EXCEPT !.history = <<b.last>>]
    BY <1>2 DEF Migrate
  <2>3. QED
    BY <1>2, <2>1, <2>2 DEF Bookmark
<1>3. CASE b.history # <<>> \/ b.last = NoResult
  <2>1. Migrate(b) = b
    BY <1>3 DEF Migrate
  <2>2. QED
    BY <1>3, <2>1
<1>4. QED
  BY <1>2, <1>3

\* The last result follows the history.
LEMMA Synced ==
    ASSUME NEW b \in Bookmark
    PROVE  /\ SyncLastResult(b) \in Bookmark
           /\ SyncLastResult(b).path = b.path /\ SyncLastResult(b).note = b.note
           /\ SyncLastResult(b).order = b.order
           /\ SyncLastResult(b).history = SortHistory(b.history)
           /\ SyncLastResult(b).last = IF SortHistory(b.history) = <<>> THEN NoResult
                                       ELSE Head(SortHistory(b.history))
<1>1. b.history \in Seq(Results) /\ SortHistory(b.history) \in Seq(Results)
  BY Sorted DEF Bookmark
<1>2. SortHistory(b.history) # <<>> => Head(SortHistory(b.history)) \in Results
  BY <1>1
<1>3. QED
  BY <1>1, <1>2 DEF SyncLastResult, Bookmark

\* A load keeps path, note and results, and what it leaves stays as it is.
LEMMA Cleaned ==
    ASSUME NEW b \in Bookmark
    PROVE  /\ Clean(b) \in Bookmark
           /\ Clean(b).path = b.path /\ Clean(b).note = b.note /\ Clean(b).order = b.order
           /\ Migrate(Clean(b)) = Clean(b)
           /\ Times(Clean(b).history) = Held(b) /\ Held(Clean(b)) = Held(b)
           /\ Sound(b) => Tidy(Clean(b)) /\ Sound(Clean(b))
           /\ Tidy(b) => Clean(b) = b
<1> DEFINE m == Migrate(b)
           h == SortHistory(m.history)
<1>1. m \in Bookmark /\ m.path = b.path /\ m.note = b.note /\ m.order = b.order
  BY Migrated
<1>2. m.history \in Seq(Results)
  BY <1>1 DEF Bookmark
<1>3. /\ h \in Seq(Results) /\ (h = <<>> <=> m.history = <<>>)
      /\ ToSet(h) = ToSet(m.history) /\ (Distinct(m.history) => Descending(h))
  BY <1>2, Sorted
<1>4. /\ Clean(b) \in Bookmark /\ Clean(b).path = b.path /\ Clean(b).note = b.note
      /\ Clean(b).order = b.order /\ Clean(b).history = h
      /\ Clean(b).last = IF h = <<>> THEN NoResult ELSE Head(h)
  BY <1>1, Synced DEF Clean
<1>5. Migrate(Clean(b)) = Clean(b)
  BY <1>4, Migrated
<1>a. Held(b) = Times(m.history) /\ (Sound(b) <=> Distinct(m.history))
  BY DEF Held, Sound
<1>b. Held(Clean(b)) = Times(Clean(b).history) /\ (Sound(Clean(b)) <=> Distinct(Clean(b).history))
  BY <1>5 DEF Held, Sound
<1>c. Times(h) = Times(m.history)
  <2> HIDE DEF h, m
  <2>1. QED
    BY <1>3 DEF Times
<1>6. Times(Clean(b).history) = Held(b) /\ Held(Clean(b)) = Held(b)
  BY <1>4, <1>a, <1>b, <1>c, Zenon
<1>7. Sound(b) => Tidy(Clean(b)) /\ Sound(Clean(b))
  <2> HIDE DEF h, m
  <2>1. Sound(b) => Descending(h)
    BY <1>3, <1>a
  <2>2. Descending(h) => Distinct(h)
    BY <1>3, DescendingIsDistinct
  <2>3. QED
    BY <1>4, <1>b, <2>1, <2>2 DEF Tidy
<1>8. ASSUME Tidy(b)
      PROVE  Clean(b) = b
  <2>1. m = b
    BY <1>8, Migrated DEF Tidy
  <2>2. h = b.history
    BY <1>2, <1>8, <2>1, Sorted DEF Tidy
  <2>3. Clean(b) = [b EXCEPT !.history = b.history, !.last = b.last]
    BY <1>8, <2>1, <2>2 DEF Clean, SyncLastResult, Tidy
  <2>4. QED
    BY <2>3 DEF Bookmark
<1>9. QED
  BY <1>4, <1>5, <1>6, <1>7, <1>8

\* The number of a bookmark plays no part in this.
LEMMA Numbered ==
    ASSUME NEW b \in Bookmark, NEW n \in Nat
    PROVE  /\ [b EXCEPT !.order = n] \in Bookmark
           /\ [b EXCEPT !.order = n].path = b.path /\ [b EXCEPT !.order = n].note = b.note
           /\ [b EXCEPT !.order = n].order = n /\ [b EXCEPT !.order = n].history = b.history
           /\ [b EXCEPT !.order = n].last = b.last
           /\ Held([b EXCEPT !.order = n]) = Held(b)
           /\ Sound([b EXCEPT !.order = n]) <=> Sound(b)
           /\ Tidy([b EXCEPT !.order = n]) <=> Tidy(b)
<1> DEFINE c == [b EXCEPT !.order = n]
<1>1. /\ c \in Bookmark /\ c.path = b.path /\ c.note = b.note /\ c.order = n
      /\ c.history = b.history /\ c.last = b.last
  BY DEF Bookmark
<1>2. Migrate(c).history = Migrate(b).history
  BY <1>1 DEF Migrate, Bookmark
<1>3. QED
  BY <1>1, <1>2 DEF Held, Sound, Tidy

-------------------------------------------------------------------------------
(* All bookmarks *)

Collection(bs) == DOMAIN bs \subseteq Ids /\ \A id \in DOMAIN bs : bs[id] \in Bookmark

\* One bookmark comes before another.
Precedes(bs, i, j) == Before(Place(bs, i), Place(bs, j))

Complete(bs) == {bs[id].order : id \in DOMAIN bs} = 0..(Cardinality(DOMAIN bs) - 1)

\* The second is the first as a load leaves it.
Kept(b, c) ==
    /\ c \in Bookmark /\ c.path = b.path /\ c.note = b.note
    /\ Held(c) = Held(b)
    /\ Times(c.history) = Held(b)
    /\ Sound(b) => Sound(c) /\ Tidy(c)
    /\ Tidy(b) => [c EXCEPT !.order = 0] = [b EXCEPT !.order = 0]

\* The rank of a bookmark's place counts the bookmarks before it.
LEMMA RankCounts ==
    ASSUME NEW bs, NEW D \in SUBSET DOMAIN bs, IsFiniteSet(D), NEW id \in DOMAIN bs
    PROVE  Rank({Place(bs, i) : i \in D}, Place(bs, id))
              = Cardinality({i \in D : Precedes(bs, i, id)})
<1> DEFINE P == {q \in {Place(bs, i) : i \in D} : Before(q, Place(bs, id))}
           B == {i \in D : Precedes(bs, i, id)}
           f == [i \in B |-> Place(bs, i)]
<1>1. \A i, j \in D : Place(bs, i) = Place(bs, j) => i = j
  BY DEF Place
<1>2. f \in [B -> P]
  BY DEF Precedes
<1>3. \A q \in P : \E i \in B : f[i] = q
  BY DEF Precedes
<1>4. \A i, j \in B : f[i] = f[j] => i = j
  BY <1>1
<1> HIDE DEF f, P
<1>5. f \in Bijection(B, P)
  BY <1>2, <1>3, <1>4 DEF Bijection, Injection, Surjection, IsInjective
<1>6. IsFiniteSet(B)
  BY FS_Subset
<1>7. Cardinality(P) = Cardinality(B)
  <2> HIDE DEF B
  <2>1. ExistsBijection(B, P)
    BY <1>5 DEF ExistsBijection
  <2>2. QED
    BY <1>6, <2>1, FS_Bijection
<1>8. QED
  BY <1>7 DEF Rank, P

\* Numbering is complete, keeps the order there was, and changes nothing else.
LEMMA Renumbered ==
    ASSUME NEW bs, Collection(bs)
    PROVE  /\ DOMAIN Renumber(bs) = DOMAIN bs
           /\ \A id \in DOMAIN bs :
                 /\ Renumber(bs)[id].order \in 0..(Cardinality(DOMAIN bs) - 1)
                 /\ Renumber(bs)[id] = [bs[id] EXCEPT !.order = Renumber(bs)[id].order]
           /\ \A i, j \in DOMAIN bs :
                 Precedes(bs, i, j) <=> Renumber(bs)[i].order < Renumber(bs)[j].order
           /\ Complete(Renumber(bs))
<1> DEFINE D == DOMAIN bs
           R == {q \in D \X D : Precedes(bs, q[1], q[2])}
           n == [id \in D |-> Cardinality({i \in D : Precedes(bs, i, id)})]
<1>1. IsFiniteSet(D) /\ \A i \in D : i \in Nat /\ bs[i].order \in Nat
  BY NumbersAssumption, FS_Subset DEF Collection, Bookmark
<1>2. \A i, j \in D : <<i, j>> \in R <=> Precedes(bs, i, j)
  OBVIOUS
<1>3. \A id \in D : {i \in D : Precedes(bs, i, id)} = Below(D, R, id)
  BY <1>2 DEF Below
<1>4. \A id \in D : n[id] = Cardinality(Below(D, R, id))
  <2> HIDE DEF R
  <2>1. QED
    BY <1>3
<1>5. DOMAIN Renumber(bs) = D /\ \A id \in D : Renumber(bs)[id] = [bs[id] EXCEPT !.order = n[id]]
  <2>1. \A id \in D : Rank({Place(bs, i) : i \in D}, Place(bs, id)) = n[id]
    BY <1>1, RankCounts
  <2>2. \A id \in D : Place(bs, id) = <<bs[id].order, id>>
    BY DEF Place
  <2>3. QED
    BY <2>1, <2>2 DEF Renumber
<1>6. \A i, j \in D : i = j \/ <<i, j>> \in R \/ <<j, i>> \in R
  <2>1. SUFFICES ASSUME NEW i \in D, NEW j \in D, i # j
                 PROVE  Precedes(bs, i, j) \/ Precedes(bs, j, i)
    <3> HIDE DEF R
    <3>1. QED
      BY <1>2
  <2>2. i \in Nat /\ j \in Nat /\ bs[i].order \in Nat /\ bs[j].order \in Nat
    BY <1>1
  <2>3. QED
    BY <2>1, <2>2 DEF Precedes, Before, Place
<1>7. /\ \A i \in D : <<i, i>> \notin R
      /\ \A i, j, k \in D : <<i, j>> \in R /\ <<j, k>> \in R => <<i, k>> \in R
  <2> HIDE DEF R
  <2>1. QED
    BY <1>1, <1>2 DEF Precedes, Before, Place
<1>8. /\ \A id \in D : Cardinality(Below(D, R, id)) \in 0..(Cardinality(D) - 1)
      /\ \A i, j \in D : <<i, j>> \in R
            <=> Cardinality(Below(D, R, i)) < Cardinality(Below(D, R, j))
      /\ {Cardinality(Below(D, R, id)) : id \in D} = 0..(Cardinality(D) - 1)
  <2> HIDE DEF D, R
  <2>1. QED
    BY <1>1, <1>6, <1>7, Ranks
<1> HIDE DEF n, R
<1>9. /\ \A id \in D : n[id] \in 0..(Cardinality(D) - 1)
      /\ \A i, j \in D : Precedes(bs, i, j) <=> n[i] < n[j]
      /\ {n[id] : id \in D} = 0..(Cardinality(D) - 1)
  BY <1>2, <1>4, <1>8
<1>10. \A id \in D : Renumber(bs)[id].order = n[id]
  BY <1>5 DEF Collection, Bookmark
<1>11. {Renumber(bs)[id].order : id \in DOMAIN Renumber(bs)} = {n[id] : id \in D}
  BY <1>5, <1>10
<1>12. Complete(Renumber(bs))
  BY <1>5, <1>9, <1>11 DEF Complete
<1>13. QED
  BY <1>5, <1>9, <1>10, <1>12

\* A load and a save keep the bookmarks and their results, put every history in
\* order, and number the bookmarks as they were ordered.
LEMMA Normalized ==
    ASSUME NEW bs, Collection(bs)
    PROVE  /\ Collection(Normalize(bs)) /\ DOMAIN Normalize(bs) = DOMAIN bs
           /\ \A id \in DOMAIN bs :
                 /\ Normalize(bs)[id].order \in 0..(Cardinality(DOMAIN bs) - 1)
                 /\ Kept(bs[id], Normalize(bs)[id])
           /\ \A i, j \in DOMAIN bs :
                 Precedes(bs, i, j) <=> Normalize(bs)[i].order < Normalize(bs)[j].order
           /\ Complete(Normalize(bs))
<1> DEFINE cs == [id \in DOMAIN bs |-> Clean(bs[id])]
           ns == Renumber(cs)
<1>1. Normalize(bs) = ns
  BY DEF Normalize, Clean
<1>2. \A id \in DOMAIN bs : bs[id] \in Bookmark /\ cs[id] = Clean(bs[id])
  BY DEF Collection
<1>3. Collection(cs) /\ DOMAIN cs = DOMAIN bs
  BY <1>2, Cleaned DEF Collection
<1>4. \A i, j \in DOMAIN bs : Precedes(cs, i, j) <=> Precedes(bs, i, j)
  <2>1. \A i \in DOMAIN bs : cs[i].order = bs[i].order
    BY <1>2, Cleaned
  <2>2. QED
    BY <2>1 DEF Precedes, Before, Place
<1> HIDE DEF cs
<1>5. /\ DOMAIN ns = DOMAIN bs
      /\ \A id \in DOMAIN bs : /\ ns[id].order \in 0..(Cardinality(DOMAIN bs) - 1)
                               /\ ns[id] = [cs[id] EXCEPT !.order = ns[id].order]
      /\ \A i, j \in DOMAIN bs : Precedes(cs, i, j) <=> ns[i].order < ns[j].order
      /\ Complete(ns)
  BY <1>3, Renumbered
<1> HIDE DEF ns
<1>6. ASSUME NEW id \in DOMAIN bs
      PROVE  Kept(bs[id], ns[id])
  <2> DEFINE b == bs[id]  c == cs[id]  k == ns[id].order
  <2>1. /\ c \in Bookmark /\ b \in Bookmark /\ c = Clean(b)
        /\ k \in Nat /\ ns[id] = [c EXCEPT !.order = k]
    BY <1>2, <1>3, <1>5 DEF Collection
  <2> HIDE DEF b, c, k
  <2>2. /\ ns[id] \in Bookmark /\ ns[id].path = c.path /\ ns[id].note = c.note
        /\ ns[id].history = c.history
        /\ Held(ns[id]) = Held(c) /\ (Sound(ns[id]) <=> Sound(c)) /\ (Tidy(ns[id]) <=> Tidy(c))
    BY <2>1, Numbered
  <2>3. /\ c.path = b.path /\ c.note = b.note /\ Times(c.history) = Held(b) /\ Held(c) = Held(b)
        /\ (Sound(b) => Tidy(c) /\ Sound(c)) /\ (Tidy(b) => c = b)
    BY <2>1, Cleaned
  <2>4. [ns[id] EXCEPT !.order = 0] = [c EXCEPT !.order = 0]
    BY <2>1 DEF Bookmark
  <2>5. Kept(b, ns[id])
    BY <2>2, <2>3, <2>4 DEF Kept
  <2>6. QED
    BY <2>5 DEF b
<1>7. Collection(ns)
  BY <1>5, <1>6 DEF Collection, Kept
<1>8. QED
  BY <1>1, <1>4, <1>5, <1>6, <1>7

-------------------------------------------------------------------------------
(* Folds *)

\* A set of the first n numbers has a greatest one.
LEMMA Greatest ==
    ASSUME NEW n \in Nat, NEW s \in SUBSET (1..n), s # {}
    PROVE  Max(s) \in s /\ \A y \in s : y <= Max(s)
<1> DEFINE T == {n - y : y \in s}
<1>a. \A y \in s : y \in 1..n /\ n - y \in Nat
  OBVIOUS
<1>1. T \subseteq Nat /\ T # {}
  BY <1>a
<1>2. PICK t \in T : \A u \in T : t <= u
  <2> HIDE DEF T
  <2>1. QED
    BY <1>1, Least
<1>3. PICK x \in s : t = n - x
  BY <1>2
<1>4. \A y \in s : x >= y
  <2>1. SUFFICES ASSUME NEW y \in s PROVE x >= y
    OBVIOUS
  <2>2. n - y \in T
    OBVIOUS
  <2>3. n - x <= n - y
    BY <1>2, <1>3, <2>2
  <2>4. QED
    BY <2>3
<1>5. Max(s) \in s /\ \A y \in s : Max(s) >= y
  BY <1>4 DEF Max
<1>6. QED
  BY <1>5

\* The step F leads from what holds of the elements before the k-th to what holds
\* of them and the k-th.
Steps(n, X, F, seq) ==
    \A s \in SUBSET (1..n), k \in 1..n :
       (\A i \in s : i < k) => \A x \in X[s] : F[<<x, seq[k]>>] \in X[s \cup {k}]

HasFold(n, X, F, base, seq) ==
    \E it : /\ it = [s \in SUBSET (1..n) |-> it[s]]
            /\ it[{}] = base
            /\ \A s \in SUBSET (1..n) :
                  /\ s # {} => it[s] = F[<<it[s \ {Max(s)}], seq[Max(s)]>>]
                  /\ it[s] \in X[s]

\* The recursion of a fold has a solution.
LEMMA FoldExists ==
    ASSUME NEW n \in Nat, NEW X, NEW F, NEW base \in X[{}], NEW seq, Steps(n, X, F, seq)
    PROVE  HasFold(n, X, F, base, seq)
<1> DEFINE Solves(k, it) ==
              /\ it = [s \in SUBSET (1..k) |-> it[s]]
              /\ it[{}] = base
              /\ \A s \in SUBSET (1..k) :
                    /\ s # {} => it[s] = F[<<it[s \ {Max(s)}], seq[Max(s)]>>]
                    /\ it[s] \in X[s]
           Unsolved == {k \in 0..n : \A it : ~Solves(k, it)}
<1>1. Unsolved = {} => \E it : Solves(n, it)
  <2> HIDE DEF Solves
  <2>1. n \in 0..n
    OBVIOUS
  <2>2. QED
    BY <2>1
<1>2. SUFFICES ASSUME Unsolved # {} PROVE FALSE
  BY <1>1 DEF HasFold
<1>3. PICK k \in Unsolved : \A j \in Unsolved : k <= j
  <2>1. Unsolved \subseteq Nat
    OBVIOUS
  <2> HIDE DEF Unsolved
  <2>2. QED
    BY <1>2, <2>1, Least
<1>4. CASE k = 0
  <2> DEFINE it == [s \in SUBSET (1..0) |-> base]
  <2>1. SUBSET (1..0) = {{}}
    OBVIOUS
  <2>2. Solves(0, it)
    BY <2>1
  <2>3. QED
    BY <1>3, <1>4, <2>2
<1>5. CASE k # 0
  <2>1. k \in 1..n /\ k - 1 \in 0..n /\ k - 1 \in Nat /\ k \in Nat
    BY <1>3, <1>5
  <2>2. k - 1 \notin Unsolved
    <3> HIDE DEF Unsolved
    <3>1. ~(k <= k - 1)
      BY <2>1
    <3>2. QED
      BY <1>3, <3>1
  <2>3. PICK old : Solves(k - 1, old)
    BY <2>1, <2>2
  <2> DEFINE it == [s \in SUBSET (1..k) |->
                       IF k \in s THEN F[<<old[s \ {k}], seq[k]>>] ELSE old[s]]
  <2>4. ASSUME NEW s \in SUBSET (1..k), k \notin s
        PROVE  s \in SUBSET (1..(k - 1))
    BY <2>1, <2>4
  <2>5. ASSUME NEW s \in SUBSET (1..k), k \in s
        PROVE  /\ s \ {k} \in SUBSET (1..(k - 1)) /\ (s \ {k}) \cup {k} = s
               /\ Max(s) = k /\ s \ {k} \in SUBSET (1..k) /\ k \notin s \ {k}
    <3>1. Max(s) \in s /\ \A y \in s : y <= Max(s)
      BY <2>1, <2>5, Greatest
    <3>2. Max(s) \in 1..k /\ k <= Max(s)
      BY <2>5, <3>1
    <3>3. Max(s) = k
      BY <2>1, <3>2
    <3>4. QED
      BY <2>1, <2>5, <3>3
  <2>6. ASSUME NEW s \in SUBSET (1..k)
        PROVE  /\ it[s] = IF s = {} THEN base ELSE F[<<it[s \ {Max(s)}], seq[Max(s)]>>]
               /\ it[s] \in X[s]
    <3>1. CASE k \in s
      <4>1. it[s \ {k}] = old[s \ {k}] /\ old[s \ {k}] \in X[s \ {k}]
        BY <2>3, <2>5, <3>1
      <4>2. it[s] = F[<<old[s \ {k}], seq[k]>>]
        BY <3>1
      <4>3. \A i \in s \ {k} : i < k
        BY <2>1, <2>5, <3>1
      <4>4. s \ {k} \in SUBSET (1..n)
        BY <2>1, <2>5, <3>1
      <4>5. F[<<old[s \ {k}], seq[k]>>] \in X[(s \ {k}) \cup {k}]
        BY <2>1, <4>1, <4>3, <4>4 DEF Steps
      <4> HIDE DEF it
      <4>6. QED
        BY <2>5, <3>1, <4>1, <4>2, <4>5
    <3>2. CASE k \notin s
      <4>1. s \in SUBSET (1..(k - 1)) /\ it[s] = old[s]
        BY <2>4, <3>2
      <4>2. /\ old[s] = IF s = {} THEN base ELSE F[<<old[s \ {Max(s)}], seq[Max(s)]>>]
            /\ old[s] \in X[s]
        BY <2>3, <4>1
      <4>3. s # {} => it[s \ {Max(s)}] = old[s \ {Max(s)}]
        BY <3>2
      <4> HIDE DEF it
      <4>4. QED
        BY <4>1, <4>2, <4>3
    <3>3. QED
      BY <3>1, <3>2
  <2>7. it = [s \in SUBSET (1..k) |-> it[s]]
    OBVIOUS
  <2> HIDE DEF it
  <2>8. Solves(k, it)
    <3>1. it[{}] = base
      BY <2>6
    <3>2. QED
      BY <2>6, <2>7, <3>1
  <2>9. QED
    BY <1>3, <2>8
<1>6. QED
  BY <1>4, <1>5

\* What every step of a fold keeps holds of the whole.
LEMMA FoldValue ==
    ASSUME NEW n \in Nat, NEW X, NEW it, it[{}] \in X[{}],
           \A s \in SUBSET (1..n) :
              s # {} /\ it[s \ {Max(s)}] \in X[s \ {Max(s)}] => it[s] \in X[s]
    PROVE  it[1..n] \in X[1..n]
<1> DEFINE Wrong == {k \in 0..n : it[1..k] \notin X[1..k]}
<1>1. SUFFICES ASSUME Wrong # {} PROVE FALSE
  OBVIOUS
<1>2. PICK k \in Wrong : \A j \in Wrong : k <= j
  <2>1. Wrong \subseteq Nat
    OBVIOUS
  <2> HIDE DEF Wrong
  <2>2. QED
    BY <1>1, <2>1, Least
<1>3. k # 0
  <2>1. 1..0 = {}
    OBVIOUS
  <2>2. QED
    BY <1>2, <2>1
<1>4. k \in 1..n /\ k - 1 \in 0..n /\ k \in Nat
  BY <1>2, <1>3
<1>5. it[1..(k - 1)] \in X[1..(k - 1)]
  BY <1>2, <1>4
<1>6. 1..k \in SUBSET (1..n) /\ 1..k # {} /\ k \in 1..k
  BY <1>4
<1>7. Max(1..k) = k
  <2>1. Max(1..k) \in 1..k /\ \A y \in 1..k : y <= Max(1..k)
    BY <1>4, <1>6, Greatest
  <2>2. QED
    BY <1>4, <1>6, <2>1
<1>8. (1..k) \ {k} = 1..(k - 1)
  BY <1>4
<1>9. QED
  BY <1>2, <1>5, <1>6, <1>7, <1>8

-------------------------------------------------------------------------------
(* Histories *)

\* A result is added, or takes the place of the one of its timestamp.
LEMMA Appended ==
    ASSUME NEW h \in Seq(Results), Distinct(h), NEW r \in Results
    PROVE  /\ AppendOrUpdate(h, r) \in Seq(Results)
           /\ Distinct(AppendOrUpdate(h, r))
           /\ Times(AppendOrUpdate(h, r)) = Times(h) \cup {r.at}
<1> DEFINE same == {i \in DOMAIN h : h[i].at = r.at}
           first == CHOOSE i \in same : \A j \in same : i <= j
           g == IF same = {} THEN Append(h, r) ELSE [h EXCEPT ![first] = r]
<1>1. AppendOrUpdate(h, r) = SortHistory(g)
  BY DEF AppendOrUpdate
<1>2. g \in Seq(Results) /\ Distinct(g) /\ Times(g) = Times(h) \cup {r.at}
  <2>1. CASE same = {}
    <3>1. g = Append(h, r) /\ \A i \in DOMAIN h : h[i].at # r.at
      BY <2>1
    <3>2. /\ Append(h, r) \in Seq(Results) /\ DOMAIN Append(h, r) = DOMAIN h \cup {Len(h) + 1}
          /\ Append(h, r)[Len(h) + 1] = r /\ Len(h) + 1 \notin DOMAIN h
          /\ \A i \in DOMAIN h : Append(h, r)[i] = h[i]
      OBVIOUS
    <3>3. Distinct(Append(h, r))
      BY <3>1, <3>2 DEF Distinct
    <3>4. ToSet(Append(h, r)) = ToSet(h) \cup {r}
      BY <3>2 DEF ToSet
    <3>5. Times(Append(h, r)) = Times(h) \cup {r.at}
      BY <3>4 DEF Times
    <3>6. QED
      BY <3>1, <3>2, <3>3, <3>5
  <2>2. CASE same # {}
    <3>1. first \in same
      <4>1. same \subseteq Nat
        OBVIOUS
      <4>2. \E i \in same : \A j \in same : i <= j
        <5> HIDE DEF same
        <5>1. QED
          BY <2>2, <4>1, Least
      <4> HIDE DEF same
      <4>3. QED
        BY <4>2
    <3>2. first \in DOMAIN h /\ h[first].at = r.at /\ g = [h EXCEPT ![first] = r]
      BY <2>2, <3>1
    <3> HIDE DEF g, first, same
    <3>3. /\ g \in Seq(Results) /\ DOMAIN g = DOMAIN h /\ g[first] = r
          /\ \A i \in DOMAIN h : i # first => g[i] = h[i]
      BY <3>2
    <3>4. \A i \in DOMAIN h : g[i].at = h[i].at
      BY <3>2, <3>3
    <3>5. Distinct(g)
      BY <3>3, <3>4 DEF Distinct
    <3>6. Times(g) = {g[i].at : i \in DOMAIN g} /\ Times(h) = {h[i].at : i \in DOMAIN h}
      BY DEF Times, ToSet
    <3>7. Times(g) = Times(h)
      BY <3>3, <3>4, <3>6
    <3>8. r.at \in Times(h)
      BY <3>2, <3>6
    <3>9. QED
      BY <3>3, <3>5, <3>7, <3>8
  <2>3. QED
    BY <2>1, <2>2
<1> HIDE DEF g
<1>3. /\ SortHistory(g) \in Seq(Results) /\ ToSet(SortHistory(g)) = ToSet(g)
      /\ Descending(SortHistory(g))
  BY <1>2, Sorted
<1>4. Distinct(SortHistory(g))
  BY <1>3, DescendingIsDistinct
<1>5. Times(SortHistory(g)) = Times(g)
  BY <1>3 DEF Times
<1>6. QED
  BY <1>1, <1>2, <1>3, <1>4, <1>5

\* The same for many results, one after the other.
LEMMA AppendedAll ==
    ASSUME NEW h \in Seq(Results), Distinct(h), NEW rs \in Seq(Results)
    PROVE  /\ FoldLeft(AppendOrUpdate, h, rs) \in Seq(Results)
           /\ Distinct(FoldLeft(AppendOrUpdate, h, rs))
           /\ Times(FoldLeft(AppendOrUpdate, h, rs)) = Times(h) \cup Times(rs)
<1> DEFINE n == Len(rs)
           X == [s \in SUBSET (1..n) |->
                   {g \in Seq(Results) : /\ Distinct(g)
                                         /\ Times(g) = Times(h) \cup {rs[i].at : i \in s}}]
           F == [q \in Seq(Results) \X Results |-> AppendOrUpdate(q[1], q[2])]
           Solves(it) == it = [s \in SUBSET DOMAIN rs |->
                                 IF s = {} THEN h
                                 ELSE AppendOrUpdate(it[s \ {Max(s)}], rs[Max(s)])]
           it == CHOOSE it : Solves(it)
<1>1. n \in Nat /\ DOMAIN rs = 1..n /\ \A i \in 1..n : rs[i] \in Results
  OBVIOUS
<1>2. FoldLeft(AppendOrUpdate, h, rs) = it[DOMAIN rs]
  BY DEF FoldLeft, MapThenFoldSet
<1>3. h \in X[{}]
  OBVIOUS
<1>4. ASSUME NEW s \in SUBSET (1..n), NEW k \in 1..n, NEW g \in X[s]
      PROVE  AppendOrUpdate(g, rs[k]) \in X[s \cup {k}] /\ g \in Seq(Results)
  <2>1. g \in Seq(Results) /\ Distinct(g) /\ Times(g) = Times(h) \cup {rs[i].at : i \in s}
    OBVIOUS
  <2>2. /\ AppendOrUpdate(g, rs[k]) \in Seq(Results) /\ Distinct(AppendOrUpdate(g, rs[k]))
        /\ Times(AppendOrUpdate(g, rs[k])) = Times(g) \cup {rs[k].at}
    BY <1>1, <2>1, Appended
  <2>3. {rs[i].at : i \in s} \cup {rs[k].at} = {rs[i].at : i \in s \cup {k}}
    OBVIOUS
  <2>4. s \cup {k} \in SUBSET (1..n)
    OBVIOUS
  <2>5. QED
    BY <2>1, <2>2, <2>3, <2>4
<1>5. ASSUME NEW s \in SUBSET (1..n), s # {}
      PROVE  /\ Max(s) \in 1..n /\ s \ {Max(s)} \in SUBSET (1..n)
             /\ (s \ {Max(s)}) \cup {Max(s)} = s
  BY <1>1, <1>5, Greatest
<1> HIDE DEF X, n
<1>6. \E i : Solves(i)
  <2>1. \A g \in Seq(Results), r \in Results : F[<<g, r>>] = AppendOrUpdate(g, r)
    OBVIOUS
  <2> HIDE DEF F
  <2>2. Steps(n, X, F, rs)
    <3>1. SUFFICES ASSUME NEW s \in SUBSET (1..n), NEW k \in 1..n, NEW g \in X[s]
                   PROVE  F[<<g, rs[k]>>] \in X[s \cup {k}]
      BY DEF Steps
    <3>2. AppendOrUpdate(g, rs[k]) \in X[s \cup {k}] /\ g \in Seq(Results)
      BY <1>4
    <3>3. QED
      BY <1>1, <2>1, <3>2
  <2>3. PICK i : /\ i = [s \in SUBSET (1..n) |-> i[s]]
                 /\ i[{}] = h
                 /\ \A s \in SUBSET (1..n) :
                       /\ s # {} => i[s] = F[<<i[s \ {Max(s)}], rs[Max(s)]>>]
                       /\ i[s] \in X[s]
    <3>1. HasFold(n, X, F, h, rs)
      BY <1>1, <1>3, <2>2, FoldExists
    <3>2. QED
      BY <3>1 DEF HasFold
  <2>4. ASSUME NEW s \in SUBSET (1..n), s # {}
        PROVE  F[<<i[s \ {Max(s)}], rs[Max(s)]>>] = AppendOrUpdate(i[s \ {Max(s)}], rs[Max(s)])
    <3>1. Max(s) \in 1..n /\ s \ {Max(s)} \in SUBSET (1..n)
      BY <1>5, <2>4
    <3>2. i[s \ {Max(s)}] \in X[s \ {Max(s)}]
      BY <2>3, <3>1
    <3>3. i[s \ {Max(s)}] \in Seq(Results) /\ rs[Max(s)] \in Results
      BY <1>1, <1>4, <3>1, <3>2
    <3>4. QED
      BY <2>1, <3>3
  <2>5. i = [s \in SUBSET (1..n) |-> IF s = {} THEN h
                                     ELSE AppendOrUpdate(i[s \ {Max(s)}], rs[Max(s)])]
    BY <2>3, <2>4
  <2>6. Solves(i)
    BY <1>1, <2>5
  <2>7. QED
    BY <2>6
<1>7. Solves(it)
  BY <1>6
<1> HIDE DEF it
<1>8. it[1..n] \in X[1..n]
  <2>1. it[{}] = h
    BY <1>7
  <2>2. ASSUME NEW s \in SUBSET (1..n), s # {}, it[s \ {Max(s)}] \in X[s \ {Max(s)}]
        PROVE  it[s] \in X[s]
    <3>1. it[s] = AppendOrUpdate(it[s \ {Max(s)}], rs[Max(s)])
      BY <1>1, <1>7, <2>2
    <3>2. Max(s) \in 1..n /\ s \ {Max(s)} \in SUBSET (1..n)
      BY <1>5, <2>2
    <3>3. AppendOrUpdate(it[s \ {Max(s)}], rs[Max(s)]) \in X[(s \ {Max(s)}) \cup {Max(s)}]
      BY <1>4, <2>2, <3>2
    <3>4. (s \ {Max(s)}) \cup {Max(s)} = s
      BY <1>5, <2>2
    <3>5. QED
      BY <3>1, <3>3, <3>4
  <2>3. QED
    BY <1>1, <1>3, <2>1, <2>2, FoldValue
<1>9. it[1..n] \in {g \in Seq(Results) : /\ Distinct(g)
                                         /\ Times(g) = Times(h) \cup {rs[i].at : i \in 1..n}}
  BY <1>8 DEF X
<1>10. Times(rs) = {rs[i].at : i \in 1..n}
  BY <1>1 DEF Times, ToSet
<1>11. QED
  BY <1>1, <1>2, <1>9, <1>10

-------------------------------------------------------------------------------
(* What is saved *)

\* Bookmarks of one path are those an older version had.
OnePath(bs) ==
    \A i, j \in DOMAIN bs : i # j /\ Fold[bs[i].path] = Fold[bs[j].path] => <<i, j>> \in doubled

Good(bs) == Collection(bs) /\ OnePath(bs) /\ \A id \in DOMAIN bs : Sound(bs[id])

\* The ledger's entries of one bookmark, and of all.
Rec(id, b) == {<<Fold[b.path], id, at>> : at \in Held(b)}
Recorded(bs) == UNION {Rec(id, bs[id]) : id \in DOMAIN bs}

BookInv == Good(stored) /\ ledger = Recorded(stored) /\ doubled \in SUBSET (OldIds \X OldIds)

\* Keeping a bookmark keeps what it is found by.
LEMMA KeptAll ==
    ASSUME NEW bs, NEW cs, DOMAIN cs = DOMAIN bs, Good(bs),
           \A id \in DOMAIN bs : Kept(bs[id], cs[id])
    PROVE  /\ Good(cs) /\ Recorded(cs) = Recorded(bs)
           /\ \A id \in DOMAIN bs : Tidy(cs[id])
<1>1. \A id \in DOMAIN bs : /\ cs[id] \in Bookmark /\ cs[id].path = bs[id].path
                            /\ Sound(cs[id]) /\ Tidy(cs[id]) /\ Rec(id, cs[id]) = Rec(id, bs[id])
  <2>1. SUFFICES ASSUME NEW id \in DOMAIN bs
                 PROVE  /\ cs[id] \in Bookmark /\ cs[id].path = bs[id].path
                        /\ Sound(cs[id]) /\ Tidy(cs[id]) /\ Rec(id, cs[id]) = Rec(id, bs[id])
    OBVIOUS
  <2>2. Kept(bs[id], cs[id]) /\ Sound(bs[id])
    BY DEF Good
  <2>3. /\ cs[id] \in Bookmark /\ cs[id].path = bs[id].path /\ Held(cs[id]) = Held(bs[id])
        /\ Sound(cs[id]) /\ Tidy(cs[id])
    BY <2>2 DEF Kept
  <2>4. QED
    BY <2>3 DEF Rec
<1>2. Recorded(cs) = Recorded(bs)
  BY <1>1 DEF Recorded
<1>3. QED
  BY <1>1, <1>2 DEF Good, Collection, OnePath

\* Two loads keep what one keeps.
LEMMA KeptTwice ==
    ASSUME NEW b \in Bookmark, NEW c, NEW d, Kept(b, c), Kept(c, d)
    PROVE  Kept(b, d)
<1>1. ASSUME Tidy(b)
      PROVE  [d EXCEPT !.order = 0] = [b EXCEPT !.order = 0]
  <2>1. [c EXCEPT !.order = 0] = [b EXCEPT !.order = 0] /\ c \in Bookmark
    BY <1>1 DEF Kept
  <2>2. Tidy([b EXCEPT !.order = 0]) /\ (Tidy([c EXCEPT !.order = 0]) <=> Tidy(c))
    BY <1>1, <2>1, Numbered
  <2>3. Tidy(c)
    BY <2>1, <2>2
  <2>4. QED
    BY <2>1, <2>3 DEF Kept
<1>2. QED
  BY <1>1 DEF Kept

\* Any two bookmarks are ordered.
LEMMA Ordered ==
    ASSUME NEW bs, Collection(bs), NEW i \in DOMAIN bs, NEW j \in DOMAIN bs
    PROVE  /\ i = j \/ Precedes(bs, i, j) \/ Precedes(bs, j, i)
           /\ ~(Precedes(bs, i, j) /\ Precedes(bs, j, i))
           /\ bs[i].order < bs[j].order => Precedes(bs, i, j)
<1>1. i \in Nat /\ j \in Nat /\ bs[i].order \in Nat /\ bs[j].order \in Nat
  BY NumbersAssumption DEF Collection, Bookmark
<1>2. QED
  BY <1>1 DEF Precedes, Before, Place

\* What is written is what was to be saved, cleaned and numbered.
LEMMA Persisted ==
    ASSUME NEW bs, Collection(bs), Persist(bs)
    PROVE  /\ Collection(stored') /\ DOMAIN stored' = DOMAIN bs
           /\ \A id \in DOMAIN bs : Kept(bs[id], stored'[id])
           /\ \A i, j \in DOMAIN bs : Precedes(bs, i, j) <=> stored'[i].order < stored'[j].order
           /\ Complete(stored') /\ doubled' = doubled
<1> DEFINE once == Normalize(bs)  twice == Normalize(once)
<1>1. /\ Collection(once) /\ DOMAIN once = DOMAIN bs
      /\ \A id \in DOMAIN bs : Kept(bs[id], once[id])
      /\ \A i, j \in DOMAIN bs : Precedes(bs, i, j) <=> once[i].order < once[j].order
  BY Normalized
<1> HIDE DEF once
<1>2. /\ Collection(twice) /\ DOMAIN twice = DOMAIN bs
      /\ \A id \in DOMAIN bs : Kept(once[id], twice[id])
      /\ \A i, j \in DOMAIN bs : Precedes(once, i, j) <=> twice[i].order < twice[j].order
      /\ Complete(twice)
  BY <1>1, Normalized
<1> HIDE DEF twice
<1>3. \A id \in DOMAIN bs : Kept(bs[id], twice[id])
  BY <1>1, <1>2, KeptTwice DEF Collection
<1>4. ASSUME NEW i \in DOMAIN bs, NEW j \in DOMAIN bs
      PROVE  Precedes(bs, i, j) <=> Precedes(once, i, j)
  <2>1. Precedes(bs, i, j) => Precedes(once, i, j)
    BY <1>1, Ordered
  <2>2. Precedes(bs, j, i) => Precedes(once, j, i)
    BY <1>1, Ordered
  <2>3. /\ i = j \/ Precedes(bs, i, j) \/ Precedes(bs, j, i)
        /\ ~(Precedes(once, i, j) /\ Precedes(once, j, i))
    BY <1>1, Ordered
  <2>4. i = j => ~Precedes(bs, i, j) /\ ~Precedes(once, i, j)
    BY <1>1, Ordered
  <2>5. QED
    BY <2>1, <2>2, <2>3, <2>4
<1>5. stored' = twice /\ doubled' = doubled
  BY DEF Persist, once, twice
<1>6. QED
  BY <1>2, <1>3, <1>4, <1>5

\* Saving what is good, with the ledger of it, keeps the invariant.
LEMMA Saved ==
    ASSUME NEW bs, Good(bs), Persist(bs), ledger' = Recorded(bs),
           doubled \in SUBSET (OldIds \X OldIds)
    PROVE  BookInv'
<1>1. /\ DOMAIN stored' = DOMAIN bs /\ doubled' = doubled
      /\ \A id \in DOMAIN bs : Kept(bs[id], stored'[id])
  BY Persisted DEF Good
<1>2. Good(stored') /\ Recorded(stored') = Recorded(bs)
  BY <1>1, KeptAll
<1>3. QED
  BY <1>1, <1>2 DEF BookInv, Good, Collection, OnePath, Recorded

\* What is loaded is good and tidy, and is what was saved.
LEMMA IsLoaded ==
    ASSUME BookInv
    PROVE  /\ Good(Loaded) /\ Complete(Loaded) /\ DOMAIN Loaded = DOMAIN stored
           /\ Recorded(Loaded) = ledger
           /\ \A id \in DOMAIN stored : /\ Tidy(Loaded[id]) /\ Loaded[id] \in Bookmark
                                        /\ Loaded[id].path = stored[id].path
                                        /\ Kept(stored[id], Loaded[id])
           /\ \A i, j \in DOMAIN stored :
                 Precedes(stored, i, j) <=> Loaded[i].order < Loaded[j].order
<1>1. /\ DOMAIN Loaded = DOMAIN stored /\ Complete(Loaded)
      /\ \A id \in DOMAIN stored : Kept(stored[id], Loaded[id])
      /\ \A i, j \in DOMAIN stored :
            Precedes(stored, i, j) <=> Loaded[i].order < Loaded[j].order
  BY Normalized DEF BookInv, Good, Loaded
<1>2. /\ Good(Loaded) /\ Recorded(Loaded) = Recorded(stored)
      /\ \A id \in DOMAIN stored : Tidy(Loaded[id])
  BY <1>1, KeptAll DEF BookInv
<1>3. QED
  BY <1>1, <1>2 DEF BookInv, Kept

\* The invariant is what the two properties say.
LEMMA InvariantSays ==
    ASSUME BookInv
    PROVE  WellFormed /\ HistoryMatchesLedger
<1>1. TypeOK
  <2>2. ledger \subseteq Range(Fold) \X Ids \X Stamps
    <3>1. SUFFICES ASSUME NEW id \in DOMAIN stored, NEW at \in Held(stored[id])
                   PROVE  <<Fold[stored[id].path], id, at>> \in Range(Fold) \X Ids \X Stamps
      BY DEF BookInv, Recorded, Rec
    <3>2. stored[id] \in Bookmark /\ id \in Ids
      BY DEF BookInv, Good, Collection
    <3>3. Fold[stored[id].path] \in Range(Fold)
      BY <3>2, FoldAssumption DEF Bookmark, Range
    <3>4. Migrate(stored[id]).history \in Seq(Results)
      BY <3>2, Migrated DEF Bookmark
    <3>5. PICK i \in DOMAIN Migrate(stored[id]).history : at = Migrate(stored[id]).history[i].at
      BY <3>1 DEF Held, Times, ToSet
    <3>6. Migrate(stored[id]).history[i] \in Results
      BY <3>4
    <3>7. at \in Stamps
      BY <3>5, <3>6 DEF Results
    <3>8. QED
      BY <3>2, <3>3, <3>7
  <2>3. QED
    BY <2>2 DEF BookInv, Good, Collection, TypeOK
<1>2. WellFormed
  <2>1. OneBookmarkPerPath
    BY DEF BookInv, Good, OnePath, OneBookmarkPerPath
  <2>2. OrderIsComplete
    BY IsLoaded DEF Complete, OrderIsComplete
  <2>3. QED
    BY <1>1, <2>1, <2>2 DEF WellFormed
<1>3. HistoryMatchesLedger
  <2>1. \A id \in DOMAIN Loaded : /\ Descending(Loaded[id].history)
                                  /\ Times(Loaded[id].history) = Held(stored[id])
                                  /\ Loaded[id].path = stored[id].path
    BY IsLoaded DEF Kept, Tidy
  <2>2. \A id \in DOMAIN stored :
           {<<Fold[Loaded[id].path], id, r.at>> : r \in ToSet(Loaded[id].history)}
             = Rec(id, stored[id])
    BY <2>1, IsLoaded DEF Rec, Times
  <2>3. UNION {{<<Fold[Loaded[id].path], id, r.at>> : r \in ToSet(Loaded[id].history)} :
                  id \in DOMAIN Loaded} = ledger
    BY <2>2, IsLoaded DEF BookInv, Recorded
  <2>4. QED
    BY <2>1, <2>3 DEF HistoryMatchesLedger
<1>4. QED
  BY <1>2, <1>3

-------------------------------------------------------------------------------
(* One bookmark changes *)

\* What a step may not do to the order.
OrderStep ==
    /\ \A i \in DOMAIN stored, j \in DOMAIN stored' \ DOMAIN stored :
          i \in DOMAIN stored' => stored'[i].order < stored'[j].order
    /\ (\E i, j \in DOMAIN stored \cap DOMAIN stored' :
           Earlier(i, j) /\ stored'[i].order > stored'[j].order)
         => Unordered(stored') = Unordered(Loaded)

\* The bookmarks there were keep their numbers, new ones come after them.
InOrder(bs) ==
    /\ \A i \in DOMAIN bs \cap DOMAIN stored : bs[i].order = Loaded[i].order
    /\ \A i \in DOMAIN bs \ DOMAIN stored : bs[i].order >= Cardinality(DOMAIN stored)

\* What is saved in the old order stays in it.
LEMMA SavedInOrder ==
    ASSUME BookInv, NEW bs, Good(bs), InOrder(bs), Persist(bs), ledger' = Recorded(bs)
    PROVE  BookInv' /\ OrderStep
<1>1. BookInv'
  BY Saved DEF BookInv
<1>2. /\ Collection(stored') /\ DOMAIN stored' = DOMAIN bs /\ Collection(bs)
      /\ \A i, j \in DOMAIN bs : Precedes(bs, i, j) <=> stored'[i].order < stored'[j].order
  BY Persisted DEF Good
<1>3. ASSUME NEW i \in DOMAIN stored, NEW j \in DOMAIN stored' \ DOMAIN stored,
             i \in DOMAIN stored'
      PROVE  stored'[i].order < stored'[j].order
  <2>1. i \in DOMAIN bs /\ j \in DOMAIN bs /\ i \in DOMAIN Loaded
    BY <1>2, <1>3, IsLoaded
  <2>2. bs[i].order \in 0..(Cardinality(DOMAIN stored) - 1)
    BY <1>2, <1>3, <2>1, IsLoaded DEF InOrder, Complete
  <2>3. bs[j].order >= Cardinality(DOMAIN stored)
    BY <1>2, <1>3 DEF InOrder
  <2>4. Cardinality(DOMAIN stored) \in Nat /\ bs[j].order \in Nat
    <3>1. IsFiniteSet(DOMAIN stored)
      BY NumbersAssumption, FS_Subset DEF BookInv, Good, Collection
    <3>2. QED
      BY <1>2, <2>1, <3>1, FS_CardinalityType DEF Collection, Bookmark
  <2>5. bs[i].order < bs[j].order
    BY <2>2, <2>3, <2>4
  <2>6. QED
    BY <1>2, <2>1, <2>5, Ordered
<1>4. ASSUME NEW i \in DOMAIN stored \cap DOMAIN stored',
             NEW j \in DOMAIN stored \cap DOMAIN stored',
             Earlier(i, j), stored'[i].order > stored'[j].order
      PROVE  FALSE
  <2>1. Loaded[i].order < Loaded[j].order
    BY <1>4, IsLoaded DEF Earlier, Precedes, Before, Place
  <2>2. bs[i].order < bs[j].order
    BY <1>2, <1>4, <2>1 DEF InOrder
  <2>3. stored'[i].order < stored'[j].order
    BY <1>2, <1>4, <2>2, Ordered
  <2>4. stored'[i].order \in Nat /\ stored'[j].order \in Nat
    BY <1>2, <1>4 DEF Collection, Bookmark
  <2>5. QED
    BY <1>4, <2>3, <2>4
<1>5. OrderStep
  BY <1>3, <1>4 DEF OrderStep
<1>6. QED
  BY <1>1, <1>5

\* What the ledger holds of the other bookmarks.
Others(bs, id) == UNION {Rec(i, bs[i]) : i \in DOMAIN bs \ {id}}

\* The identifiers tell the entries of one bookmark from those of the others.
LEMMA Apart ==
    ASSUME NEW bs, NEW id \in DOMAIN bs
    PROVE  /\ Recorded(bs) = Others(bs, id) \cup Rec(id, bs[id])
           /\ \A e \in Others(bs, id) : e[2] # id
           /\ \A e \in Rec(id, bs[id]) : e[2] = id
<1>1. Recorded(bs) = Others(bs, id) \cup Rec(id, bs[id])
  BY DEF Recorded, Others
<1>2. \A i \in DOMAIN bs : \A e \in Rec(i, bs[i]) : e[2] = i
  BY DEF Rec
<1>3. \A e \in Others(bs, id) : e[2] # id
  BY <1>2 DEF Others
<1>4. QED
  BY <1>1, <1>2, <1>3

\* The others of the path are known as its doubles.
Alone(bs, id, path) ==
    \A i \in DOMAIN bs \ {id} :
        Fold[bs[i].path] = Fold[path] => <<i, id>> \in doubled /\ <<id, i>> \in doubled

\* The second collection is the first with the bookmark put at the identifier.
IsPut(bs, cs, id, b) ==
    /\ DOMAIN cs = DOMAIN bs \cup {id}
    /\ cs[id] = b
    /\ \A i \in DOMAIN bs \ {id} : cs[i] = bs[i]
    /\ Recorded(cs) = Others(bs, id) \cup Rec(id, b)

\* A sound bookmark of a path that no other has, or doubles, is put among good ones.
LEMMA Put ==
    ASSUME NEW bs, Good(bs), NEW id \in Ids, NEW b \in Bookmark, Sound(b),
           Alone(bs, id, b.path)
    PROVE  Good(With(bs, id, b)) /\ IsPut(bs, With(bs, id, b), id, b)
<1> DEFINE cs == With(bs, id, b)
<1>1. /\ DOMAIN cs = DOMAIN bs \cup {id} /\ cs[id] = b
      /\ \A i \in DOMAIN bs \ {id} : cs[i] = bs[i]
  BY DEF With
<1> HIDE DEF cs
<1>2. Recorded(cs) = Others(bs, id) \cup Rec(id, b)
  BY <1>1 DEF Recorded, Others
<1>3. Collection(cs) /\ \A i \in DOMAIN cs : Sound(cs[i])
  BY <1>1 DEF Good, Collection
<1>4. OnePath(cs)
  BY <1>1 DEF Good, OnePath, Alone
<1>5. Good(cs)
  BY <1>3, <1>4 DEF Good
<1>6. QED
  BY <1>1, <1>2, <1>5 DEF cs, IsPut

\* A bookmark of the same path takes the place of one that was loaded.
LEMMA Replaced ==
    ASSUME BookInv, NEW id \in DOMAIN Loaded, NEW b \in Bookmark, Sound(b),
           Fold[b.path] = Fold[Loaded[id].path], b.order = Loaded[id].order,
           Persist([Loaded EXCEPT ![id] = b]), ledger' = Others(Loaded, id) \cup Rec(id, b)
    PROVE  BookInv' /\ OrderStep
<1> DEFINE cs == With(Loaded, id, b)
<1>1. Good(Loaded) /\ DOMAIN Loaded = DOMAIN stored
  BY IsLoaded
<1>2. Alone(Loaded, id, b.path)
  BY <1>1 DEF Good, OnePath, Alone
<1>3. id \in Ids
  BY <1>1 DEF Good, Collection
<1>4. Good(cs) /\ IsPut(Loaded, cs, id, b)
  BY <1>1, <1>2, <1>3, Put
<1>5. [Loaded EXCEPT ![id] = b] = cs
  BY DEF With
<1> HIDE DEF cs
<1>6. InOrder(cs)
  BY <1>1, <1>4 DEF InOrder, IsPut
<1>7. Recorded(cs) = ledger'
  BY <1>4 DEF IsPut
<1>8. Persist(cs)
  BY <1>5
<1>9. QED
  BY <1>4, <1>6, <1>7, <1>8, SavedInOrder

\* What a bookmark holds is in its history and its last result.
LEMMA SameResults ==
    ASSUME NEW b \in Bookmark, NEW c \in Bookmark, c.history = b.history, c.last = b.last
    PROVE  Held(c) = Held(b) /\ (Sound(c) <=> Sound(b)) /\ (Tidy(c) <=> Tidy(b))
<1>1. Migrate(b).history = IF b.history = <<>> /\ b.last # NoResult THEN <<b.last>>
                           ELSE b.history
  BY DEF Migrate, Bookmark
<1>2. Migrate(c).history = IF c.history = <<>> /\ c.last # NoResult THEN <<c.last>>
                           ELSE c.history
  BY DEF Migrate, Bookmark
<1>3. Migrate(c).history = Migrate(b).history
  BY <1>1, <1>2
<1>4. QED
  BY <1>3 DEF Held, Sound, Tidy

\* A tidy bookmark holds what its history holds.
LEMMA TidyHolds ==
    ASSUME NEW b \in Bookmark, Tidy(b)
    PROVE  Held(b) = Times(b.history) /\ Sound(b) /\ Distinct(b.history)
<1>1. b.history # <<>> \/ b.last = NoResult
  BY DEF Tidy
<1>2. Migrate(b) = b
  BY <1>1, Migrated
<1>3. b.history \in Seq(Results) /\ Descending(b.history)
  BY DEF Bookmark, Tidy
<1>4. QED
  BY <1>2, <1>3, DescendingIsDistinct DEF Held, Sound

\* A history without repetitions makes a tidy bookmark.
LEMMA SyncedHolds ==
    ASSUME NEW c \in Bookmark, Distinct(c.history)
    PROVE  /\ SyncLastResult(c) \in Bookmark
           /\ SyncLastResult(c).path = c.path /\ SyncLastResult(c).order = c.order
           /\ Held(SyncLastResult(c)) = Times(c.history)
           /\ Sound(SyncLastResult(c)) /\ Tidy(SyncLastResult(c))
<1> DEFINE s == SyncLastResult(c)
<1>1. /\ s \in Bookmark /\ s.path = c.path /\ s.order = c.order
      /\ s.history = SortHistory(c.history)
      /\ s.last = IF SortHistory(c.history) = <<>> THEN NoResult
                  ELSE Head(SortHistory(c.history))
  BY Synced
<1> HIDE DEF s
<1>2. c.history \in Seq(Results)
  BY DEF Bookmark
<1>3. Descending(s.history) /\ ToSet(s.history) = ToSet(c.history)
  BY <1>1, <1>2, Sorted
<1>4. Tidy(s)
  BY <1>1, <1>3 DEF Tidy
<1>5. Held(s) = Times(c.history) /\ Sound(s)
  BY <1>1, <1>3, <1>4, TidyHolds DEF Times
<1>6. QED
  BY <1>1, <1>4, <1>5 DEF s

-------------------------------------------------------------------------------
(* The operations on one bookmark *)

LEMMA LoadedAt ==
    ASSUME BookInv, NEW id \in DOMAIN Loaded
    PROVE  /\ Loaded[id] \in Bookmark /\ Tidy(Loaded[id]) /\ id \in DOMAIN stored
           /\ Loaded[id].path = stored[id].path
           /\ ledger = Others(Loaded, id) \cup Rec(id, Loaded[id])
           /\ \A e \in Others(Loaded, id) : e[2] # id
           /\ Entries(id) = Rec(id, Loaded[id])
           /\ Rec(id, Loaded[id])
                 = {<<Fold[Loaded[id].path], id, at>> : at \in Times(Loaded[id].history)}
<1>1. /\ Loaded[id] \in Bookmark /\ Tidy(Loaded[id]) /\ id \in DOMAIN stored
      /\ Loaded[id].path = stored[id].path /\ Good(Loaded) /\ Recorded(Loaded) = ledger
  BY IsLoaded
<1>2. /\ ledger = Others(Loaded, id) \cup Rec(id, Loaded[id])
      /\ \A e \in Others(Loaded, id) : e[2] # id
      /\ \A e \in Rec(id, Loaded[id]) : e[2] = id
  BY <1>1, Apart
<1>3. Entries(id) = Rec(id, Loaded[id])
  BY <1>1, <1>2 DEF Entries
<1>4. Held(Loaded[id]) = Times(Loaded[id].history)
  BY <1>1, TidyHolds
<1>5. QED
  BY <1>1, <1>2, <1>3, <1>4 DEF Rec

LEMMA UpdateNoteKeeps ==
    ASSUME BookInv, NEW id, NEW note \in Notes, UpdateNote(id, note)
    PROVE  BookInv' /\ OrderStep
<1> DEFINE b == [Loaded[id] EXCEPT !.note = note]
<1>1. id \in DOMAIN Loaded /\ ledger' = ledger
  BY IsLoaded DEF UpdateNote
<1>2. Loaded[id] \in Bookmark /\ Tidy(Loaded[id])
  BY <1>1, LoadedAt
<1>3. /\ b \in Bookmark /\ b.path = Loaded[id].path /\ b.order = Loaded[id].order
      /\ b.history = Loaded[id].history /\ b.last = Loaded[id].last
  BY <1>2 DEF Bookmark
<1>4. [Loaded EXCEPT ![id].note = note] = [Loaded EXCEPT ![id] = b]
  OBVIOUS
<1> HIDE DEF b
<1>5. Sound(b) /\ Rec(id, b) = Rec(id, Loaded[id])
  BY <1>2, <1>3, SameResults, TidyHolds DEF Rec
<1>6. Persist([Loaded EXCEPT ![id] = b])
  BY <1>4 DEF UpdateNote
<1>7. ledger' = Others(Loaded, id) \cup Rec(id, b)
  BY <1>1, <1>5, LoadedAt
<1>8. QED
  BY <1>1, <1>3, <1>5, <1>6, <1>7, Replaced

\* A bookmark without results.
LEMMA Cleared ==
    ASSUME NEW c \in Bookmark
    PROVE  LET b == [c EXCEPT !.history = <<>>, !.last = NoResult]
           IN  /\ b \in Bookmark /\ b.path = c.path /\ b.order = c.order
               /\ b.history = <<>> /\ b.last = NoResult
<1>1. ASSUME NEW h \in Seq(Results)
      PROVE  LET b == [c EXCEPT !.history = h, !.last = NoResult]
             IN  /\ b \in Bookmark /\ b.path = c.path /\ b.order = c.order
                 /\ b.history = h /\ b.last = NoResult
  BY DEF Bookmark
<1>2. <<>> \in Seq(Results)
  OBVIOUS
<1>3. QED
  BY <1>1, <1>2

LEMMA ClearHistoryKeeps ==
    ASSUME BookInv, NEW id, ClearHistory(id)
    PROVE  BookInv' /\ OrderStep
<1> DEFINE b == [Loaded[id] EXCEPT !.history = <<>>, !.last = NoResult]
<1>1. id \in DOMAIN Loaded /\ id \in DOMAIN stored
  BY IsLoaded DEF ClearHistory
<1>2. Loaded[id] \in Bookmark
  BY <1>1, LoadedAt
<1>3. /\ b \in Bookmark /\ b.path = Loaded[id].path /\ b.order = Loaded[id].order
      /\ b.history = <<>> /\ b.last = NoResult
  BY <1>2, Cleared
<1>4. [Loaded EXCEPT ![id].history = <<>>, ![id].last = NoResult] = [Loaded EXCEPT ![id] = b]
  OBVIOUS
<1> HIDE DEF b
<1>5. Tidy(b)
  BY <1>3 DEF Tidy, Descending
<1>6. Sound(b) /\ Rec(id, b) = {}
  <2>1. Held(b) = Times(<<>>) /\ Sound(b)
    BY <1>3, <1>5, TidyHolds
  <2>2. Times(<<>>) = {}
    BY DEF Times, ToSet
  <2>3. QED
    BY <2>1, <2>2 DEF Rec
<1>7. Persist([Loaded EXCEPT ![id] = b])
  BY <1>4 DEF ClearHistory
<1>8. ledger' = Others(Loaded, id) \cup Rec(id, b)
  <2>1. ledger' = ledger \ Rec(id, Loaded[id])
    BY <1>1, LoadedAt DEF ClearHistory
  <2>2. \A e \in Rec(id, Loaded[id]) : e[2] = id
    BY DEF Rec
  <2>3. /\ ledger = Others(Loaded, id) \cup Rec(id, Loaded[id])
        /\ \A e \in Others(Loaded, id) : e[2] # id
    BY <1>1, LoadedAt
  <2>4. QED
    BY <1>6, <2>1, <2>2, <2>3
<1>9. QED
  BY <1>1, <1>3, <1>6, <1>7, <1>8, Replaced

\* A bookmark whose history is another one without repetitions.
LEMMA HistoryReplaced ==
    ASSUME BookInv, NEW id \in DOMAIN Loaded, NEW h \in Seq(Results), Distinct(h),
           NEW b, b = SyncLastResult([Loaded[id] EXCEPT !.history = h]),
           Persist([Loaded EXCEPT ![id] = b]),
           ledger' = Others(Loaded, id) \cup {<<Fold[Loaded[id].path], id, at>> : at \in Times(h)}
    PROVE  BookInv' /\ OrderStep
<1> DEFINE c == [Loaded[id] EXCEPT !.history = h]
<1>1. Loaded[id] \in Bookmark
  BY LoadedAt
<1>2. /\ c \in Bookmark /\ c.path = Loaded[id].path /\ c.order = Loaded[id].order
      /\ c.history = h
  BY <1>1 DEF Bookmark
<1>3. b = SyncLastResult(c)
  OBVIOUS
<1> HIDE DEF c
<1>4. /\ b \in Bookmark /\ b.path = Loaded[id].path /\ b.order = Loaded[id].order
      /\ Held(b) = Times(h) /\ Sound(b)
  BY <1>2, <1>3, SyncedHolds
<1>5. ledger' = Others(Loaded, id) \cup Rec(id, b)
  BY <1>4 DEF Rec
<1>6. QED
  BY <1>4, <1>5, Replaced

\* A label is not part of what is recorded.
LEMMA RenameHistoryItemKeeps ==
    ASSUME BookInv, NEW id, NEW at, NEW label \in BOOLEAN, RenameHistoryItem(id, at, label)
    PROVE  BookInv' /\ OrderStep
<1>1. id \in DOMAIN Loaded /\ ledger' = ledger
  BY DEF RenameHistoryItem
<1> DEFINE h == Loaded[id].history
<1>2. PICK i \in DOMAIN h :
         Persist([Loaded EXCEPT ![id] = SyncLastResult([@ EXCEPT !.history[i].label = label])])
  BY DEF RenameHistoryItem
<1> DEFINE g == [h EXCEPT ![i].label = label]
           b == SyncLastResult([Loaded[id] EXCEPT !.history = g])
<1>3. Loaded[id] \in Bookmark /\ Distinct(h) /\ h \in Seq(Results)
  BY <1>1, LoadedAt, TidyHolds DEF Bookmark
<1>4. Persist([Loaded EXCEPT ![id] = b])
  <2>1. [Loaded[id] EXCEPT !.history[i].label = label] = [Loaded[id] EXCEPT !.history = g]
    OBVIOUS
  <2>2. QED
    BY <1>2, <2>1
<1>5. /\ DOMAIN g = DOMAIN h /\ g \in Seq(Results)
      /\ \A j \in DOMAIN h : g[j].at = h[j].at
  <2>1. h[i] \in Results /\ i \in 1..Len(h) /\ DOMAIN h = 1..Len(h) /\ Len(h) \in Nat
    BY <1>3
  <2>2. [h[i] EXCEPT !.label = label] \in Results /\ [h[i] EXCEPT !.label = label].at = h[i].at
    BY <2>1 DEF Results
  <2> DEFINE r == [h[i] EXCEPT !.label = label]
  <2>3. g = [h EXCEPT ![i] = r]
    OBVIOUS
  <2> HIDE DEF r, g, h
  <2>4. \A j \in DOMAIN h : g[j] = IF j = i THEN r ELSE h[j]
    BY <2>3
  <2>5. DOMAIN g = DOMAIN h /\ g \in Seq(Results)
    BY <1>3, <2>1, <2>2, <2>3 DEF r
  <2>6. QED
    BY <2>2, <2>4, <2>5 DEF r
<1> HIDE DEF g, h
<1>6. Distinct(g) /\ Times(g) = Times(h)
  BY <1>3, <1>5 DEF Distinct, Times, ToSet
<1>7. ledger' = Others(Loaded, id) \cup {<<Fold[Loaded[id].path], id, t>> : t \in Times(g)}
  BY <1>1, <1>6, LoadedAt DEF h
<1> HIDE DEF b
<1>8. b = SyncLastResult([Loaded[id] EXCEPT !.history = g])
  BY DEF b
<1>9. QED
  BY <1>1, <1>4, <1>5, <1>6, <1>7, <1>8, HistoryReplaced

\* Every bookmark of the path gets the result: one of another timestamp is added,
\* one of the same is replaced.
LEMMA SaveHistoryResultKeeps ==
    ASSUME BookInv, NEW path \in Paths, NEW r \in Results, SaveHistoryResult(path, r)
    PROVE  BookInv' /\ OrderStep
<1> DEFINE found == Matching(Loaded, path)
           add(c) == SyncLastResult([c EXCEPT !.history = AppendOrUpdate(@, r)])
           cs == [i \in DOMAIN Loaded |-> IF i \in found THEN add(Loaded[i]) ELSE Loaded[i]]
           new == {<<Fold[path], i, r.at>> : i \in found}
<1>1. Persist(cs) /\ ledger' = ledger \cup new
  BY DEF SaveHistoryResult
<1>2. found \subseteq DOMAIN Loaded /\ \A i \in found : Fold[Loaded[i].path] = Fold[path]
  BY DEF Matching, PathsEqual
<1>3. DOMAIN cs = DOMAIN Loaded
      /\ \A i \in DOMAIN Loaded : cs[i] = IF i \in found THEN add(Loaded[i]) ELSE Loaded[i]
  OBVIOUS
<1> HIDE DEF cs, found
<1>4. ASSUME NEW i \in DOMAIN Loaded
      PROVE  /\ cs[i] \in Bookmark /\ cs[i].path = Loaded[i].path
             /\ cs[i].order = Loaded[i].order /\ Sound(cs[i])
             /\ Rec(i, cs[i]) = Rec(i, Loaded[i])
                   \cup {<<Fold[path], k, r.at>> : k \in found \cap {i}}
  <2>1. Loaded[i] \in Bookmark /\ Tidy(Loaded[i])
    BY LoadedAt
  <2> DEFINE h == Loaded[i].history
             g == AppendOrUpdate(h, r)
             c == [Loaded[i] EXCEPT !.history = g]
  <2>2. h \in Seq(Results) /\ Distinct(h) /\ Held(Loaded[i]) = Times(h) /\ Sound(Loaded[i])
    BY <2>1, TidyHolds DEF Bookmark
  <2>3. CASE i \in found
    <3>1. g \in Seq(Results) /\ Distinct(g) /\ Times(g) = Times(h) \cup {r.at}
      BY <2>2, Appended
    <3>2. cs[i] = SyncLastResult(c)
      BY <1>3, <2>3
    <3> HIDE DEF g, h
    <3>3. c \in Bookmark /\ c.path = Loaded[i].path /\ c.order = Loaded[i].order /\ c.history = g
      BY <2>1, <3>1 DEF Bookmark
    <3> HIDE DEF c
    <3>4. /\ cs[i] \in Bookmark /\ cs[i].path = Loaded[i].path /\ cs[i].order = Loaded[i].order
          /\ Sound(cs[i]) /\ Held(cs[i]) = Times(h) \cup {r.at}
      BY <3>1, <3>2, <3>3, SyncedHolds
    <3>5. Fold[Loaded[i].path] = Fold[path] /\ found \cap {i} = {i}
      BY <1>2, <2>3
    <3>6. QED
      BY <2>2, <3>4, <3>5 DEF Rec
  <2>4. CASE i \notin found
    BY <1>3, <2>1, <2>2, <2>4
  <2>5. QED
    BY <2>3, <2>4
<1>5. Good(Loaded) /\ DOMAIN Loaded = DOMAIN stored /\ Recorded(Loaded) = ledger
  BY IsLoaded
<1>6. Good(cs)
  BY <1>3, <1>4, <1>5 DEF Good, Collection, OnePath
<1>7. InOrder(cs)
  BY <1>3, <1>4, <1>5 DEF InOrder
<1>8. Recorded(cs) = ledger'
  <2>1. Recorded(cs) = UNION {Rec(i, Loaded[i])
           \cup {<<Fold[path], k, r.at>> : k \in found \cap {i}} : i \in DOMAIN Loaded}
    BY <1>3, <1>4 DEF Recorded
  <2>2. UNION {Rec(i, Loaded[i])
           \cup {<<Fold[path], k, r.at>> : k \in found \cap {i}} : i \in DOMAIN Loaded}
           = Recorded(Loaded) \cup new
    BY <1>2 DEF Recorded
  <2>3. QED
    BY <1>1, <1>5, <2>1, <2>2
<1>9. QED
  BY <1>1, <1>6, <1>7, <1>8, SavedInOrder

\* A new bookmark is tidy and holds nothing.
LEMMA NewHolds ==
    ASSUME NEW path \in Paths, NEW note \in Notes, NEW order \in Nat
    PROVE  /\ NewBookmark(path, note, order) \in Bookmark
           /\ NewBookmark(path, note, order).path = path
           /\ NewBookmark(path, note, order).order = order
           /\ NewBookmark(path, note, order).history = <<>>
           /\ Tidy(NewBookmark(path, note, order)) /\ Sound(NewBookmark(path, note, order))
           /\ \A id : Rec(id, NewBookmark(path, note, order)) = {}
<1> DEFINE b == NewBookmark(path, note, order)
<1>1. /\ b \in Bookmark /\ b.path = path /\ b.order = order /\ b.history = <<>>
      /\ b.last = NoResult
  <2>1. <<>> \in Seq(Results)
    OBVIOUS
  <2>2. QED
    BY <2>1 DEF NewBookmark, Bookmark
<1> HIDE DEF b
<1>2. Tidy(b)
  BY <1>1 DEF Tidy, Descending
<1>3. Times(<<>>) = {}
  BY DEF Times, ToSet
<1>4. Sound(b) /\ Held(b) = {}
  BY <1>1, <1>2, <1>3, TidyHolds
<1>5. \A id : Rec(id, b) = {}
  BY <1>4 DEF Rec
<1>6. QED
  BY <1>1, <1>2, <1>4, <1>5 DEF b

LEMMA SaveBookmarkKeeps ==
    ASSUME BookInv, NEW path \in Paths, NEW note \in Notes, SaveBookmark(path, note)
    PROVE  BookInv' /\ OrderStep
<1>1. ledger' = ledger
  BY DEF SaveBookmark
<1>2. ASSUME NEW id \in Matching(Loaded, path),
             Persist([Loaded EXCEPT ![id].path = path, ![id].note = note])
      PROVE  BookInv' /\ OrderStep
  <2> DEFINE b == [Loaded[id] EXCEPT !.path = path, !.note = note]
  <2>1. id \in DOMAIN Loaded /\ Fold[Loaded[id].path] = Fold[path]
    BY DEF Matching, PathsEqual
  <2>2. Loaded[id] \in Bookmark /\ Tidy(Loaded[id])
    BY <2>1, LoadedAt
  <2>3. /\ b \in Bookmark /\ b.path = path /\ b.order = Loaded[id].order
        /\ b.history = Loaded[id].history /\ b.last = Loaded[id].last
    BY <2>2 DEF Bookmark
  <2>4. [Loaded EXCEPT ![id].path = path, ![id].note = note] = [Loaded EXCEPT ![id] = b]
    OBVIOUS
  <2> HIDE DEF b
  <2>5. Sound(b) /\ Rec(id, b) = Rec(id, Loaded[id])
    BY <2>1, <2>2, <2>3, SameResults, TidyHolds DEF Rec
  <2>6. Persist([Loaded EXCEPT ![id] = b])
    BY <1>2, <2>4
  <2>7. ledger' = Others(Loaded, id) \cup Rec(id, b)
    BY <1>1, <2>1, <2>5, LoadedAt
  <2>8. QED
    BY <2>1, <2>3, <2>5, <2>6, <2>7, Replaced
<1>3. ASSUME Matching(Loaded, path) = {}, NEW id \in Ids \ DOMAIN Loaded,
             Persist(With(Loaded, id, NewBookmark(path, note, Cardinality(DOMAIN Loaded))))
      PROVE  BookInv' /\ OrderStep
  <2> DEFINE b == NewBookmark(path, note, Cardinality(DOMAIN Loaded))
             cs == With(Loaded, id, b)
  <2>1. /\ Good(Loaded) /\ DOMAIN Loaded = DOMAIN stored /\ Recorded(Loaded) = ledger
    BY IsLoaded
  <2>2. Cardinality(DOMAIN Loaded) \in Nat
    BY <2>1, NumbersAssumption, FS_Subset, FS_CardinalityType DEF Good, Collection
  <2>3. /\ b \in Bookmark /\ b.path = path /\ b.order = Cardinality(DOMAIN Loaded)
        /\ Sound(b) /\ Rec(id, b) = {}
    BY <2>2, NewHolds
  <2> HIDE DEF b
  <2>4. Alone(Loaded, id, b.path)
    BY <1>3, <2>3 DEF Alone, Matching, PathsEqual
  <2>5. Good(cs) /\ IsPut(Loaded, cs, id, b)
    BY <2>1, <2>3, <2>4, Put
  <2>6. Persist(cs)
    BY <1>3 DEF b
  <2> HIDE DEF cs
  <2>7. InOrder(cs)
    BY <1>3, <2>1, <2>2, <2>3, <2>5 DEF InOrder, IsPut
  <2>8. Recorded(cs) = ledger'
    <3>1. Recorded(cs) = Others(Loaded, id)
      BY <2>3, <2>5 DEF IsPut
    <3>2. Others(Loaded, id) = Recorded(Loaded)
      BY <1>3 DEF Others, Recorded
    <3>3. QED
      BY <1>1, <2>1, <3>1, <3>2
  <2>9. QED
    BY <2>5, <2>6, <2>7, <2>8, SavedInOrder
<1>4. QED
  BY <1>2, <1>3 DEF SaveBookmark

LEMMA DeleteBookmarkKeeps ==
    ASSUME BookInv, NEW id, DeleteBookmark(id)
    PROVE  BookInv' /\ OrderStep
<1> DEFINE cs == Without(Loaded, id)
<1>1. Good(Loaded) /\ DOMAIN Loaded = DOMAIN stored /\ Recorded(Loaded) = ledger
  BY IsLoaded
<1>2. DOMAIN cs = DOMAIN Loaded \ {id} /\ \A i \in DOMAIN cs : cs[i] = Loaded[i]
  BY DEF Without
<1>3. Persist(cs)
  BY DEF DeleteBookmark
<1> HIDE DEF cs
<1>4. Good(cs) /\ InOrder(cs)
  BY <1>1, <1>2 DEF Good, Collection, OnePath, InOrder
<1>5. Recorded(cs) = Others(Loaded, id)
  BY <1>2 DEF Recorded, Others
<1>6. CASE id \in DOMAIN stored
  <2>1. ledger' = ledger \ Rec(id, Loaded[id])
    BY <1>1, <1>6, LoadedAt DEF DeleteBookmark
  <2>2. \A e \in Rec(id, Loaded[id]) : e[2] = id
    BY DEF Rec
  <2>3. /\ ledger = Others(Loaded, id) \cup Rec(id, Loaded[id])
        /\ \A e \in Others(Loaded, id) : e[2] # id
    BY <1>1, <1>6, LoadedAt
  <2>4. ledger' = Others(Loaded, id)
    BY <2>1, <2>2, <2>3
  <2>5. QED
    BY <1>3, <1>4, <1>5, <2>4, SavedInOrder
<1>7. CASE id \notin DOMAIN stored
  <2>1. Others(Loaded, id) = Recorded(Loaded)
    BY <1>1, <1>7 DEF Others, Recorded
  <2>2. \A e \in Others(Loaded, id) : e[2] # id
    BY DEF Others, Rec
  <2>3. ledger' = ledger
    BY <1>1, <2>1, <2>2 DEF DeleteBookmark, Entries
  <2>4. QED
    BY <1>1, <1>3, <1>4, <1>5, <2>1, <2>3, SavedInOrder
<1>8. QED
  BY <1>6, <1>7

-------------------------------------------------------------------------------
(* Deleting one result *)

\* A result of a new timestamp keeps a history free of repetitions.
LEMMA AppendedNew ==
    ASSUME NEW g \in Seq(Results), Distinct(g), NEW r \in Results, r.at \notin Times(g)
    PROVE  /\ Append(g, r) \in Seq(Results) /\ Distinct(Append(g, r))
           /\ Times(Append(g, r)) = Times(g) \cup {r.at}
<1> DEFINE a == Append(g, r)
           n == Len(g)
<1>1. /\ n \in Nat /\ DOMAIN g = 1..n /\ DOMAIN a = 1..(n + 1) /\ a[n + 1] = r
      /\ \A i \in 1..n : a[i] = g[i]
      /\ a \in Seq(Results)
  OBVIOUS
<1> HIDE DEF a, n
<1>2. \A i \in 1..(n + 1) : i = n + 1 \/ i \in 1..n
  BY <1>1
<1>3. \A i \in 1..n : g[i].at \in Times(g) /\ n + 1 # i
  BY <1>1 DEF Times, ToSet
<1>4. Distinct(a)
  <2>1. SUFFICES ASSUME NEW i \in 1..(n + 1), NEW j \in 1..(n + 1), a[i].at = a[j].at
                 PROVE  i = j
    BY <1>1 DEF Distinct
  <2>2. CASE i \in 1..n /\ j \in 1..n
    BY <1>1, <2>1, <2>2 DEF Distinct
  <2>3. CASE i = n + 1 /\ j \in 1..n
    BY <1>1, <1>3, <2>1, <2>3
  <2>4. CASE i \in 1..n /\ j = n + 1
    BY <1>1, <1>3, <2>1, <2>4
  <2>5. QED
    BY <1>2, <2>2, <2>3, <2>4
<1>5. ToSet(a) = ToSet(g) \cup {r}
  BY <1>1, <1>2 DEF ToSet
<1>6. Times(a) = Times(g) \cup {r.at}
  BY <1>5 DEF Times
<1>7. QED
  BY <1>1, <1>4, <1>6 DEF a

\* Only the results of that timestamp go.
LEMMA OthersStay ==
    ASSUME NEW h \in Seq(Results), Distinct(h), NEW at
    PROVE  /\ OfOtherTimes(h, at) \in Seq(Results)
           /\ Distinct(OfOtherTimes(h, at))
           /\ Times(OfOtherTimes(h, at)) = Times(h) \ {at}
<1> DEFINE n == Len(h)
           Step(g, r) == IF r.at = at THEN g ELSE Append(g, r)
           X == [s \in SUBSET (1..n) |->
                   {g \in Seq(Results) : Distinct(g) /\ Times(g) = {h[i].at : i \in s} \ {at}}]
           F == [q \in Seq(Results) \X Results |-> Step(q[1], q[2])]
           Solves(it) == it = [s \in SUBSET DOMAIN h |->
                                 IF s = {} THEN <<>> ELSE Step(it[s \ {Max(s)}], h[Max(s)])]
           it == CHOOSE it : Solves(it)
<1>1. n \in Nat /\ DOMAIN h = 1..n /\ \A i \in 1..n : h[i] \in Results
  OBVIOUS
<1>2. OfOtherTimes(h, at) = it[DOMAIN h]
  BY DEF OfOtherTimes, FoldLeft, MapThenFoldSet
<1>3. <<>> \in X[{}]
  <2>1. <<>> \in Seq(Results) /\ Distinct(<<>>) /\ Times(<<>>) = {}
    BY DEF Distinct, Times, ToSet
  <2>2. QED
    BY <2>1
<1>4. ASSUME NEW s \in SUBSET (1..n), NEW k \in 1..n, NEW g \in X[s], \A i \in s : i < k
      PROVE  Step(g, h[k]) \in X[s \cup {k}] /\ g \in Seq(Results)
  <2>1. g \in Seq(Results) /\ Distinct(g) /\ Times(g) = {h[i].at : i \in s} \ {at}
    OBVIOUS
  <2>2. {h[i].at : i \in s \cup {k}} = {h[i].at : i \in s} \cup {h[k].at}
    OBVIOUS
  <2>3. \A i \in s : i # k /\ h[i].at # h[k].at
    BY <1>1, <1>4 DEF Distinct
  <2>4. Step(g, h[k]) \in Seq(Results) /\ Distinct(Step(g, h[k]))
    BY <1>1, <2>1, <2>3, AppendedNew
  <2>5. Times(Step(g, h[k])) = {h[i].at : i \in s \cup {k}} \ {at}
    BY <1>1, <2>1, <2>2, <2>3, AppendedNew
  <2>6. s \cup {k} \in SUBSET (1..n)
    OBVIOUS
  <2> HIDE DEF Step
  <2>7. QED
    BY <2>1, <2>4, <2>5, <2>6
<1>5. ASSUME NEW s \in SUBSET (1..n), s # {}
      PROVE  /\ Max(s) \in 1..n /\ s \ {Max(s)} \in SUBSET (1..n)
             /\ (s \ {Max(s)}) \cup {Max(s)} = s
             /\ \A i \in s \ {Max(s)} : i < Max(s)
  <2>1. Max(s) \in s /\ \A y \in s : y <= Max(s)
    BY <1>1, <1>5, Greatest
  <2>2. \A y \in s : y \in 1..n /\ y \in Int
    BY <1>1
  <2>3. ASSUME NEW i \in s \ {Max(s)}
        PROVE  i < Max(s)
    <3>1. i \in Int /\ Max(s) \in Int /\ i <= Max(s) /\ i # Max(s)
      BY <2>1, <2>2
    <3>2. QED
      BY <3>1
  <2>4. Max(s) \in 1..n /\ (s \ {Max(s)}) \cup {Max(s)} = s /\ s \ {Max(s)} \in SUBSET (1..n)
    BY <2>1, <2>2
  <2>5. QED
    BY <2>3, <2>4
<1> HIDE DEF X, n, Step
<1>6. \E i : Solves(i)
  <2>1. \A g \in Seq(Results), r \in Results : F[<<g, r>>] = Step(g, r)
    OBVIOUS
  <2> HIDE DEF F
  <2>2. Steps(n, X, F, h)
    <3>1. SUFFICES ASSUME NEW s \in SUBSET (1..n), NEW k \in 1..n, \A i \in s : i < k,
                          NEW g \in X[s]
                   PROVE  F[<<g, h[k]>>] \in X[s \cup {k}]
      BY DEF Steps
    <3>2. Step(g, h[k]) \in X[s \cup {k}] /\ g \in Seq(Results)
      BY <1>4, <3>1
    <3>3. QED
      BY <1>1, <2>1, <3>2
  <2>3. PICK i : /\ i = [s \in SUBSET (1..n) |-> i[s]]
                 /\ i[{}] = <<>>
                 /\ \A s \in SUBSET (1..n) :
                       /\ s # {} => i[s] = F[<<i[s \ {Max(s)}], h[Max(s)]>>]
                       /\ i[s] \in X[s]
    <3>1. HasFold(n, X, F, <<>>, h)
      BY <1>1, <1>3, <2>2, FoldExists
    <3>2. QED
      BY <3>1 DEF HasFold
  <2>4. ASSUME NEW s \in SUBSET (1..n), s # {}
        PROVE  F[<<i[s \ {Max(s)}], h[Max(s)]>>] = Step(i[s \ {Max(s)}], h[Max(s)])
    <3>1. Max(s) \in 1..n /\ s \ {Max(s)} \in SUBSET (1..n) /\ \A j \in s \ {Max(s)} : j < Max(s)
      BY <1>5, <2>4
    <3>2. i[s \ {Max(s)}] \in X[s \ {Max(s)}]
      BY <2>3, <3>1
    <3>3. i[s \ {Max(s)}] \in Seq(Results) /\ h[Max(s)] \in Results
      BY <1>1, <1>4, <3>1, <3>2
    <3>4. QED
      BY <2>1, <3>3
  <2>5. i = [s \in SUBSET (1..n) |-> IF s = {} THEN <<>>
                                     ELSE Step(i[s \ {Max(s)}], h[Max(s)])]
    BY <2>3, <2>4
  <2>6. Solves(i)
    BY <1>1, <2>5
  <2>7. QED
    BY <2>6
<1>7. Solves(it)
  BY <1>6
<1> HIDE DEF it
<1>8. it[1..n] \in X[1..n]
  <2>1. it[{}] = <<>>
    BY <1>7
  <2>2. ASSUME NEW s \in SUBSET (1..n), s # {}, it[s \ {Max(s)}] \in X[s \ {Max(s)}]
        PROVE  it[s] \in X[s]
    <3>1. it[s] = Step(it[s \ {Max(s)}], h[Max(s)])
      BY <1>1, <1>7, <2>2
    <3>2. /\ Max(s) \in 1..n /\ s \ {Max(s)} \in SUBSET (1..n)
          /\ \A j \in s \ {Max(s)} : j < Max(s)
          /\ (s \ {Max(s)}) \cup {Max(s)} = s
      BY <1>5, <2>2
    <3>3. Step(it[s \ {Max(s)}], h[Max(s)]) \in X[(s \ {Max(s)}) \cup {Max(s)}]
      BY <1>4, <2>2, <3>2
    <3>4. QED
      BY <3>1, <3>2, <3>3
  <2>3. QED
    BY <1>1, <1>3, <2>1, <2>2, FoldValue
<1>9. it[1..n] \in {g \in Seq(Results) : /\ Distinct(g)
                                         /\ Times(g) = {h[i].at : i \in 1..n} \ {at}}
  BY <1>8 DEF X
<1>10. Times(h) = {h[i].at : i \in 1..n}
  BY <1>1 DEF Times, ToSet
<1>11. QED
  BY <1>1, <1>2, <1>9, <1>10

LEMMA DeleteHistoryItemKeeps ==
    ASSUME BookInv, NEW id, NEW at, DeleteHistoryItem(id, at)
    PROVE  BookInv' /\ OrderStep
<1>1. id \in DOMAIN Loaded /\ id \in DOMAIN stored
  BY IsLoaded DEF DeleteHistoryItem
<1> DEFINE h == Loaded[id].history
           g == OfOtherTimes(h, at)
           b == SyncLastResult([Loaded[id] EXCEPT !.history = g])
<1>2. Loaded[id] \in Bookmark /\ Distinct(h) /\ h \in Seq(Results)
  BY <1>1, LoadedAt, TidyHolds DEF Bookmark
<1>3. Persist([Loaded EXCEPT ![id] = b])
  BY DEF DeleteHistoryItem
<1>4. g \in Seq(Results) /\ Distinct(g) /\ Times(g) = Times(h) \ {at}
  BY <1>2, OthersStay
<1> HIDE DEF g
<1>5. ledger' = Others(Loaded, id) \cup {<<Fold[Loaded[id].path], id, t>> : t \in Times(g)}
  <2>1. ledger' = ledger \ {<<Fold[Loaded[id].path], id, at>>}
    BY <1>1, LoadedAt DEF DeleteHistoryItem
  <2>2. /\ ledger = Others(Loaded, id) \cup {<<Fold[Loaded[id].path], id, t>> : t \in Times(h)}
        /\ \A e \in Others(Loaded, id) : e[2] # id
    BY <1>1, LoadedAt
  <2> HIDE DEF h
  <2>3. QED
    BY <1>4, <2>1, <2>2
<1> HIDE DEF b, h
<1>6. b = SyncLastResult([Loaded[id] EXCEPT !.history = g])
  BY DEF b
<1>7. QED
  BY <1>1, <1>3, <1>4, <1>5, <1>6, HistoryReplaced

-------------------------------------------------------------------------------
(* Reordering *)

\* What is named is a sequence of identifiers.
LEMMA NamedType ==
    ASSUME NEW bs, NEW ids \in Seq(Ids)
    PROVE  Named(bs, ids) \in Seq(Ids)
<1> DEFINE n == Len(ids)
           Step(g, id) == IF id \in DOMAIN bs /\ ~Contains(g, id) THEN Append(g, id) ELSE g
           X == [s \in SUBSET (1..n) |-> Seq(Ids)]
           F == [q \in Seq(Ids) \X Ids |-> Step(q[1], q[2])]
           Solves(it) == it = [s \in SUBSET DOMAIN ids |->
                                 IF s = {} THEN <<>> ELSE Step(it[s \ {Max(s)}], ids[Max(s)])]
           it == CHOOSE it : Solves(it)
<1>1. n \in Nat /\ DOMAIN ids = 1..n /\ \A i \in 1..n : ids[i] \in Ids
  OBVIOUS
<1>2. Named(bs, ids) = it[DOMAIN ids]
  BY DEF Named, FoldLeft, MapThenFoldSet
<1>3. <<>> \in X[{}]
  OBVIOUS
<1>4. ASSUME NEW g \in Seq(Ids), NEW k \in 1..n
      PROVE  Step(g, ids[k]) \in Seq(Ids)
  BY <1>1
<1> HIDE DEF n, Step
<1>5. ASSUME NEW s \in SUBSET (1..n), s # {}
      PROVE  /\ Max(s) \in 1..n /\ s \ {Max(s)} \in SUBSET (1..n)
             /\ (s \ {Max(s)}) \cup {Max(s)} = s
  BY <1>1, <1>5, Greatest
<1>6. \A s \in SUBSET (1..n) : X[s] = Seq(Ids)
  OBVIOUS
<1> HIDE DEF X
<1>7. \E i : Solves(i)
  <2>1. \A g \in Seq(Ids), id \in Ids : F[<<g, id>>] = Step(g, id)
    OBVIOUS
  <2> HIDE DEF F
  <2>2. Steps(n, X, F, ids)
    <3>1. SUFFICES ASSUME NEW s \in SUBSET (1..n), NEW k \in 1..n, NEW g \in X[s]
                   PROVE  F[<<g, ids[k]>>] \in X[s \cup {k}]
      BY DEF Steps
    <3>2. g \in Seq(Ids) /\ X[s \cup {k}] = Seq(Ids)
      BY <1>6
    <3>3. QED
      BY <1>1, <1>4, <2>1, <3>2
  <2>3. PICK i : /\ i = [s \in SUBSET (1..n) |-> i[s]]
                 /\ i[{}] = <<>>
                 /\ \A s \in SUBSET (1..n) :
                       /\ s # {} => i[s] = F[<<i[s \ {Max(s)}], ids[Max(s)]>>]
                       /\ i[s] \in X[s]
    <3>1. HasFold(n, X, F, <<>>, ids)
      BY <1>1, <1>3, <2>2, FoldExists
    <3>2. QED
      BY <3>1 DEF HasFold
  <2>4. ASSUME NEW s \in SUBSET (1..n), s # {}
        PROVE  F[<<i[s \ {Max(s)}], ids[Max(s)]>>] = Step(i[s \ {Max(s)}], ids[Max(s)])
    <3>1. Max(s) \in 1..n /\ s \ {Max(s)} \in SUBSET (1..n)
      BY <1>5, <2>4
    <3>2. i[s \ {Max(s)}] \in Seq(Ids) /\ ids[Max(s)] \in Ids
      BY <1>1, <1>6, <2>3, <3>1
    <3>3. QED
      BY <2>1, <3>2
  <2>5. i = [s \in SUBSET (1..n) |-> IF s = {} THEN <<>>
                                     ELSE Step(i[s \ {Max(s)}], ids[Max(s)])]
    BY <2>3, <2>4
  <2>6. Solves(i)
    BY <1>1, <2>5
  <2>7. QED
    BY <2>6
<1>8. Solves(it)
  BY <1>7
<1> HIDE DEF it
<1>9. it[1..n] \in X[1..n]
  <2>1. it[{}] = <<>>
    BY <1>8
  <2>2. ASSUME NEW s \in SUBSET (1..n), s # {}, it[s \ {Max(s)}] \in X[s \ {Max(s)}]
        PROVE  it[s] \in X[s]
    <3>1. it[s] = Step(it[s \ {Max(s)}], ids[Max(s)])
      BY <1>1, <1>8, <2>2
    <3>2. Max(s) \in 1..n /\ s \ {Max(s)} \in SUBSET (1..n)
      BY <1>5, <2>2
    <3>3. it[s \ {Max(s)}] \in Seq(Ids) /\ X[s] = Seq(Ids)
      BY <1>6, <2>2, <3>2
    <3>4. Step(it[s \ {Max(s)}], ids[Max(s)]) \in Seq(Ids)
      BY <1>4, <3>2, <3>3
    <3>5. QED
      BY <3>1, <3>3, <3>4
  <2>3. QED
    BY <1>1, <1>3, <2>1, <2>2, FoldValue
<1>10. QED
  BY <1>1, <1>2, <1>6, <1>9

\* Reordering changes numbers and nothing else.
LEMMA ReorderedKeeps ==
    ASSUME NEW bs, Good(bs), NEW ids \in Seq(Ids)
    PROVE  /\ DOMAIN Reordered(bs, ids) = DOMAIN bs
           /\ \A id \in DOMAIN bs : \E place \in Nat :
                 Reordered(bs, ids)[id] = [bs[id] EXCEPT !.order = place]
<1> DEFINE named == Named(bs, ids)
           rest == DOMAIN bs \ ToSet(named)
           place(id) == IF id \in rest
                        THEN Len(named) + Rank({Place(bs, i) : i \in rest}, Place(bs, id))
                        ELSE (CHOOSE k \in DOMAIN named : named[k] = id) - 1
<1>1. Reordered(bs, ids) = [id \in DOMAIN bs |-> [bs[id] EXCEPT !.order = place(id)]]
  BY DEF Reordered
<1>2. named \in Seq(Ids)
  BY NamedType
<1>3. IsFiniteSet(rest)
  BY NumbersAssumption, FS_Subset DEF Good, Collection
<1> HIDE DEF named, rest
<1>4. ASSUME NEW id \in DOMAIN bs
      PROVE  place(id) \in Nat
  <2>1. CASE id \in rest
    <3>1. {i \in rest : Precedes(bs, i, id)} \subseteq rest
      OBVIOUS
    <3>2. Cardinality({i \in rest : Precedes(bs, i, id)}) \in Nat
      BY <1>3, <3>1, FS_Subset, FS_CardinalityType
    <3>3. Rank({Place(bs, i) : i \in rest}, Place(bs, id)) \in Nat
      BY <1>3, <3>2, RankCounts DEF rest
    <3>4. Len(named) \in Nat
      BY <1>2
    <3>5. QED
      BY <2>1, <3>3, <3>4
  <2>2. CASE id \notin rest
    <3>1. \E k \in DOMAIN named : named[k] = id
      BY <2>2 DEF rest, ToSet
    <3>2. DOMAIN named = 1..Len(named) /\ Len(named) \in Nat
      BY <1>2
    <3>3. (CHOOSE k \in DOMAIN named : named[k] = id) \in 1..Len(named)
      BY <3>1, <3>2
    <3>4. QED
      BY <2>2, <3>2, <3>3
  <2>3. QED
    BY <2>1, <2>2
<1> HIDE DEF place
<1>5. QED
  BY <1>1, <1>4

LEMMA ReorderBookmarksKeeps ==
    ASSUME BookInv, NEW ids \in Seq(Ids), ReorderBookmarks(ids)
    PROVE  BookInv' /\ OrderStep
<1> DEFINE cs == Reordered(Loaded, ids)
<1>1. /\ Good(Loaded) /\ DOMAIN Loaded = DOMAIN stored /\ Recorded(Loaded) = ledger
      /\ \A id \in DOMAIN Loaded : Tidy(Loaded[id]) /\ Loaded[id] \in Bookmark
  BY IsLoaded
<1>2. Persist(cs) /\ ledger' = ledger
  BY DEF ReorderBookmarks
<1>3. /\ DOMAIN cs = DOMAIN Loaded
      /\ \A id \in DOMAIN Loaded : \E place \in Nat :
            cs[id] = [Loaded[id] EXCEPT !.order = place]
  BY <1>1, ReorderedKeeps
<1> HIDE DEF cs
<1>4. ASSUME NEW id \in DOMAIN Loaded
      PROVE  /\ cs[id] \in Bookmark /\ cs[id].path = Loaded[id].path
             /\ Rec(id, cs[id]) = Rec(id, Loaded[id]) /\ Sound(cs[id]) /\ Tidy(cs[id])
             /\ [cs[id] EXCEPT !.order = 0] = [Loaded[id] EXCEPT !.order = 0]
  <2>1. PICK place \in Nat : cs[id] = [Loaded[id] EXCEPT !.order = place]
    BY <1>3
  <2>2. Loaded[id] \in Bookmark /\ Tidy(Loaded[id]) /\ Sound(Loaded[id])
    BY <1>1, TidyHolds
  <2>3. /\ cs[id] \in Bookmark /\ cs[id].path = Loaded[id].path
        /\ Held(cs[id]) = Held(Loaded[id]) /\ Sound(cs[id]) /\ Tidy(cs[id])
    BY <2>1, <2>2, Numbered
  <2>4. [cs[id] EXCEPT !.order = 0] = [Loaded[id] EXCEPT !.order = 0]
    BY <2>1, <2>2 DEF Bookmark
  <2>5. QED
    BY <2>3, <2>4 DEF Rec
<1>5. Good(cs)
  BY <1>1, <1>3, <1>4 DEF Good, Collection, OnePath
<1>6. Recorded(cs) = ledger'
  BY <1>1, <1>2, <1>3, <1>4 DEF Recorded
<1>7. BookInv'
  BY <1>2, <1>5, <1>6, Saved DEF BookInv
<1>8. /\ DOMAIN stored' = DOMAIN cs
      /\ \A id \in DOMAIN cs : Kept(cs[id], stored'[id])
  BY <1>2, <1>5, Persisted DEF Good
<1>9. Unordered(stored') = Unordered(Loaded)
  <2>1. \A id \in DOMAIN Loaded : [stored'[id] EXCEPT !.order = 0] = [Loaded[id] EXCEPT !.order = 0]
    BY <1>3, <1>4, <1>8 DEF Kept
  <2>2. DOMAIN stored' = DOMAIN Loaded
    BY <1>3, <1>8
  <2>3. QED
    BY <2>1, <2>2 DEF Unordered
<1>10. OrderStep
  BY <1>1, <1>3, <1>8, <1>9 DEF OrderStep
<1>11. QED
  BY <1>7, <1>10

-------------------------------------------------------------------------------
(* Importing *)

\* What an imported bookmark adds to the ledger.
Brought(id, b) == {<<Fold[b.path], id, at>> : at \in Times(Migrate(b).history)}

\* A good collection of tidy bookmarks, as a function.
Neat(cs) == /\ cs \in [DOMAIN cs -> Bookmark] /\ Good(cs)
            /\ \A id \in DOMAIN cs : Tidy(cs[id])

\* Bookmarks keep their numbers, and new ones come last.
Extends(bs, cs) == /\ DOMAIN bs \subseteq DOMAIN cs
                   /\ \A i \in DOMAIN bs : cs[i].order = bs[i].order
                   /\ \A i \in DOMAIN cs \ DOMAIN bs : cs[i].order >= Cardinality(DOMAIN bs)

LEMMA Finite ==
    ASSUME NEW bs, Good(bs)
    PROVE  IsFiniteSet(DOMAIN bs) /\ Cardinality(DOMAIN bs) \in Nat
BY NumbersAssumption, FS_Subset, FS_CardinalityType DEF Good, Collection

\* Merging puts one bookmark, of the imported path.
LEMMA Merged ==
    ASSUME NEW bs, Neat(bs), NEW inc \in Incoming, NEW id,
           \/ id \in Matching(bs, inc.path)
           \/ Matching(bs, inc.path) = {} /\ id \in Ids \ DOMAIN bs
    PROVE  /\ Neat(Merge(bs, id, inc)) /\ Extends(bs, Merge(bs, id, inc))
           /\ Recorded(Merge(bs, id, inc)) = Recorded(bs) \cup Brought(id, inc)
<1> DEFINE known == id \in DOMAIN bs
           base == IF known THEN bs[id]
                   ELSE NewBookmark(inc.path, NoNote, Cardinality(DOMAIN bs))
           noted == IF inc.note # NoNote THEN [base EXCEPT !.note = inc.note] ELSE base
           mh == Migrate(inc).history
           c == [noted EXCEPT !.history = FoldLeft(AppendOrUpdate, @, mh)]
           b == SyncLastResult(c)
           cs == With(bs, id, b)
<1>1. Merge(bs, id, inc) = cs
  BY DEF Merge
<1>2. /\ inc.path \in Paths /\ inc.note \in Notes /\ inc.history \in Seq(Results)
      /\ inc.last \in Results \cup {NoResult} /\ mh \in Seq(Results)
  <2>1. inc \in [key : Keys \cup {NoKey}, path : Paths, note : Notes, history : Seq(Results),
                 last : Results \cup {NoResult}]
    BY IncomingAssumption
  <2>2. Migrate(inc).history = IF inc.history = <<>> /\ inc.last # NoResult THEN <<inc.last>>
                               ELSE inc.history
    BY <2>1 DEF Migrate
  <2>3. \A r \in Results : <<r>> \in Seq(Results)
    OBVIOUS
  <2>4. QED
    BY <2>1, <2>2, <2>3
<1>3. Good(bs) /\ DOMAIN bs \subseteq Ids /\ Cardinality(DOMAIN bs) \in Nat
      /\ IsFiniteSet(DOMAIN bs)
  BY Finite DEF Neat, Good, Collection
<1>5. /\ id \in Ids
      /\ known => id \in DOMAIN bs /\ Fold[bs[id].path] = Fold[inc.path]
      /\ ~known => id \notin DOMAIN bs /\ \A i \in DOMAIN bs : Fold[bs[i].path] # Fold[inc.path]
  BY <1>3 DEF Matching, PathsEqual
<1> HIDE DEF known, mh
<1>6. /\ base \in Bookmark /\ Tidy(base) /\ Fold[base.path] = Fold[inc.path]
      /\ base.order = IF known THEN bs[id].order ELSE Cardinality(DOMAIN bs)
  <2>1. CASE known
    BY <1>5, <2>1 DEF known, Neat, Good, Collection
  <2>2. CASE ~known
    BY <1>2, <1>3, <2>2, NotesAssumption, NewHolds
  <2>3. QED
    BY <2>1, <2>2
<1>7. Recorded(bs) = Others(bs, id) \cup {<<Fold[inc.path], id, at>> : at \in Times(base.history)}
  <2>1. CASE known
    <3>1. base = bs[id] /\ Rec(id, base) = {<<Fold[inc.path], id, at>> : at \in Times(base.history)}
      BY <1>6, <2>1, TidyHolds DEF Rec
    <3>2. QED
      BY <1>3, <1>5, <2>1, <3>1, Apart
  <2>2. CASE ~known
    <3>1. base.history = <<>> /\ Times(<<>>) = {}
      BY <1>2, <1>3, <2>2, NotesAssumption, NewHolds DEF Times, ToSet
    <3>2. Others(bs, id) = Recorded(bs)
      BY <1>5, <2>2 DEF Others, Recorded
    <3>3. QED
      BY <3>1, <3>2
  <2>3. QED
    BY <2>1, <2>2
<1> HIDE DEF base
<1>8. /\ noted \in Bookmark /\ noted.path = base.path /\ noted.order = base.order
      /\ noted.history = base.history
  BY <1>2, <1>6 DEF Bookmark
<1> HIDE DEF noted
<1>9. noted.history \in Seq(Results) /\ Distinct(noted.history)
  BY <1>6, <1>8, TidyHolds DEF Bookmark
<1> DEFINE g == FoldLeft(AppendOrUpdate, noted.history, mh)
<1>10. g \in Seq(Results) /\ Distinct(g) /\ Times(g) = Times(base.history) \cup Times(mh)
  BY <1>2, <1>8, <1>9, AppendedAll
<1>11. c = [noted EXCEPT !.history = g]
  OBVIOUS
<1> HIDE DEF g, c
<1>12. c \in Bookmark /\ c.path = base.path /\ c.order = base.order /\ c.history = g
  BY <1>8, <1>10, <1>11 DEF Bookmark
<1>13. /\ b \in Bookmark /\ b.path = base.path /\ b.order = base.order
       /\ Held(b) = Times(g) /\ Sound(b) /\ Tidy(b)
  BY <1>10, <1>12, SyncedHolds
<1> HIDE DEF b
<1>14. Alone(bs, id, b.path)
  BY <1>3, <1>5, <1>6, <1>13 DEF Alone, Good, OnePath
<1>15. Good(cs) /\ IsPut(bs, cs, id, b)
  BY <1>3, <1>5, <1>13, <1>14, Put
<1>16. cs \in [DOMAIN cs -> Bookmark]
  <2>1. cs = [i \in DOMAIN cs |-> cs[i]]
    BY DEF With
  <2>2. \A i \in DOMAIN cs : cs[i] \in Bookmark
    BY <1>15 DEF Good, Collection
  <2> HIDE DEF cs
  <2>3. QED
    BY <2>1, <2>2
<1> HIDE DEF cs
<1>17. Neat(cs)
  BY <1>13, <1>15, <1>16 DEF Neat, IsPut
<1>18. Extends(bs, cs)
  BY <1>3, <1>5, <1>6, <1>13, <1>15 DEF Extends, IsPut
<1>19. Recorded(cs) = Recorded(bs) \cup Brought(id, inc)
  <2>1. Rec(id, b) = {<<Fold[inc.path], id, at>> : at \in Times(base.history) \cup Times(mh)}
    BY <1>6, <1>10, <1>13 DEF Rec
  <2>2. Brought(id, inc) = {<<Fold[inc.path], id, at>> : at \in Times(mh)}
    BY DEF Brought, mh
  <2>3. Recorded(cs) = Others(bs, id) \cup Rec(id, b)
    BY <1>15 DEF IsPut
  <2>4. QED
    BY <1>7, <2>1, <2>2, <2>3
<1>20. QED
  BY <1>1, <1>17, <1>18, <1>19

\* What comes last after the first merge comes last after both.
LEMMA ExtendsTwice ==
    ASSUME NEW bs, NEW cs, NEW ds, Neat(bs), Neat(cs), Neat(ds), Extends(bs, cs), Extends(cs, ds)
    PROVE  Extends(bs, ds)
<1>1. Cardinality(DOMAIN bs) <= Cardinality(DOMAIN cs)
  BY Finite, FS_Subset DEF Neat, Extends
<1>2. Cardinality(DOMAIN bs) \in Nat /\ Cardinality(DOMAIN cs) \in Nat
  BY Finite DEF Neat
<1>3. ASSUME NEW i \in DOMAIN ds \ DOMAIN bs
      PROVE  ds[i].order >= Cardinality(DOMAIN bs)
  <2>1. CASE i \in DOMAIN cs
    BY <2>1 DEF Extends
  <2>2. CASE i \notin DOMAIN cs
    <3>1. ds[i].order >= Cardinality(DOMAIN cs) /\ ds[i].order \in Nat
      BY <2>2 DEF Extends, Neat, Good, Collection, Bookmark
    <3>2. QED
      BY <1>1, <1>2, <3>1
  <2>3. QED
    BY <2>1, <2>2
<1>4. QED
  BY <1>3 DEF Extends

\* What an import may have made of the bookmarks so far, with the ledger of it.
Made(local) ==
    {[books |-> cs, ledger |-> Recorded(cs)] :
        cs \in {ds \in UNION {[D -> Bookmark] : D \in SUBSET Ids} :
                  Neat(ds) /\ Extends(local, ds)}}

\* One more imported bookmark is merged into each of them.
LEMMA MergesAgain ==
    ASSUME NEW local, Neat(local), NEW now \in Made(local), NEW inc \in Incoming
    PROVE  Merges(now, inc) \subseteq Made(local)
<1> DEFINE All == UNION {[D -> Bookmark] : D \in SUBSET Ids}
           bs == now.books
           known == Matching(bs, inc.path)
<1>1. Neat(bs) /\ Extends(local, bs) /\ now.ledger = Recorded(bs)
  BY DEF Made
<1>2. SUFFICES ASSUME NEW id \in IF known # {} THEN known ELSE Ids \ DOMAIN bs
               PROVE  [books |-> Merge(bs, id, inc),
                       ledger |-> now.ledger \cup
                          {<<Fold[inc.path], id, r.at>> : r \in ToSet(Migrate(inc).history)}]
                         \in Made(local)
  BY DEF Merges
<1> DEFINE ds == Merge(bs, id, inc)
<1>3. /\ Neat(ds) /\ Extends(bs, ds) /\ Recorded(ds) = Recorded(bs) \cup Brought(id, inc)
  BY <1>1, Merged
<1>4. {<<Fold[inc.path], id, r.at>> : r \in ToSet(Migrate(inc).history)} = Brought(id, inc)
  BY DEF Brought, Times
<1> HIDE DEF ds, bs
<1>5. Extends(local, ds)
  BY <1>1, <1>3, ExtendsTwice
<1>6. ds \in All
  <2>1. DOMAIN ds \in SUBSET Ids /\ ds \in [DOMAIN ds -> Bookmark]
    BY <1>3 DEF Neat, Good, Collection
  <2>2. QED
    BY <2>1
<1>7. [books |-> ds, ledger |-> Recorded(ds)] \in Made(local)
  BY <1>3, <1>5, <1>6 DEF Made
<1>8. QED
  BY <1>1, <1>3, <1>4, <1>7 DEF ds

\* An import merges every bookmark of the file, in any order and wherever it may go.
LEMMA MergedAll ==
    ASSUME BookInv, Neat(Loaded), NEW bs \in Seq(Incoming)
    PROVE  Imports(bs) \subseteq Made(Loaded)
<1> DEFINE n == Len(bs)
           base == {[books |-> Loaded, ledger |-> ledger]}
           M == SUBSET Made(Loaded)
           Step(nows, inc) == UNION {Merges(now, inc) : now \in nows}
           X == [s \in SUBSET (1..n) |-> M]
           F == [q \in M \X Incoming |-> Step(q[1], q[2])]
           Solves(it) == it = [s \in SUBSET DOMAIN bs |->
                                 IF s = {} THEN base ELSE Step(it[s \ {Max(s)}], bs[Max(s)])]
           it == CHOOSE it : Solves(it)
<1>1. n \in Nat /\ DOMAIN bs = 1..n /\ \A i \in 1..n : bs[i] \in Incoming
  OBVIOUS
<1>2. Imports(bs) = it[DOMAIN bs]
  BY DEF Imports, FoldLeft, MapThenFoldSet
<1>3. base \in M
  <2>1. DOMAIN Loaded \in SUBSET Ids /\ Loaded \in [DOMAIN Loaded -> Bookmark]
    BY DEF Neat, Good, Collection
  <2>2. Extends(Loaded, Loaded) /\ ledger = Recorded(Loaded)
    BY IsLoaded DEF Extends
  <2>3. QED
    BY <2>1, <2>2 DEF Made
<1>4. ASSUME NEW nows \in M, NEW k \in 1..n
      PROVE  Step(nows, bs[k]) \in M
  BY <1>1, MergesAgain
<1> HIDE DEF n, Step, base, M
<1>5. ASSUME NEW s \in SUBSET (1..n), s # {}
      PROVE  /\ Max(s) \in 1..n /\ s \ {Max(s)} \in SUBSET (1..n)
             /\ (s \ {Max(s)}) \cup {Max(s)} = s
  BY <1>1, <1>5, Greatest
<1>6. \A s \in SUBSET (1..n) : X[s] = M
  OBVIOUS
<1>a. base \in X[{}]
  BY <1>3, <1>6
<1> HIDE DEF X
<1>7. \E i : Solves(i)
  <2>1. \A nows \in M, inc \in Incoming : F[<<nows, inc>>] = Step(nows, inc)
    OBVIOUS
  <2> HIDE DEF F
  <2>2. Steps(n, X, F, bs)
    <3>1. SUFFICES ASSUME NEW s \in SUBSET (1..n), NEW k \in 1..n, NEW nows \in X[s]
                   PROVE  F[<<nows, bs[k]>>] \in X[s \cup {k}]
      BY DEF Steps
    <3>2. nows \in M /\ X[s \cup {k}] = M
      BY <1>6
    <3>3. QED
      BY <1>1, <1>4, <2>1, <3>2
  <2>3. PICK i : /\ i = [s \in SUBSET (1..n) |-> i[s]]
                 /\ i[{}] = base
                 /\ \A s \in SUBSET (1..n) :
                       /\ s # {} => i[s] = F[<<i[s \ {Max(s)}], bs[Max(s)]>>]
                       /\ i[s] \in X[s]
    <3>1. HasFold(n, X, F, base, bs)
      BY <1>1, <1>a, <2>2, FoldExists
    <3>2. QED
      BY <3>1 DEF HasFold
  <2>4. ASSUME NEW s \in SUBSET (1..n), s # {}
        PROVE  F[<<i[s \ {Max(s)}], bs[Max(s)]>>] = Step(i[s \ {Max(s)}], bs[Max(s)])
    <3>1. Max(s) \in 1..n /\ s \ {Max(s)} \in SUBSET (1..n)
      BY <1>5, <2>4
    <3>2. i[s \ {Max(s)}] \in M /\ bs[Max(s)] \in Incoming
      BY <1>1, <1>6, <2>3, <3>1
    <3>3. QED
      BY <2>1, <3>2
  <2>5. i = [s \in SUBSET (1..n) |-> IF s = {} THEN base
                                     ELSE Step(i[s \ {Max(s)}], bs[Max(s)])]
    BY <2>3, <2>4
  <2>6. Solves(i)
    BY <1>1, <2>5
  <2>7. QED
    BY <2>6
<1>8. Solves(it)
  BY <1>7
<1> HIDE DEF it
<1>9. it[1..n] \in X[1..n]
  <2>1. it[{}] = base
    BY <1>8
  <2>2. ASSUME NEW s \in SUBSET (1..n), s # {}, it[s \ {Max(s)}] \in X[s \ {Max(s)}]
        PROVE  it[s] \in X[s]
    <3>1. it[s] = Step(it[s \ {Max(s)}], bs[Max(s)])
      BY <1>1, <1>8, <2>2
    <3>2. Max(s) \in 1..n /\ s \ {Max(s)} \in SUBSET (1..n)
      BY <1>5, <2>2
    <3>3. it[s \ {Max(s)}] \in M /\ X[s] = M
      BY <1>6, <2>2, <3>2
    <3>4. Step(it[s \ {Max(s)}], bs[Max(s)]) \in M
      BY <1>4, <3>2, <3>3
    <3>5. QED
      BY <3>1, <3>3, <3>4
  <2>3. QED
    BY <1>1, <1>a, <2>1, <2>2, FoldValue
<1>10. QED
  BY <1>1, <1>2, <1>6, <1>9 DEF M

LEMMA ImportDataKeeps ==
    ASSUME BookInv, NEW file \in Seq(Incoming), ImportData(file)
    PROVE  BookInv' /\ OrderStep
<1>1. /\ Good(Loaded) /\ DOMAIN Loaded = DOMAIN stored
      /\ \A id \in DOMAIN Loaded : Tidy(Loaded[id]) /\ Loaded[id] \in Bookmark
  BY IsLoaded
<1>2. Loaded \in [DOMAIN Loaded -> Bookmark]
  <2>1. Loaded = [id \in DOMAIN Loaded |-> Loaded[id]]
    BY DEF Loaded, Normalize, Renumber
  <2>2. QED
    BY <1>1, <2>1
<1>3. Neat(Loaded)
  BY <1>1, <1>2 DEF Neat
<1>4. PICK order \in SetToSeqs(Decoded(file)) :
        \E now \in Imports([k \in DOMAIN order |-> file[order[k]]]) :
           Persist(now.books) /\ ledger' = now.ledger
  BY DEF ImportData
<1> DEFINE bs == [k \in DOMAIN order |-> file[order[k]]]
           S == Decoded(file)
<1>5. bs \in Seq(Incoming)
  <2>1. S \subseteq 1..Len(file) /\ Len(file) \in Nat /\ \A k \in S : file[k] \in Incoming
    BY DEF Decoded
  <2>2. IsFiniteSet(1..Len(file))
    BY <2>1, FS_Interval
  <2>3. Cardinality(S) \in Nat
    BY <2>1, <2>2, FS_Subset, FS_CardinalityType
  <2>4. order \in [1..Cardinality(S) -> S]
    BY DEF SetToSeqs
  <2> HIDE DEF S
  <2>5. QED
    <3> DEFINE m == Cardinality(S)
    <3>1. m \in Nat /\ DOMAIN order = 1..m /\ \A k \in 1..m : order[k] \in S
      BY <2>3, <2>4
    <3> HIDE DEF m
    <3>2. bs = [k \in 1..m |-> file[order[k]]] /\ bs \in [1..m -> Incoming]
      BY <2>1, <3>1
    <3>3. QED
      BY <3>1, <3>2
<1>6. PICK now \in Imports(bs) : Persist(now.books) /\ ledger' = now.ledger
  BY <1>4
<1> HIDE DEF bs
<1>7. now \in Made(Loaded)
  BY <1>3, <1>5, MergedAll
<1> DEFINE cs == now.books
<1>8. Neat(cs) /\ Extends(Loaded, cs) /\ ledger' = Recorded(cs)
  BY <1>6, <1>7 DEF Made
<1>9. InOrder(cs)
  BY <1>1, <1>8 DEF InOrder, Extends
<1>10. QED
  BY <1>6, <1>8, <1>9, SavedInOrder DEF Neat

-------------------------------------------------------------------------------
(* The theorems *)

\* An older version wrote any numbers and paths, last results, and no histories.
LEMMA InitInv == Init => BookInv
<1> SUFFICES ASSUME Init PROVE BookInv
  OBVIOUS
<1>1. PICK ids \in SUBSET OldIds : stored \in [ids -> OldBookmarks]
  BY DEF Init
<1>2. DOMAIN stored = ids /\ ids \subseteq Ids
  BY <1>1, OldAssumption
<1>3. ASSUME NEW id \in ids
      PROVE  /\ stored[id] \in Bookmark
             /\ Migrate(stored[id]).history
                   = IF stored[id].last # NoResult THEN <<stored[id].last>> ELSE <<>>
             /\ stored[id].last \in Results \cup {NoResult}
  <2>1. stored[id] \in OldBookmarks
    BY <1>1
  <2>2. <<>> \in Seq(Results)
    OBVIOUS
  <2>3. stored[id] \in Bookmark /\ stored[id].history = <<>>
    BY <2>1, <2>2, OldAssumption, NotesAssumption DEF OldBookmarks, Bookmark
  <2>4. QED
    BY <2>1, <2>3 DEF Migrate, OldBookmarks, Bookmark
<1>4. ASSUME NEW id \in ids
      PROVE  /\ Sound(stored[id])
             /\ Rec(id, stored[id]) = {<<Fold[stored[id].path], i, stored[i].last.at>> :
                                         i \in {id} \cap {k \in ids : stored[k].last # NoResult}}
  <2>1. CASE stored[id].last = NoResult
    <3>1. Migrate(stored[id]).history = <<>>
      BY <1>3, <2>1
    <3>2. Held(stored[id]) = {} /\ Sound(stored[id])
      BY <3>1 DEF Held, Sound, Times, ToSet, Distinct
    <3>3. QED
      BY <2>1, <3>2 DEF Rec
  <2>2. CASE stored[id].last # NoResult
    <3>1. Migrate(stored[id]).history = <<stored[id].last>>
      BY <1>3, <2>2
    <3>2. Held(stored[id]) = {stored[id].last.at} /\ Sound(stored[id])
      BY <3>1 DEF Held, Sound, Times, ToSet, Distinct
    <3>3. QED
      BY <2>2, <3>2 DEF Rec
  <2>3. QED
    BY <2>1, <2>2
<1>5. Good(stored)
  <2>1. OnePath(stored)
    BY DEF Init, OnePath
  <2>2. QED
    BY <1>2, <1>3, <1>4, <2>1 DEF Good, Collection
<1>6. ledger = Recorded(stored)
  <2>1. ledger = {<<Fold[stored[id].path], id, stored[id].last.at>> :
                    id \in {i \in ids : stored[i].last # NoResult}}
    BY <1>2 DEF Init
  <2>2. QED
    BY <1>2, <1>4, <2>1 DEF Recorded
<1>7. doubled \in SUBSET (OldIds \X OldIds)
  BY <1>2 DEF Init
<1>8. QED
  BY <1>5, <1>6, <1>7 DEF BookInv

\* What SeqOf enumerates are sequences.
LEMMA SeqOfIsSeq ==
    ASSUME NEW S, NEW n, NEW s \in SeqOf(S, n), n \in Nat
    PROVE  s \in Seq(S)
<1>1. PICK m \in 0..n : s \in [1..m -> S]
  BY DEF SeqOf
<1>2. QED
  BY <1>1

LEMMA NextInv == BookInv /\ [Next]_vars => BookInv' /\ (OrderStep \/ vars' = vars)
<1> SUFFICES ASSUME BookInv, [Next]_vars
             PROVE  BookInv' /\ (OrderStep \/ vars' = vars)
  OBVIOUS
<1>1. ASSUME NEW path \in Paths, NEW note \in Notes, SaveBookmark(path, note)
      PROVE  BookInv' /\ OrderStep
  BY <1>1, SaveBookmarkKeeps
<1>2. ASSUME NEW path \in Paths, NEW at \in Stamps,
             SaveHistoryResult(path, [at |-> at, label |-> FALSE])
      PROVE  BookInv' /\ OrderStep
  <2>1. [at |-> at, label |-> FALSE] \in Results
    BY DEF Results
  <2>2. QED
    BY <1>2, <2>1, SaveHistoryResultKeeps
<1>3. ASSUME NEW id \in Ids, NEW note \in Notes, UpdateNote(id, note)
      PROVE  BookInv' /\ OrderStep
  BY <1>3, UpdateNoteKeeps
<1>4. ASSUME NEW id \in Ids, DeleteBookmark(id)
      PROVE  BookInv' /\ OrderStep
  BY <1>4, DeleteBookmarkKeeps
<1>5. ASSUME NEW id \in Ids, ClearHistory(id)
      PROVE  BookInv' /\ OrderStep
  BY <1>5, ClearHistoryKeeps
<1>6. ASSUME NEW id \in Ids, NEW at \in Stamps, DeleteHistoryItem(id, at)
      PROVE  BookInv' /\ OrderStep
  BY <1>6, DeleteHistoryItemKeeps
<1>7. ASSUME NEW id \in Ids, NEW at \in Stamps, NEW label \in BOOLEAN,
             RenameHistoryItem(id, at, label)
      PROVE  BookInv' /\ OrderStep
  BY <1>7, RenameHistoryItemKeeps
<1>8. ASSUME NEW ids \in SeqOf(Ids, MaxListed), ReorderBookmarks(ids)
      PROVE  BookInv' /\ OrderStep
  <2>1. ids \in Seq(Ids)
    BY BoundsAssumption, SeqOfIsSeq
  <2>2. QED
    BY <1>8, <2>1, ReorderBookmarksKeeps
<1>9. ASSUME NEW file \in SeqOf(Incoming, MaxListed), ImportData(file)
      PROVE  BookInv' /\ OrderStep
  <2>1. file \in Seq(Incoming)
    BY BoundsAssumption, SeqOfIsSeq
  <2>2. QED
    BY <1>9, <2>1, ImportDataKeeps
<1>10. CASE vars' = vars
  BY <1>10 DEF vars, BookInv, Good, Collection, OnePath, Recorded
<1>11. CASE Next
  BY <1>1, <1>2, <1>3, <1>4, <1>5, <1>6, <1>7, <1>8, <1>9, <1>11 DEF Next
<1>12. QED
  BY <1>10, <1>11

\* Whatever an older version left and whatever is done, the bookmarks are numbered
\* without gaps or ties, and nothing gives a path, however it is spelt, a second one.
THEOREM BookmarksStayWellFormed == Spec => []WellFormed
<1>1. Init => BookInv
  BY InitInv
<1>2. BookInv /\ [Next]_vars => BookInv'
  BY NextInv
<1>3. BookInv => WellFormed
  BY InvariantSays
<1>4. QED
  BY <1>1, <1>2, <1>3, PTL DEF Spec

\* Whatever is done, through every migration and import, the histories hold
\* exactly the results that were recorded and not deleted since.
THEOREM HistoriesMatchTheLedger == Spec => []HistoryMatchesLedger
<1>1. Init => BookInv
  BY InitInv
<1>2. BookInv /\ [Next]_vars => BookInv'
  BY NextInv
<1>3. BookInv => HistoryMatchesLedger
  BY InvariantSays
<1>4. QED
  BY <1>1, <1>2, <1>3, PTL DEF Spec

\* Only reordering reorders, and it changes nothing else; new bookmarks go last.
THEOREM OnlyReorderingReorders == Spec => OrderIsStable
<1>1. Init => BookInv
  BY InitInv
<1>2. BookInv /\ [Next]_vars => BookInv' /\ [OrderStep]_vars
  BY NextInv
<1>3. QED
  BY <1>1, <1>2, PTL DEF Spec, OrderIsStable, OrderStep

===============================================================================
