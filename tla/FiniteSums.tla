------------------------------ MODULE FiniteSums ------------------------------
(***************************************************************************)
(* Sums of natural numbers over finite sets, as cardinalities: the sum of  *)
(* the amounts a[x] for x in T is the number of pairs of an x in T and a   *)
(* number in 1 .. a[x].  The lemmas say how a sum changes with its parts,  *)
(* and that the recursive definitions the specifications use have it as    *)
(* their value.                                                            *)
(***************************************************************************)
EXTENDS Integers, Sequences, FiniteSets, FiniteSetTheorems, WellFoundedInduction, TLAPS

\* A set of numbers has a least one: induction, for one predicate at a time.
LEMMA Least ==
    ASSUME NEW T, T \subseteq Nat, T # {}
    PROVE  \E x \in T : \A y \in T : x <= y
<1> DEFINE R == {ss \in Nat \X Nat : ss[1] < ss[2]}
<1>1. IsWellFoundedOn(R, Nat)
  BY NatLessThanWellFounded DEF OpToRel
<1>2. \A x, y \in Nat : y < x => <<y, x>> \in R
  OBVIOUS
<1> HIDE DEF R
<1>3. PICK x \in T : \A y \in T : ~(<<y, x>> \in R)
  BY <1>1, WFMin
<1>4. ASSUME NEW y \in T
      PROVE  x <= y
  <2>1. x \in Nat /\ y \in Nat
    OBVIOUS
  <2>2. ~(y < x)
    BY <1>2, <1>3, <2>1, Zenon
  <2>3. QED
    BY <2>1, <2>2
<1>5. QED
  BY <1>4

-------------------------------------------------------------------------------
(* Sums *)

Units(a, T) == {q \in T \X Nat : q[2] \in 1 .. a[q[1]]}

\* the sum of the amounts a[x], x in T
Total(a, T) == Cardinality(Units(a, T))

\* A finite sum is a number.
LEMMA TotalType ==
    ASSUME NEW S, NEW a \in [S -> Nat], NEW T \in SUBSET S, IsFiniteSet(T)
    PROVE  IsFiniteSet(Units(a, T)) /\ Total(a, T) \in Nat
<1> DEFINE block == [x \in T |-> {x} \X (1 .. a[x])]
           Blocks == {block[x] : x \in T}
<1>1. block \in Surjection(T, Blocks)
  BY DEF Surjection
<1>2. IsFiniteSet(Blocks)
  <2> HIDE DEF block
  <2>1. QED
    BY <1>1, FS_Surjection
<1>3. ASSUME NEW x \in T PROVE IsFiniteSet(block[x])
  <2>1. IsFiniteSet({x})
    BY FS_Singleton
  <2>2. a[x] \in Int /\ 1 \in Int
    OBVIOUS
  <2>3. IsFiniteSet(1 .. a[x])
    BY <2>2, FS_Interval
  <2>4. IsFiniteSet({x} \X (1 .. a[x]))
    BY <2>1, <2>3, FS_Product
  <2>5. QED
    BY <2>4
<1>4. Units(a, T) = UNION Blocks
  <2>1. ASSUME NEW q \in Units(a, T) PROVE q \in UNION Blocks
    <3>1. q[1] \in T /\ q[2] \in 1 .. a[q[1]] /\ q = <<q[1], q[2]>>
      BY DEF Units
    <3>2. q \in block[q[1]]
      BY <3>1
    <3>3. QED
      BY <3>1, <3>2
  <2>2. ASSUME NEW x \in T, NEW q \in block[x] PROVE q \in Units(a, T)
    BY DEF Units
  <2>3. QED
    BY <2>1, <2>2
<1>5. IsFiniteSet(UNION Blocks)
  <2>1. \A B \in Blocks : IsFiniteSet(B)
    BY <1>3
  <2> HIDE DEF Blocks
  <2>2. QED
    BY <1>2, <2>1, FS_UNION
<1>6. QED
  BY <1>4, <1>5, FS_CardinalityType DEF Total

\* The empty sum is 0.
LEMMA TotalEmpty == ASSUME NEW a PROVE Total(a, {}) = 0
<1>1. Units(a, {}) = {}
  BY DEF Units
<1>2. QED
  BY <1>1, FS_EmptySet DEF Total

\* One more element adds its amount.
LEMMA TotalAdd ==
    ASSUME NEW S, NEW a \in [S -> Nat], NEW T \in SUBSET S, IsFiniteSet(T),
           NEW x \in S, x \notin T
    PROVE  Total(a, T \cup {x}) = Total(a, T) + a[x]
<1> DEFINE block == {x} \X (1 .. a[x])
<1>1. IsFiniteSet(Units(a, T)) /\ Total(a, T) \in Nat
  BY TotalType
<1>2. IsFiniteSet({x}) /\ Cardinality({x}) = 1
  BY FS_Singleton
<1>3. a[x] \in Nat
  OBVIOUS
<1>4. IsFiniteSet(1 .. a[x]) /\ Cardinality(1 .. a[x]) = a[x]
  <2>1. 1 \in Int /\ a[x] \in Int
    BY <1>3
  <2>2. IsFiniteSet(1 .. a[x]) /\ Cardinality(1 .. a[x]) = IF 1 > a[x] THEN 0 ELSE a[x] - 1 + 1
    BY <2>1, FS_Interval
  <2>3. QED
    BY <1>3, <2>2
<1>5. IsFiniteSet(block) /\ Cardinality(block) = a[x]
  <2>1. IsFiniteSet(block) /\ Cardinality(block) = Cardinality({x}) * Cardinality(1 .. a[x])
    BY <1>2, <1>4, FS_Product
  <2>2. QED
    BY <1>2, <1>3, <1>4, <2>1
<1>6. Units(a, T \cup {x}) = Units(a, T) \cup block
  <2>1. ASSUME NEW q \in Units(a, T \cup {x}) PROVE q \in Units(a, T) \cup block
    BY DEF Units
  <2>2. ASSUME NEW q \in Units(a, T) \cup block PROVE q \in Units(a, T \cup {x})
    BY DEF Units
  <2>3. QED
    BY <2>1, <2>2
<1>7. Units(a, T) \cap block = {}
  BY DEF Units
<1>8. Cardinality(Units(a, T) \cup block)
        = Cardinality(Units(a, T)) + Cardinality(block) - Cardinality(Units(a, T) \cap block)
  <2> HIDE DEF block
  <2>1. QED
    BY <1>1, <1>5, FS_Union
<1>9. Cardinality(Units(a, T) \cap block) = 0
  BY <1>7, FS_EmptySet
<1> HIDE DEF block
<1>10. Total(a, T \cup {x}) = Total(a, T) + a[x] - 0
  BY <1>5, <1>6, <1>8, <1>9 DEF Total
<1>11. QED
  BY <1>1, <1>3, <1>10

\* One element less takes its amount away.
LEMMA TotalRemove ==
    ASSUME NEW S, NEW a \in [S -> Nat], NEW T \in SUBSET S, IsFiniteSet(T), NEW x \in T
    PROVE  Total(a, T) = Total(a, T \ {x}) + a[x]
<1>1. T \ {x} \in SUBSET S /\ x \notin T \ {x} /\ (T \ {x}) \cup {x} = T /\ x \in S
  OBVIOUS
<1>2. IsFiniteSet(T \ {x})
  BY FS_RemoveElement
<1>3. QED
  BY <1>1, <1>2, TotalAdd

\* Only the amounts of the elements count, and none of those that are 0.
LEMMA TotalAgrees ==
    ASSUME NEW T, NEW U \in SUBSET T, NEW a, NEW b,
           \A x \in U : a[x] = b[x], \A x \in T \ U : a[x] = 0
    PROVE  Total(a, T) = Total(b, U)
<1>1. ASSUME NEW q \in Units(a, T) PROVE q \in Units(b, U)
  <2>1. q[1] \in T /\ q[2] \in Nat /\ q[2] \in 1 .. a[q[1]] /\ q = <<q[1], q[2]>>
    BY DEF Units
  <2>2. q[1] \in U
    BY <2>1
  <2>3. QED
    BY <2>1, <2>2 DEF Units
<1>2. ASSUME NEW q \in Units(b, U) PROVE q \in Units(a, T)
  BY DEF Units
<1>3. Units(a, T) = Units(b, U)
  BY <1>1, <1>2
<1>4. QED
  BY <1>3 DEF Total

\* A change of one amount changes the sum by as much.
LEMMA TotalUpdate ==
    ASSUME NEW S, IsFiniteSet(S), NEW a \in [S -> Nat], NEW b \in [S -> Nat], NEW x \in S,
           \A y \in S \ {x} : b[y] = a[y]
    PROVE  Total(b, S) + a[x] = Total(a, S) + b[x]
<1>1. Total(a, S) = Total(a, S \ {x}) + a[x] /\ Total(b, S) = Total(b, S \ {x}) + b[x]
  BY TotalRemove
<1>2. Total(a, S \ {x}) = Total(b, S \ {x})
  BY TotalAgrees
<1>3. Total(a, S \ {x}) \in Nat /\ a[x] \in Nat /\ b[x] \in Nat
  <2>1. IsFiniteSet(S \ {x})
    BY FS_RemoveElement
  <2>2. QED
    BY <2>1, TotalType
<1>4. QED
  BY <1>1, <1>2, <1>3

\* f gives each element of S, with its amount, another name
Renames(f, S, T, a, b) == f \in Bijection(S, T) /\ \A x \in S : b[f[x]] = a[x]

\* Renaming the elements leaves the sum as it is.
LEMMA TotalRenamed ==
    ASSUME NEW S, IsFiniteSet(S), NEW a \in [S -> Nat], NEW T, NEW b \in [T -> Nat],
           NEW f, Renames(f, S, T, a, b)
    PROVE  Total(b, T) = Total(a, S)
<1> DEFINE g == [q \in Units(a, S) |-> <<f[q[1]], q[2]>>]
<1>1. \A x \in S : b[f[x]] = a[x]
  BY DEF Renames
<1>2. IsFiniteSet(Units(a, S))
  BY TotalType
<1>3. /\ f \in [S -> T] /\ \A x, y \in S : f[x] = f[y] => x = y
      /\ \A z \in T : \E x \in S : f[x] = z
  BY DEF Renames, Bijection, Injection, IsInjective, Surjection
<1>4. \A q \in Units(a, S) :
        q[1] \in S /\ q[2] \in Nat /\ q[2] \in 1 .. a[q[1]] /\ q = <<q[1], q[2]>>
  BY DEF Units
<1>5. \A q \in Units(a, S) : g[q] \in Units(b, T)
  BY <1>3, <1>4, <1>1 DEF Units
<1>6. g \in Injection(Units(a, S), Units(b, T))
  <2>1. ASSUME NEW p \in Units(a, S), NEW q \in Units(a, S), g[p] = g[q]
        PROVE  p = q
    <3>1. f[p[1]] = f[q[1]] /\ p[2] = q[2]
      BY <2>1
    <3>2. QED
      BY <1>3, <1>4, <3>1
  <2>2. g \in [Units(a, S) -> Units(b, T)]
    BY <1>5
  <2> HIDE DEF g
  <2>3. QED
    BY <2>1, <2>2 DEF Injection, IsInjective
<1>7. g \in Surjection(Units(a, S), Units(b, T))
  <2>1. ASSUME NEW r \in Units(b, T)
        PROVE  \E q \in Units(a, S) : g[q] = r
    <3>1. r[1] \in T /\ r[2] \in Nat /\ r[2] \in 1 .. b[r[1]] /\ r = <<r[1], r[2]>>
      BY DEF Units
    <3>2. PICK x \in S : f[x] = r[1]
      BY <1>3, <3>1
    <3>3. <<x, r[2]>> \in Units(a, S)
      BY <1>1, <3>1, <3>2 DEF Units
    <3>4. g[<<x, r[2]>>] = r
      BY <3>1, <3>2, <3>3
    <3>5. QED
      BY <3>3, <3>4
  <2>2. g \in [Units(a, S) -> Units(b, T)]
    BY <1>5
  <2> HIDE DEF g
  <2>3. QED
    BY <2>1, <2>2 DEF Surjection
<1>8. ExistsBijection(Units(a, S), Units(b, T))
  BY <1>6, <1>7 DEF ExistsBijection, Bijection
<1>9. QED
  BY <1>2, <1>8, FS_Bijection DEF Total

-------------------------------------------------------------------------------
(* Sums over sequences, amount by amount *)

\* One more amount at the end.
LEMMA TotalAppend ==
    ASSUME NEW n \in Nat, NEW a \in [1 .. n -> Nat], NEW b \in [1 .. (n + 1) -> Nat],
           \A k \in 1 .. n : b[k] = a[k]
    PROVE  Total(b, 1 .. (n + 1)) = Total(a, 1 .. n) + b[n + 1]
<1>1. IsFiniteSet(1 .. n)
  BY FS_Interval
<1>2. 1 .. n \in SUBSET (1 .. (n + 1)) /\ n + 1 \in 1 .. (n + 1) /\ n + 1 \notin 1 .. n
      /\ (1 .. n) \cup {n + 1} = 1 .. (n + 1)
  OBVIOUS
<1>3. Total(b, 1 .. (n + 1)) = Total(b, 1 .. n) + b[n + 1]
  BY <1>1, <1>2, TotalAdd
<1>4. Total(b, 1 .. n) = Total(a, 1 .. n)
  BY TotalAgrees
<1>5. QED
  BY <1>3, <1>4

\* The first amount is taken away, and the others move up.
LEMMA TotalTail ==
    ASSUME NEW n \in Nat, NEW a \in [1 .. (n + 1) -> Nat], NEW b \in [1 .. n -> Nat],
           \A k \in 1 .. n : b[k] = a[k + 1]
    PROVE  Total(a, 1 .. (n + 1)) = Total(b, 1 .. n) + a[1]
<1> DEFINE N == 1 .. (n + 1)
           rest == [k \in 2 .. (n + 1) |-> a[k]]
           up == [k \in 1 .. n |-> k + 1]
<1>1. IsFiniteSet(N) /\ IsFiniteSet(1 .. n)
  BY FS_Interval
<1>2. 1 \in N /\ N \ {1} = 2 .. (n + 1)
  OBVIOUS
<1>3. a \in [N -> Nat]
  OBVIOUS
<1> HIDE DEF N
<1>4. N \in SUBSET N
  OBVIOUS
<1>5. Total(a, N) = Total(a, N \ {1}) + a[1]
  BY ONLY <1>1, <1>2, <1>3, <1>4, TotalRemove
<1>6. Total(a, N) = Total(a, 2 .. (n + 1)) + a[1]
  BY <1>2, <1>5
<1>7. Total(a, 2 .. (n + 1)) = Total(rest, 2 .. (n + 1))
  BY TotalAgrees
<1>8. up \in Bijection(1 .. n, 2 .. (n + 1))
  <2>1. \A k \in 1 .. n : k \in Nat /\ k + 1 \in 2 .. (n + 1)
    OBVIOUS
  <2>2. \A k \in 2 .. (n + 1) : k - 1 \in 1 .. n /\ up[k - 1] = k
    OBVIOUS
  <2>3. up \in Injection(1 .. n, 2 .. (n + 1))
    BY <2>1 DEF Injection, IsInjective
  <2>4. up \in Surjection(1 .. n, 2 .. (n + 1))
    BY <2>1, <2>2 DEF Surjection
  <2>5. QED
    BY <2>3, <2>4 DEF Bijection
<1>9. rest \in [2 .. (n + 1) -> Nat] /\ \A k \in 1 .. n : rest[up[k]] = b[k]
  OBVIOUS
<1> HIDE DEF up, rest
<1>10. Total(rest, 2 .. (n + 1)) = Total(b, 1 .. n)
  <2> DEFINE U == 1 .. n
             V == 2 .. (n + 1)
  <2>1. IsFiniteSet(U) /\ b \in [U -> Nat] /\ rest \in [V -> Nat]
        /\ Renames(up, U, V, b, rest)
    BY <1>1, <1>8, <1>9 DEF Renames
  <2> HIDE DEF U, V
  <2>2. Total(rest, V) = Total(b, U)
    BY ONLY <2>1, TotalRenamed
  <2>3. QED
    BY <2>2 DEF U, V
<1>11. QED
  BY <1>6, <1>7, <1>10 DEF N

-------------------------------------------------------------------------------
(* Recursive sums *)

Chosen(s) == CHOOSE x \in s : TRUE

\* sum is what the recursion over the elements of S, in whatever order, defines
SumsSets(sum, a, S) ==
    sum = [s \in SUBSET S |-> IF s = {} THEN 0 ELSE a[Chosen(s)] + sum[s \ {Chosen(s)}]]

\* sum is what the recursion over the first n elements defines
SumsFirst(sum, a, n) ==
    sum = [m \in 0 .. n |-> IF m = 0 THEN 0 ELSE sum[m - 1] + a[m]]

\* The recursion over a set has a solution, and its value is the total.
LEMMA SumOverSet ==
    ASSUME NEW S, IsFiniteSet(S), NEW a \in [S -> Nat]
    PROVE  /\ \E sum : SumsSets(sum, a, S)
           /\ \A sum : SumsSets(sum, a, S) => sum[S] = Total(a, S)
<1> DEFINE total == [s \in SUBSET S |-> Total(a, s)]
<1>1. ASSUME NEW s \in SUBSET S, s # {}
      PROVE  /\ Chosen(s) \in s /\ s \ {Chosen(s)} \in SUBSET S
             /\ Total(a, s) = a[Chosen(s)] + Total(a, s \ {Chosen(s)})
  <2>1. Chosen(s) \in s
    BY <1>1 DEF Chosen
  <2>2. IsFiniteSet(s) /\ IsFiniteSet(s \ {Chosen(s)})
    BY FS_Subset, FS_RemoveElement
  <2>3. Total(a, s) = Total(a, s \ {Chosen(s)}) + a[Chosen(s)]
    BY <2>1, <2>2, TotalRemove
  <2>4. Total(a, s \ {Chosen(s)}) \in Nat /\ a[Chosen(s)] \in Nat
    BY <2>1, <2>2, TotalType
  <2>5. QED
    BY <2>1, <2>3, <2>4
<1>2. SumsSets(total, a, S)
  <2>1. ASSUME NEW s \in SUBSET S
        PROVE  total[s] = IF s = {} THEN 0 ELSE a[Chosen(s)] + total[s \ {Chosen(s)}]
    BY <1>1, TotalEmpty
  <2>2. QED
    BY <2>1 DEF SumsSets
<1>3. ASSUME NEW sum, SumsSets(sum, a, S)
      PROVE  sum[S] = Total(a, S)
  <2> DEFINE Wrong == {s \in SUBSET S : sum[s] # Total(a, s)}
             Sizes == {Cardinality(s) : s \in Wrong}
  <2>1. \A s \in SUBSET S : IsFiniteSet(s) /\ Cardinality(s) \in Nat
    BY FS_Subset, FS_CardinalityType
  <2>2. SUFFICES ASSUME Wrong # {} PROVE FALSE
    OBVIOUS
  <2>3. PICK c \in Sizes : \A d \in Sizes : c <= d
    <3>1. Sizes \subseteq Nat /\ Sizes # {}
      BY <2>1, <2>2
    <3> HIDE DEF Sizes
    <3>2. QED
      BY <3>1, Least
  <2>4. PICK s \in Wrong : c = Cardinality(s)
    BY <2>3
  <2>5. sum[s] = IF s = {} THEN 0 ELSE a[Chosen(s)] + sum[s \ {Chosen(s)}]
    BY <1>3, <2>4 DEF SumsSets
  <2>6. s # {}
    BY <2>4, <2>5, TotalEmpty
  <2>7. Chosen(s) \in s /\ s \ {Chosen(s)} \in SUBSET S
    BY <1>1, <2>4, <2>6
  <2>8. Cardinality(s \ {Chosen(s)}) = Cardinality(s) - 1
    BY <2>1, <2>4, <2>7, FS_RemoveElement
  <2>9. s \ {Chosen(s)} \notin Wrong
    <3>1. Cardinality(s) \in Nat
      BY <2>1, <2>4
    <3>2. s \ {Chosen(s)} \in Wrong => Cardinality(s) <= Cardinality(s) - 1
      BY <2>3, <2>4, <2>8
    <3>3. QED
      BY <3>1, <3>2
  <2>10. QED
    BY <1>1, <2>4, <2>5, <2>6, <2>7, <2>9
<1> HIDE DEF total
<1>4. QED
  BY <1>2, <1>3

\* So has the recursion over the first n numbers.
LEMMA SumOfFirst ==
    ASSUME NEW n \in Nat, NEW a \in [1 .. n -> Nat]
    PROVE  /\ \E sum : SumsFirst(sum, a, n)
           /\ \A sum : SumsFirst(sum, a, n) => sum[n] = Total(a, 1 .. n)
<1> DEFINE total == [m \in 0 .. n |-> Total(a, 1 .. m)]
<1>1. ASSUME NEW m \in 0 .. n, m # 0
      PROVE  /\ m \in 1 .. n /\ m - 1 \in 0 .. n /\ m - 1 \in Nat
             /\ Total(a, 1 .. m) = Total(a, 1 .. (m - 1)) + a[m]
  <2>1. m \in 1 .. n /\ m - 1 \in 0 .. n /\ m - 1 \in Nat /\ m \in Nat
        /\ 1 .. m \in SUBSET (1 .. n) /\ m \in 1 .. m /\ (1 .. m) \ {m} = 1 .. (m - 1)
    BY <1>1
  <2>2. IsFiniteSet(1 .. m)
    BY <2>1, FS_Interval
  <2>3. Total(a, 1 .. m) = Total(a, (1 .. m) \ {m}) + a[m]
    BY <2>1, <2>2, TotalRemove
  <2>4. QED
    BY <2>1, <2>3
<1>2. Total(a, 1 .. 0) = 0
  <2>1. 1 .. 0 = {}
    OBVIOUS
  <2>2. QED
    BY <2>1, TotalEmpty
<1>3. SumsFirst(total, a, n)
  <2>1. ASSUME NEW m \in 0 .. n
        PROVE  total[m] = IF m = 0 THEN 0 ELSE total[m - 1] + a[m]
    BY <1>1, <1>2
  <2>2. QED
    BY <2>1 DEF SumsFirst
<1>4. ASSUME NEW sum, SumsFirst(sum, a, n)
      PROVE  sum[n] = Total(a, 1 .. n)
  <2> DEFINE Wrong == {m \in 0 .. n : sum[m] # Total(a, 1 .. m)}
  <2>1. SUFFICES ASSUME Wrong # {} PROVE FALSE
    OBVIOUS
  <2>2. PICK m \in Wrong : \A k \in Wrong : m <= k
    <3>1. Wrong \subseteq Nat
      OBVIOUS
    <3> HIDE DEF Wrong
    <3>2. QED
      BY <2>1, <3>1, Least
  <2>3. sum[m] = IF m = 0 THEN 0 ELSE sum[m - 1] + a[m]
    BY <1>4, <2>2 DEF SumsFirst
  <2>4. m # 0
    BY <1>2, <2>2, <2>3
  <2>5. m \in Nat /\ m - 1 \in 0 .. n
    BY <1>1, <2>2, <2>4
  <2>6. m - 1 \notin Wrong
    BY <2>2, <2>5
  <2>7. QED
    BY <1>1, <2>2, <2>3, <2>4, <2>5, <2>6
<1> HIDE DEF total
<1>5. QED
  BY <1>3, <1>4

===============================================================================
