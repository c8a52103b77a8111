----------------------- MODULE ReplacementsUtils_proofs -----------------------
(***************************************************************************)
(* What the operators of ReplacementsUtils return, for every matrix of     *)
(* replacements and every iteration order.                                 *)
(***************************************************************************)
EXTENDS ReplacementsUtils, FiniteSetTheorems, WellFoundedInduction, SequenceTheorems, TLAPS

-----------------------------------------------------------------------------
(* Natural numbers.                                                        *)

(* A set of natural numbers has a least one.                               *)
LEMMA Least ==
  ASSUME NEW S, S \subseteq Nat, S # {}
  PROVE  \E m \in S : \A n \in S : m <= n
<1>. DEFINE R == OpToRel(<, Nat)
<1>1. IsWellFoundedOn(R, Nat)
  BY NatLessThanWellFounded
<1>2. \A m, n \in Nat : n < m => <<n, m>> \in R
  BY DEF OpToRel
<1>. HIDE DEF R
<1>3. PICK m \in S : \A n \in S : ~(<<n, m>> \in R)
  BY <1>1, WFMin
<1>4. ASSUME NEW n \in S
      PROVE  m <= n
  <2>1. m \in Nat /\ n \in Nat /\ ~(n < m)
    BY <1>2, <1>3
  <2>. QED  BY <2>1
<1>. QED  BY <1>4

(* Induction, for a set.                                                   *)
LEMMA Induction ==
  ASSUME NEW S, 0 \in S, \A n \in Nat : n \in S => n + 1 \in S
  PROVE  Nat \subseteq S
<1>. SUFFICES ASSUME NEW k \in Nat, k \notin S PROVE FALSE
  OBVIOUS
<1>. DEFINE T == Nat \ S
<1>1. PICK m \in T : \A n \in T : m <= n
  BY Least
<1>2. m # 0 /\ m - 1 \in Nat /\ m - 1 \notin T
  BY <1>1
<1>. QED  BY <1>1, <1>2

(* The values of f in S from 0 to below n, or all of them, one from        *)
(* another.                                                                *)
IsUpto(f, S, base, step, N) ==
  /\ f \in [0 .. N -> S]
  /\ f[0] = base
  /\ \A n \in 0 .. N - 1 : f[n + 1] = step[<<n, f[n]>>]

IsRecursive(f, S, base, step) ==
  /\ f \in [Nat -> S]
  /\ f[0] = base
  /\ \A n \in Nat : f[n + 1] = step[<<n, f[n]>>]

(* A function may be defined by its first value and by each next one.      *)
LEMMA Recursion ==
  ASSUME NEW S, NEW base \in S, NEW step \in [Nat \X S -> S]
  PROVE  \E f : IsRecursive(f, S, base, step)
<1>. DEFINE Upto(f, n) == /\ f \in [Nat -> S]
                          /\ f[0] = base
                          /\ \A k \in 0 .. n - 1 : f[k + 1] = step[<<k, f[k]>>]
            T == {n \in Nat : \E f : Upto(f, n)}
<1>1. 0 \in T
  <2>1. Upto([k \in Nat |-> base], 0)
    OBVIOUS
  <2>. QED  BY <2>1
<1>2. ASSUME NEW n \in Nat, n \in T
      PROVE  n + 1 \in T
  <2>1. PICK f : Upto(f, n)
    BY <1>2
  <2>. DEFINE g == [k \in Nat |-> IF k <= n THEN f[k] ELSE step[<<n, f[n]>>]]
  <2>2. step[<<n, f[n]>>] \in S
    BY <2>1
  <2>3. g \in [Nat -> S] /\ g[0] = base
    BY <2>1, <2>2
  <2>4. ASSUME NEW k \in 0 .. n
        PROVE  g[k + 1] = step[<<k, g[k]>>]
    <3>1. CASE k = n
      BY <3>1
    <3>2. CASE k < n
      BY <3>2, <2>1
    <3>. QED  BY <3>1, <3>2
  <2>5. Upto(g, n + 1)
    <3>1. (n + 1) - 1 = n
      OBVIOUS
    <3>. HIDE DEF g
    <3>. QED  BY <2>3, <2>4, <3>1
  <2>. HIDE DEF g, Upto
  <2>. QED  BY <2>5
<1>3. Nat \subseteq T
  <2>. HIDE DEF T
  <2>. QED  BY <1>1, <1>2, Induction
<1>4. ASSUME NEW m \in Nat, NEW f, Upto(f, m), NEW g, Upto(g, m)
      PROVE  \A k \in 0 .. m : f[k] = g[k]
  <2>. DEFINE E == {k \in Nat : k <= m => f[k] = g[k]}
  <2>1. 0 \in E
    BY <1>4
  <2>2. ASSUME NEW k \in Nat, k \in E PROVE k + 1 \in E
    <3>1. ASSUME k + 1 <= m
          PROVE  f[k + 1] = g[k + 1]
      <4>1. k \in 0 .. m - 1 /\ f[k] = g[k]
        BY <2>2, <3>1
      <4>2. f[k + 1] = step[<<k, f[k]>>] /\ g[k + 1] = step[<<k, g[k]>>]
        BY <1>4, <4>1
      <4>. QED  BY <4>1, <4>2
    <3>. QED  BY <3>1
  <2>3. Nat \subseteq E
    <3>. HIDE DEF E
    <3>. QED  BY <2>1, <2>2, Induction
  <2>. QED  BY <2>3
<1>. DEFINE upto == [n \in Nat |-> CHOOSE f : Upto(f, n)]
            h == [n \in Nat |-> upto[n][n]]
<1>5. ASSUME NEW n \in Nat
      PROVE  Upto(upto[n], n)
  <2>1. \E f : Upto(f, n)
    BY <1>3
  <2>. QED  BY <2>1
<1>6. h \in [Nat -> S] /\ h[0] = base
  BY <1>5
<1>7. ASSUME NEW n \in Nat
      PROVE  h[n + 1] = step[<<n, h[n]>>]
  <2>1. Upto(upto[n + 1], n) /\ Upto(upto[n], n) /\ upto[n + 1][n + 1] = step[<<n, upto[n + 1][n]>>]
    <3>1. n + 1 \in Nat /\ n \in 0 .. (n + 1) - 1
      OBVIOUS
    <3>2. Upto(upto[n + 1], n + 1) /\ Upto(upto[n], n)
      <4>. HIDE DEF Upto, upto
      <4>. QED  BY <1>5, <3>1
    <3>. HIDE DEF upto
    <3>. QED  BY <3>1, <3>2
  <2>2. upto[n + 1][n] = upto[n][n]
    <3>. HIDE DEF upto, Upto
    <3>. QED  BY <2>1, <1>4
  <2>3. h[n + 1] = upto[n + 1][n + 1] /\ h[n] = upto[n][n]
    <3>. HIDE DEF upto
    <3>. QED  OBVIOUS
  <2>. QED
    <3>. HIDE DEF h, upto
    <3>. QED  BY <2>1, <2>2, <2>3
<1>8. IsRecursive(h, S, base, step)
  <2>. HIDE DEF h
  <2>. QED  BY <1>6, <1>7 DEF IsRecursive
<1>. QED  BY <1>8

(* The same for finitely many values.                                      *)
LEMMA RecursionUpto ==
  ASSUME NEW S, NEW base \in S, NEW N \in Nat, NEW step \in [(0 .. N - 1) \X S -> S]
  PROVE  \E f : IsUpto(f, S, base, step, N)
<1>. DEFINE always == [q \in Nat \X S |-> IF q[1] < N THEN step[q] ELSE q[2]]
<1>1. always \in [Nat \X S -> S]
  <2>1. ASSUME NEW q \in Nat \X S
        PROVE  (IF q[1] < N THEN step[q] ELSE q[2]) \in S
    <3>1. q[1] < N => q \in (0 .. N - 1) \X S
      OBVIOUS
    <3>. QED  BY <3>1
  <2>. QED  BY <2>1
<1>2. PICK f \in [Nat -> S] : f[0] = base /\ \A n \in Nat : f[n + 1] = always[<<n, f[n]>>]
  <2>. HIDE DEF always
  <2>1. base \in S
    OBVIOUS
  <2>2. \E f : IsRecursive(f, S, base, always)
    BY <1>1, <2>1, Recursion
  <2>. QED  BY <2>2 DEF IsRecursive
<1>. DEFINE g == [n \in 0 .. N |-> f[n]]
<1>3. g \in [0 .. N -> S] /\ g[0] = base
  BY <1>2
<1>4. ASSUME NEW n \in 0 .. N - 1
      PROVE  g[n + 1] = step[<<n, g[n]>>]
  <2>1. n \in Nat /\ n < N /\ n + 1 \in 0 .. N /\ n \in 0 .. N
    OBVIOUS
  <2>2. f[n] \in S /\ f[n + 1] = always[<<n, f[n]>>]
    <3>. HIDE DEF always
    <3>. QED  BY <1>2, <2>1
  <2>3. always[<<n, f[n]>>] = step[<<n, f[n]>>]
    <3>1. \A s \in S : <<n, s>> \in Nat \X S /\ <<n, s>>[1] = n
      BY <2>1
    <3>2. \A s \in S : always[<<n, s>>] = step[<<n, s>>]
      BY <2>1, <3>1
    <3>. HIDE DEF always
    <3>. QED  BY <2>2, <3>2
  <2>4. g[n + 1] = f[n + 1] /\ g[n] = f[n]
    BY <2>1
  <2>. HIDE DEF g, always
  <2>. QED  BY <2>2, <2>3, <2>4
<1>5. IsUpto(g, S, base, step, N)
  <2>. HIDE DEF g
  <2>. QED  BY <1>3, <1>4 DEF IsUpto
<1>. QED  BY <1>5

-----------------------------------------------------------------------------
(* Orders.                                                                 *)

(* InOrder has each element of a finite set once, those before it first.   *)
LEMMA InOrderProperties ==
  ASSUME NEW S, IsFiniteSet(S), NEW before, IsOrder(before, S)
  PROVE  /\ Cardinality(S) \in Nat
         /\ InOrder(S, before) \in [1 .. Cardinality(S) -> S]
         /\ \A e \in S : \E n \in 1 .. Cardinality(S) : InOrder(S, before)[n] = e
         /\ \A m, n \in 1 .. Cardinality(S) :
              m < n => <<InOrder(S, before)[m], InOrder(S, before)[n]>> \in before
<1>. DEFINE N == Cardinality(S)
            Pred(e) == {d \in S : <<d, e>> \in before}
            rank == [e \in S |-> Cardinality(Pred(e)) + 1]
<1>1. N \in Nat
  BY FS_CardinalityType
<1>2. ASSUME NEW e \in S
      PROVE  /\ IsFiniteSet(Pred(e)) /\ Cardinality(Pred(e)) \in Nat
             /\ Cardinality(Pred(e)) <= N - 1
  <2>1. Pred(e) \in SUBSET (S \ {e})
    BY DEF IsOrder
  <2>2. IsFiniteSet(S \ {e}) /\ Cardinality(S \ {e}) = N - 1
    BY FS_RemoveElement
  <2>3. IsFiniteSet(Pred(e)) /\ Cardinality(Pred(e)) <= Cardinality(S \ {e})
    BY <2>1, <2>2, FS_Subset
  <2>. QED  BY <2>2, <2>3, FS_CardinalityType
<1>3. rank \in [S -> 1 .. N]
  <2>1. ASSUME NEW e \in S
        PROVE  Cardinality(Pred(e)) + 1 \in 1 .. N
    <3>. HIDE DEF Pred, N
    <3>. QED  BY <1>1, <1>2
  <2>. QED  BY <2>1
<1>4. ASSUME NEW a \in S, NEW b \in S, <<a, b>> \in before
      PROVE  rank[a] < rank[b]
  <2>1. Pred(a) \cup {a} \in SUBSET Pred(b) /\ a \notin Pred(a)
    BY <1>4 DEF IsOrder
  <2>2. Cardinality(Pred(a) \cup {a}) = Cardinality(Pred(a)) + 1
    BY <2>1, <1>2, FS_AddElement
  <2>3. Cardinality(Pred(a) \cup {a}) <= Cardinality(Pred(b))
    BY <2>1, <1>2, FS_Subset
  <2>4. rank[a] = Cardinality(Pred(a)) + 1 /\ rank[b] = Cardinality(Pred(b)) + 1
    OBVIOUS
  <2>. HIDE DEF Pred, rank
  <2>. QED  BY <2>2, <2>3, <2>4, <1>2
<1>5. \A a, b \in S : rank[a] = rank[b] => a = b
  <2>. SUFFICES ASSUME NEW a \in S, NEW b \in S, a # b
                PROVE  rank[a] # rank[b]
    OBVIOUS
  <2>1. rank[a] < rank[b] \/ rank[b] < rank[a]
    <3>1. <<a, b>> \in before \/ <<b, a>> \in before
      BY DEF IsOrder
    <3>. HIDE DEF rank
    <3>. QED  BY <1>4, <3>1
  <2>2. rank[a] \in Int /\ rank[b] \in Int
    BY <1>3
  <2>. HIDE DEF rank
  <2>. QED  BY <2>1, <2>2
<1>6. \A n \in 1 .. N : \E e \in S : rank[e] = n
  <2>. HIDE DEF rank
  <2>1. rank \in Injection(S, 1 .. N)
    BY <1>3, <1>5 DEF Injection, IsInjective
  <2>2. IsFiniteSet(1 .. N) /\ Cardinality(1 .. N) = N
    BY <1>1, FS_Interval
  <2>3. rank \in Surjection(S, 1 .. N)
    BY <2>1, <2>2, FS_Injection
  <2>. QED  BY <2>3 DEF Surjection
<1>. DEFINE s == [n \in 1 .. N |-> CHOOSE e \in S : rank[e] = n]
<1>7. InOrder(S, before) = s
  BY DEF InOrder
<1>8. \A n \in 1 .. N : s[n] \in S /\ rank[s[n]] = n
  <2>. HIDE DEF rank
  <2>. QED  BY <1>6
<1>9. \A e \in S : s[rank[e]] = e
  <2>. HIDE DEF rank, s
  <2>. QED  BY <1>3, <1>5, <1>8
<1>10. ASSUME NEW m \in 1 .. N, NEW n \in 1 .. N, m < n
       PROVE  <<s[m], s[n]>> \in before
  <2>. HIDE DEF rank, s
  <2>1. s[m] \in S /\ s[n] \in S /\ rank[s[m]] = m /\ rank[s[n]] = n
    BY <1>8
  <2>2. s[m] # s[n] /\ ~(<<s[n], s[m]>> \in before)
    BY <2>1, <1>4, <1>10, <1>1
  <2>. QED  BY <2>1, <2>2 DEF IsOrder
<1>11. s \in [1 .. N -> S]
  <2>. HIDE DEF rank
  <2>. QED  BY <1>8
<1>. QED
  <2>. HIDE DEF rank, s
  <2>. QED  BY <1>1, <1>3, <1>7, <1>9, <1>10, <1>11

(* The order of the numbers.                                               *)
LEMMA LessIsOrder ==
  ASSUME NEW S, S \subseteq Int
  PROVE  IsOrder(Less(S), S)
BY DEF IsOrder, Less

(* Pairs of different elements ordered by their first elements first.      *)
LEMMA LexicographicIsOrder ==
  ASSUME NEW A, NEW S, S \subseteq A \X Int, NEW before, IsOrder(before, A)
  PROVE  IsOrder(Lexicographic(S, before), S)
<1>. DEFINE R == Lexicographic(S, before)
<1>1. \A p \in S : p[1] \in A /\ p[2] \in Int /\ p = <<p[1], p[2]>>
  OBVIOUS
<1>2. \A p, q \in S : <<p, q>> \in R <=> IF p[1] = q[1] THEN p[2] < q[2] ELSE <<p[1], q[1]>> \in before
  BY DEF Lexicographic
<1>. HIDE DEF R
<1>3. ASSUME NEW p \in S
      PROVE  <<p, p>> \notin R
  <2>1. p[2] \in Int /\ ~(p[2] < p[2])
    BY <1>1
  <2>. QED  BY <2>1, <1>2
<1>4. ASSUME NEW p \in S, NEW q \in S, p # q
      PROVE  <<p, q>> \in R \/ <<q, p>> \in R
  <2>1. CASE p[1] = q[1]
    <3>1. p = <<p[1], p[2]>> /\ q = <<q[1], q[2]>> /\ p[2] \in Int /\ q[2] \in Int
      BY <1>1
    <3>2. p[2] < q[2] \/ q[2] < p[2]
      BY <3>1, <2>1, <1>4
    <3>. QED  BY <2>1, <3>2, <1>2
  <2>2. CASE p[1] # q[1]
    <3>1. <<p[1], q[1]>> \in before \/ <<q[1], p[1]>> \in before
      BY <2>2, <1>1 DEF IsOrder
    <3>. QED  BY <2>2, <3>1, <1>2
  <2>. QED  BY <2>1, <2>2
<1>5. ASSUME NEW p \in S, NEW q \in S, NEW t \in S, <<p, q>> \in R, <<q, t>> \in R
      PROVE  <<p, t>> \in R
  <2>1. p[1] \in A /\ q[1] \in A /\ t[1] \in A /\ p[2] \in Int /\ q[2] \in Int /\ t[2] \in Int
    BY <1>1
  <2>2. /\ IF p[1] = q[1] THEN p[2] < q[2] ELSE <<p[1], q[1]>> \in before
        /\ IF q[1] = t[1] THEN q[2] < t[2] ELSE <<q[1], t[1]>> \in before
    BY <1>2, <1>5
  <2>3. IF p[1] = t[1] THEN p[2] < t[2] ELSE <<p[1], t[1]>> \in before
    <3>1. \A a, b, c \in A : <<a, b>> \in before /\ <<b, c>> \in before => <<a, c>> \in before /\ a # c
      BY DEF IsOrder
    <3>. QED  BY <2>1, <2>2, <3>1
  <2>. QED  BY <2>3, <1>2
<1>. QED
  <2>. QED  BY <1>3, <1>4, <1>5 DEF IsOrder, R

(* The order of the columns of a map, whatever their hashes are.           *)
LEMMA BucketOrderIsOrder ==
  ASSUME NEW N \in Nat, NEW hash, DOMAIN hash = 1 .. N, NEW walk, NEW S \in SUBSET (1 .. N)
  PROVE  IsOrder(BucketOrder(hash, walk), S)
<1>. DEFINE oldest == [i \in DOMAIN hash |->
              CHOOSE j \in 1 .. i : hash[j] = hash[i] /\ \A k \in 1 .. j - 1 : hash[k] # hash[i]]
            R == BucketOrder(hash, walk)
<1>1. ASSUME NEW i \in 1 .. N
      PROVE  oldest[i] \in 1 .. i /\ hash[oldest[i]] = hash[i]
  <2>. DEFINE T == {j \in 1 .. i : hash[j] = hash[i]}
  <2>1. i \in T /\ T \subseteq Nat
    OBVIOUS
  <2>2. PICK j \in T : \A k \in T : j <= k
    <3>. HIDE DEF T
    <3>. QED  BY <2>1, Least
  <2>3. j \in 1 .. i /\ hash[j] = hash[i] /\ \A k \in 1 .. j - 1 : hash[k] # hash[i]
    BY <2>2
  <2>. QED  BY <2>3
<1>2. \A i, j \in 1 .. N : <<i, j>> \in R <=>
         IF hash[i] = hash[j] THEN i < j
         ELSE IF walk.oldestFirst THEN oldest[i] < oldest[j] ELSE oldest[j] < oldest[i]
  BY DEF BucketOrder
<1>3. \A i \in 1 .. N : oldest[i] \in Int
  <2>. HIDE DEF oldest
  <2>. QED  BY <1>1
<1>4. \A i, j \in 1 .. N : hash[i] # hash[j] => oldest[i] # oldest[j]
  <2>. HIDE DEF oldest
  <2>. QED  BY <1>1
<1>5. ASSUME NEW i \in 1 .. N, NEW j \in 1 .. N, hash[i] = hash[j]
      PROVE  oldest[i] = oldest[j]
  <2>. DEFINE First(k, h) == hash[k] = h /\ \A l \in 1 .. k - 1 : hash[l] # h
  <2>1. ASSUME NEW m \in 1 .. N
        PROVE  First(oldest[m], hash[m])
    <3>. DEFINE T == {k \in 1 .. m : hash[k] = hash[m]}
    <3>1. m \in T /\ T \subseteq Nat
      OBVIOUS
    <3>2. PICK k \in T : \A l \in T : k <= l
      <4>. HIDE DEF T
      <4>. QED  BY <3>1, Least
    <3>3. k \in 1 .. m /\ First(k, hash[m])
      BY <3>2
    <3>. QED  BY <3>3
  <2>. HIDE DEF oldest
  <2>. QED  BY <2>1, <1>1, <1>5
<1>. HIDE DEF R, oldest
<1>6. \A i \in S : <<i, i>> \notin R
  BY <1>2
<1>7. \A i, j \in S : i # j => <<i, j>> \in R \/ <<j, i>> \in R
  BY <1>2, <1>3, <1>4
<1>8. ASSUME NEW i \in S, NEW j \in S, NEW k \in S, <<i, j>> \in R, <<j, k>> \in R
      PROVE  <<i, k>> \in R
  <2>1. i \in 1 .. N /\ j \in 1 .. N /\ k \in 1 .. N
    OBVIOUS
  <2>2. oldest[i] \in Int /\ oldest[j] \in Int /\ oldest[k] \in Int
    BY <2>1, <1>3
  <2>3. /\ hash[i] = hash[j] => oldest[i] = oldest[j]
        /\ hash[j] = hash[k] => oldest[j] = oldest[k]
        /\ hash[i] = hash[k] => oldest[i] = oldest[k]
    BY <2>1, <1>5
  <2>4. /\ IF hash[i] = hash[j] THEN i < j
           ELSE IF walk.oldestFirst THEN oldest[i] < oldest[j] ELSE oldest[j] < oldest[i]
        /\ IF hash[j] = hash[k] THEN j < k
           ELSE IF walk.oldestFirst THEN oldest[j] < oldest[k] ELSE oldest[k] < oldest[j]
    BY <2>1, <1>2, <1>8
  <2>5. IF hash[i] = hash[k] THEN i < k
        ELSE IF walk.oldestFirst THEN oldest[i] < oldest[k] ELSE oldest[k] < oldest[i]
    BY <2>1, <2>2, <2>3, <2>4
  <2>. QED  BY <2>1, <2>5, <1>2
<1>. QED  BY <1>6, <1>7, <1>8 DEF IsOrder, R

-----------------------------------------------------------------------------
(* Columns.                                                                *)

(* All rows of r have N values.                                            *)
HasColumns(r, N) ==
  /\ N \in Nat
  /\ IsReplacements(r)
  /\ \A key \in DOMAIN r : Len(r[key]) = N

(* The first key of a map is one of its keys.                              *)
LEMMA FirstKey ==
  ASSUME NEW walk, IsWalk(walk), NEW keys \in SUBSET Variables, keys # {}
  PROVE  KeySeq(walk, keys)[1] \in keys
<1>1. IsFiniteSet(keys) /\ IsOrder(walk.keys, keys)
  BY VariablesAssumption, FS_Subset DEF IsWalk, IsOrder
<1>2. Cardinality(keys) \in Nat /\ Cardinality(keys) # 0
  BY <1>1, FS_EmptySet, FS_CardinalityType
<1>. QED  BY <1>1, <1>2, InOrderProperties DEF KeySeq

(* The amount of columns is the length of some row.                        *)
LEMMA AmountType ==
  ASSUME NEW r, IsReplacements(r), NEW walk, IsWalk(walk)
  PROVE  /\ ColumnsAmount(r, walk) \in Nat
         /\ DOMAIN r = {} => ColumnsAmount(r, walk) = 0
         /\ DOMAIN r # {} => \E key \in DOMAIN r : ColumnsAmount(r, walk) = Len(r[key])
<1>1. \A key \in DOMAIN r : Len(r[key]) \in Nat
  BY LenProperties DEF IsReplacements
<1>. QED  BY <1>1, FirstKey DEF ColumnsAmount, IsReplacements

(* A matrix has as many columns as any of its rows has values.             *)
LEMMA AmountOfMatrix ==
  ASSUME NEW r, IsReplacements(r), IsMatrix(r), NEW walk, IsWalk(walk)
  PROVE  HasColumns(r, ColumnsAmount(r, walk))
BY AmountType DEF HasColumns, IsMatrix

LEMMA AmountOfColumns ==
  ASSUME NEW r, NEW N, HasColumns(r, N), DOMAIN r # {}, NEW walk, IsWalk(walk)
  PROVE  ColumnsAmount(r, walk) = N
BY AmountType DEF HasColumns

(* The columns are numbered.                                               *)
LEMMA ColumnsOfMatrix ==
  ASSUME NEW r, NEW N, HasColumns(r, N)
  PROVE  /\ IsMatrix(r)
         /\ \A key \in DOMAIN r : DOMAIN r[key] = 1 .. N /\ r[key] \in [1 .. N -> Values]
         /\ DOMAIN r = {} => Columns(r) = {}
         /\ DOMAIN r # {} => Columns(r) = {Column(r, i) : i \in 1 .. N}
<1>1. IsMatrix(r)
  BY DEF HasColumns, IsMatrix
<1>2. \A key \in DOMAIN r : DOMAIN r[key] = 1 .. N /\ r[key] \in [1 .. N -> Values]
  BY LenProperties DEF HasColumns, IsReplacements
<1>3. ASSUME DOMAIN r = {}
      PROVE  Columns(r) = {}
  BY <1>3 DEF Columns
<1>4. ASSUME DOMAIN r # {}
      PROVE  UNION {DOMAIN r[key] : key \in DOMAIN r} = 1 .. N
  BY <1>2, <1>4
<1>. QED  BY <1>1, <1>2, <1>3, <1>4 DEF Columns

-----------------------------------------------------------------------------
(* removeDuplicateColumns.                                                 *)

(* Only columns that repeat an earlier one are removed.                    *)
LEMMA ColumnsToRemoveRepeat ==
  ASSUME NEW r, IsReplacements(r), NEW walk, IsWalk(walk)
  PROVE  ColumnsToRemove(r, walk) \subseteq
           {j \in ColumnNumbers(r, walk) : \E i \in 1 .. j - 1 : Column(r, i) = Column(r, j)}
<1>. DEFINE N == ColumnsAmount(r, walk)
            D == {j \in 1 .. N : \E i \in 1 .. j - 1 : Column(r, i) = Column(r, j)}
            hash == HashesOf(r, DOMAIN r, walk)
            P == Compared(hash)
            before == Lexicographic(P, BucketOrder(hash, walk))
            pairs == InOrder(P, before)
            M == Cardinality(P)
<1>1. N \in Nat /\ ColumnNumbers(r, walk) = 1 .. N /\ DOMAIN hash = 1 .. N
  BY AmountType DEF ColumnNumbers, HashesOf
<1>2. P \subseteq (1 .. N) \X (1 .. N) /\ \A p \in P : p[1] < p[2]
  BY <1>1 DEF Compared
<1>3. IsFiniteSet(P)
  <2>1. IsFiniteSet((1 .. N) \X (1 .. N))
    <3>1. IsFiniteSet(1 .. N)
      BY <1>1, FS_Interval
    <3>. QED  BY <3>1, FS_Product
  <2>. QED  BY <1>2, <2>1, FS_Subset
<1>4. IsOrder(before, P)
  <2>1. IsOrder(BucketOrder(hash, walk), 1 .. N)
    BY <1>1, BucketOrderIsOrder
  <2>2. P \subseteq (1 .. N) \X Int
    BY <1>2
  <2>. HIDE DEF P, hash
  <2>. QED  BY <2>1, <2>2, LexicographicIsOrder
<1>5. M \in Nat /\ \A n \in 1 .. M : pairs[n] \in P
  <2>. HIDE DEF P, before
  <2>. QED  BY <1>3, <1>4, InOrderProperties
<1>6. ASSUME NEW p \in P, NEW C \in SUBSET D
      PROVE  RemoveSecond(r, hash, p, C) \in SUBSET D
  <2>1. p[1] \in 1 .. p[2] - 1 /\ p[2] \in 1 .. N
    BY <1>1, <1>2
  <2>2. CASE Column(r, p[1]) = Column(r, p[2])
    <3>1. p[2] \in D
      BY <2>1, <2>2
    <3>. QED  BY <3>1 DEF RemoveSecond
  <2>3. CASE Column(r, p[1]) # Column(r, p[2])
    BY <2>3 DEF RemoveSecond
  <2>. QED  BY <2>2, <2>3
<1>. DEFINE body(f) == [n \in 0 .. M |-> IF n = 0 THEN {} ELSE RemoveSecond(r, hash, pairs[n], f[n - 1])]
<1>7. \E f : f = body(f)
  <2>. DEFINE step == [q \in (0 .. M - 1) \X SUBSET D |-> RemoveSecond(r, hash, pairs[q[1] + 1], q[2])]
  <2>1. step \in [(0 .. M - 1) \X SUBSET D -> SUBSET D]
    <3>1. ASSUME NEW q \in (0 .. M - 1) \X SUBSET D
          PROVE  RemoveSecond(r, hash, pairs[q[1] + 1], q[2]) \in SUBSET D
      <4>1. q[1] + 1 \in 1 .. M /\ q[2] \in SUBSET D
        BY <1>5
      <4>. HIDE DEF D, P, pairs, hash
      <4>. QED  BY <4>1, <1>5, <1>6
    <3>. HIDE DEF D, pairs, hash, M
    <3>. QED  BY <3>1
  <2>2. PICK f \in [0 .. M -> SUBSET D] : f[0] = {} /\ \A n \in 0 .. M - 1 : f[n + 1] = step[<<n, f[n]>>]
    <3>1. {} \in SUBSET D /\ M \in Nat
      BY <1>5
    <3>. HIDE DEF D, step, M
    <3>2. \E f : IsUpto(f, SUBSET D, {}, step, M)
      BY <2>1, <3>1, RecursionUpto
    <3>. QED  BY <3>2 DEF IsUpto
  <2>3. ASSUME NEW n \in 0 .. M
        PROVE  f[n] = IF n = 0 THEN {} ELSE RemoveSecond(r, hash, pairs[n], f[n - 1])
    <3>1. CASE n = 0
      BY <3>1, <2>2
    <3>2. CASE n # 0
      <4>1. n - 1 \in 0 .. M - 1 /\ (n - 1) + 1 = n /\ f[n - 1] \in SUBSET D
        BY <3>2, <1>5, <2>2
      <4>. HIDE DEF D, pairs, hash, M
      <4>. QED  BY <3>2, <4>1, <2>2
    <3>. QED  BY <3>1, <3>2
  <2>4. f = body(f)
    <3>. HIDE DEF D, pairs, hash, M
    <3>. QED  BY <2>2, <2>3
  <2>. HIDE DEF body
  <2>. QED  BY <2>4
<1>. DEFINE g == CHOOSE f : f = body(f)
<1>8. ColumnsToRemove(r, walk) = g[M]
  BY DEF ColumnsToRemove
<1>9. g = body(g)
  <2>. HIDE DEF body
  <2>. QED  BY <1>7
<1>10. g[0] = {} /\ \A n \in 1 .. M : g[n] = RemoveSecond(r, hash, pairs[n], g[n - 1])
  <2>. HIDE DEF hash, pairs, M, g
  <2>1. g = [n \in 0 .. M |-> IF n = 0 THEN {} ELSE RemoveSecond(r, hash, pairs[n], g[n - 1])]
    BY <1>9
  <2>2. \A n \in 0 .. M : g[n] = IF n = 0 THEN {} ELSE RemoveSecond(r, hash, pairs[n], g[n - 1])
    BY ONLY <2>1
  <2>. QED  BY <2>2, <1>5
<1>11. g[M] \in SUBSET D
  <2>. DEFINE E == {n \in Nat : n <= M => g[n] \in SUBSET D}
  <2>. HIDE DEF g, hash, pairs, M, D, P
  <2>1. 0 \in E
    BY <1>10
  <2>2. ASSUME NEW n \in Nat, n \in E
        PROVE  n + 1 \in E
    <3>1. ASSUME n + 1 <= M
          PROVE  g[n + 1] \in SUBSET D
      <4>1. n + 1 \in 1 .. M /\ (n + 1) - 1 = n /\ g[n] \in SUBSET D
        BY <3>1, <2>2, <1>5
      <4>. QED  BY <4>1, <1>5, <1>6, <1>10
    <3>. QED  BY <3>1
  <2>3. Nat \subseteq E
    <3>. HIDE DEF E
    <3>. QED  BY <2>1, <2>2, Induction
  <2>. QED  BY <2>3, <1>5
<1>. QED
  <2>. HIDE DEF g, N, M
  <2>. QED  BY <1>1, <1>8, <1>11

(* Rows with the values at some indexes have the columns at these.         *)
LEMMA SelectedColumns ==
  ASSUME NEW r, NEW N, HasColumns(r, N),
         NEW S \in SUBSET (1 .. N), NEW before, IsOrder(before, S)
  PROVE  LET selected == [key \in DOMAIN r |-> Selected(r[key], InOrder(S, before))]
         IN  /\ HasColumns(selected, Cardinality(S))
             /\ DOMAIN r # {} => Columns(selected) = {Column(r, i) : i \in S}
<1>. DEFINE order == InOrder(S, before)
            M == Cardinality(S)
            selected == [key \in DOMAIN r |-> Selected(r[key], order)]
<1>1. IsFiniteSet(S)
  <2>1. IsFiniteSet(1 .. N)
    BY FS_Interval DEF HasColumns
  <2>. QED  BY <2>1, FS_Subset
<1>2. /\ M \in Nat
      /\ order \in [1 .. M -> S]
      /\ \A i \in S : \E n \in 1 .. M : order[n] = i
  BY <1>1, InOrderProperties
<1>. HIDE DEF order, M
<1>3. \A key \in DOMAIN r : r[key] \in [1 .. N -> Values]
  BY ColumnsOfMatrix
<1>4. ASSUME NEW key \in DOMAIN r
      PROVE  /\ selected[key] \in [1 .. M -> Values]
             /\ \A n \in 1 .. M : selected[key][n] = r[key][order[n]]
  BY <1>2, <1>3 DEF Selected
<1>5. DOMAIN selected = DOMAIN r
  OBVIOUS
<1>. HIDE DEF selected
<1>6. HasColumns(selected, M)
  <2>1. \A key \in DOMAIN r : selected[key] \in Seq(Values) /\ Len(selected[key]) = M
    <3>1. ASSUME NEW key \in DOMAIN r
          PROVE  selected[key] \in Seq(Values) /\ Len(selected[key]) = M
      <4>1. selected[key] \in [1 .. M -> Values]
        BY <1>4
      <4>2. selected[key] \in Seq(Values)
        BY <1>2, <4>1, IsASeq
      <4>. QED  BY <1>2, <4>1, <4>2, LenProperties
    <3>. QED  BY <3>1
  <2>2. selected = [key \in DOMAIN selected |-> selected[key]]
    BY DEF selected
  <2>. QED  BY <1>2, <1>5, <2>1, <2>2 DEF HasColumns, IsReplacements
<1>7. ASSUME DOMAIN r # {}
      PROVE  Columns(selected) = {Column(r, i) : i \in S}
  <2>1. ASSUME NEW n \in 1 .. M
        PROVE  Column(selected, n) = Column(r, order[n])
    BY <1>4, <1>5 DEF Column
  <2>2. Columns(selected) = {Column(selected, n) : n \in 1 .. M}
    BY <1>5, <1>6, <1>7, ColumnsOfMatrix
  <2>3. ASSUME NEW n \in 1 .. M
        PROVE  Column(selected, n) \in {Column(r, i) : i \in S}
    <3>1. order[n] \in S
      BY <1>2
    <3>. QED  BY <2>1, <3>1
  <2>4. ASSUME NEW i \in S
        PROVE  \E n \in 1 .. M : Column(selected, n) = Column(r, i)
    <3>1. PICK n \in 1 .. M : order[n] = i
      BY <1>2
    <3>. QED  BY <2>1, <3>1
  <2>. QED  BY <2>2, <2>3, <2>4
<1>. QED  BY <1>6, <1>7 DEF selected, M, order

(* The removal of duplicates leaves a matrix that has the same columns.    *)
(* (The code asks for positions in a bucket, so it keeps some duplicates,  *)
(* but it never removes the first of equal columns.)                       *)
THEOREM RemoveDuplicateColumnsKeeps ==
  ASSUME NEW r, IsReplacements(r), IsMatrix(r), NEW walk, IsWalk(walk)
  PROVE  LET kept == RemoveDuplicateColumns(r, walk)
         IN  /\ IsReplacements(kept) /\ IsMatrix(kept)
             /\ DOMAIN kept = DOMAIN r
             /\ Columns(kept) = Columns(r)
<1>. DEFINE N == ColumnsAmount(r, walk)
            C == ColumnsToRemove(r, walk)
            S == (1 .. N) \ C
            order == InOrder(S, Less(S))
            selected == [key \in DOMAIN r |-> Selected(r[key], order)]
<1>1. HasColumns(r, N) /\ N \in Nat
  BY AmountOfMatrix DEF HasColumns
<1>2. RemoveDuplicateColumns(r, walk) = selected
  <2>1. \A key \in DOMAIN r : DOMAIN r[key] = 1 .. N
    BY <1>1, ColumnsOfMatrix
  <2>. QED  BY <2>1 DEF RemoveDuplicateColumns, WithoutColumns, Ascending
<1>. HIDE DEF N, C
<1>3. IsOrder(Less(S), S) /\ S \in SUBSET (1 .. N)
  BY <1>1, LessIsOrder
<1>. HIDE DEF S
<1>4. /\ HasColumns(selected, Cardinality(S))
      /\ DOMAIN r # {} => Columns(selected) = {Column(r, i) : i \in S}
  BY <1>1, <1>3, SelectedColumns
<1>5. ASSUME NEW j \in 1 .. N
      PROVE  \E i \in S : Column(r, i) = Column(r, j)
  <2>. DEFINE T == {i \in 1 .. N : Column(r, i) = Column(r, j)}
  <2>1. j \in T /\ T \subseteq Nat
    OBVIOUS
  <2>2. PICK m \in T : \A i \in T : m <= i
    <3>. HIDE DEF T
    <3>. QED  BY <2>1, Least
  <2>3. m \notin C
    <3>1. C \subseteq {k \in 1 .. N : \E i \in 1 .. k - 1 : Column(r, i) = Column(r, k)}
      BY ColumnsToRemoveRepeat DEF C, N, ColumnNumbers
    <3>2. SUFFICES ASSUME m \in C PROVE FALSE
      OBVIOUS
    <3>3. PICK i \in 1 .. m - 1 : Column(r, i) = Column(r, m)
      BY <3>1, <3>2
    <3>4. i \in T /\ i < m
      BY <1>1, <3>3
    <3>5. m <= i /\ m \in Int /\ i \in Int
      BY <2>2, <3>4
    <3>. QED  BY <3>4, <3>5
  <2>. QED  BY <2>2, <2>3 DEF S
<1>6. ASSUME DOMAIN r # {}
      PROVE  Columns(selected) = Columns(r)
  <2>1. Columns(r) = {Column(r, i) : i \in 1 .. N}
    BY <1>1, <1>6, ColumnsOfMatrix
  <2>2. Columns(selected) = {Column(r, i) : i \in S}
    BY <1>4, <1>6
  <2>. HIDE DEF selected
  <2>. QED  BY <2>1, <2>2, <1>3, <1>5
<1>7. DOMAIN selected = DOMAIN r
  OBVIOUS
<1>8. DOMAIN r = {} => Columns(selected) = {} /\ Columns(r) = {}
  BY <1>1, <1>4, <1>7, ColumnsOfMatrix
<1>9. IsReplacements(selected) /\ IsMatrix(selected)
  BY <1>4, ColumnsOfMatrix DEF HasColumns
<1>. QED  BY <1>2, <1>6, <1>7, <1>8, <1>9

-----------------------------------------------------------------------------
(* Copies, differences and joins.                                          *)

(* A copy has the same columns; it has no rows if there are none.          *)
LEMMA CopyKeeps ==
  ASSUME NEW r, IsReplacements(r)
  PROVE  LET copy == CopyReplacements(r)
         IN  /\ IsReplacements(copy)
             /\ DOMAIN copy \subseteq DOMAIN r
             /\ \A key \in DOMAIN copy : copy[key] = r[key] /\ r[key] # <<>>
             /\ IsMatrix(r) => IsMatrix(copy) /\ Columns(copy) = Columns(r)
             /\ IsMatrix(r) /\ Columns(r) # {} => copy = r
             /\ IsMatrix(r) /\ Columns(r) = {} => DOMAIN copy = {}
<1>. DEFINE copy == CopyReplacements(r)
<1>1. /\ DOMAIN copy = {key \in DOMAIN r : r[key] # <<>>}
      /\ copy = [key \in DOMAIN copy |-> r[key]]
  BY DEF CopyReplacements, Restrict
<1>. HIDE DEF copy
<1>2. \A key \in DOMAIN copy : key \in DOMAIN r /\ copy[key] = r[key] /\ r[key] # <<>>
  BY <1>1
<1>3. IsReplacements(copy)
  BY <1>1, <1>2 DEF IsReplacements
<1>4. ASSUME IsMatrix(r), NEW key \in DOMAIN r, r[key] = <<>>
      PROVE  Columns(r) = {} /\ DOMAIN copy = {}
  <2>1. \A other \in DOMAIN r : Len(r[other]) = 0
    BY <1>4 DEF IsMatrix
  <2>2. HasColumns(r, 0)
    BY <2>1 DEF HasColumns
  <2>3. \A other \in DOMAIN r : r[other] = <<>>
    BY <2>1, EmptySeq DEF IsReplacements
  <2>4. Columns(r) = {}
    BY <2>2, ColumnsOfMatrix
  <2>. QED  BY <1>1, <2>3, <2>4
<1>5. ASSUME \A key \in DOMAIN r : r[key] # <<>>
      PROVE  copy = r
  <2>1. DOMAIN copy = DOMAIN r
    BY <1>1, <1>5
  <2>. QED  BY <1>1, <2>1 DEF IsReplacements
<1>6. ASSUME IsMatrix(r), DOMAIN r # {}, \A key \in DOMAIN r : r[key] # <<>>
      PROVE  Columns(r) # {}
  <2>1. PICK key \in DOMAIN r : r[key] # <<>>
    BY <1>6
  <2>2. HasColumns(r, Len(r[key])) /\ Len(r[key]) \in Nat \ {0}
    BY <2>1, <1>6, LenProperties, EmptySeq DEF HasColumns, IsReplacements, IsMatrix
  <2>3. Column(r, 1) \in Columns(r)
    BY <2>2, <1>6, ColumnsOfMatrix
  <2>. QED  BY <2>3
<1>7. DOMAIN copy = {} => Columns(copy) = {}
  BY DEF Columns
<1>8. CASE \E key \in DOMAIN r : r[key] = <<>>
  <2>1. IsMatrix(r) => Columns(r) = {} /\ DOMAIN copy = {}
    BY <1>4, <1>8
  <2>2. IsMatrix(r) => IsMatrix(copy) /\ Columns(copy) = Columns(r)
    BY <2>1, <1>7 DEF IsMatrix
  <2>. QED  BY <1>2, <1>3, <2>1, <2>2 DEF copy
<1>9. CASE \A key \in DOMAIN r : r[key] # <<>>
  <2>1. copy = r
    BY <1>5, <1>9
  <2>2. IsMatrix(r) /\ Columns(r) = {} => DOMAIN copy = {}
    BY <1>6, <1>9, <2>1
  <2>. QED  BY <1>2, <1>3, <2>1, <2>2 DEF copy
<1>. QED  BY <1>8, <1>9

(* A matrix has as many columns as it says.                                *)
LEMMA AmountIsZero ==
  ASSUME NEW r, IsReplacements(r), IsMatrix(r), NEW walk, IsWalk(walk)
  PROVE  /\ ColumnsAmount(r, walk) \in Nat
         /\ ColumnsAmount(r, walk) = 0 <=> Columns(r) = {}
         /\ Columns(r) = {Column(r, i) : i \in ColumnNumbers(r, walk)}
<1>. DEFINE N == ColumnsAmount(r, walk)
<1>1. N \in Nat /\ HasColumns(r, N) /\ ColumnNumbers(r, walk) = 1 .. N
  BY AmountType, AmountOfMatrix DEF ColumnNumbers
<1>2. DOMAIN r = {} => N = 0
  BY AmountType
<1>. HIDE DEF N
<1>3. Columns(r) = {Column(r, i) : i \in 1 .. N}
  <2>1. CASE DOMAIN r = {}
    <3>1. Columns(r) = {} /\ 1 .. N = {}
      BY <2>1, <1>1, <1>2, ColumnsOfMatrix
    <3>. QED  BY <3>1
  <2>2. CASE DOMAIN r # {}
    BY <2>2, <1>1, ColumnsOfMatrix
  <2>. QED  BY <2>1, <2>2
<1>4. N # 0 => Column(r, 1) \in Columns(r)
  BY <1>1, <1>3
<1>. QED  BY <1>1, <1>3, <1>4 DEF N

(* Columns agree if they have the same values for the common keys.         *)
LEMMA AgreeingColumns ==
  ASSUME NEW first, NEW second, NEW i, NEW j
  PROVE  LET common == CommonKeys(first, second)
         IN  Agree(first, i, second, j) <=>
               Restrict(Column(first, i), common) = Restrict(Column(second, j), common)
<1>. DEFINE common == CommonKeys(first, second)
            c == Restrict(Column(first, i), common)
            d == Restrict(Column(second, j), common)
<1>1. /\ DOMAIN c = common /\ c = [key \in common |-> c[key]]
      /\ DOMAIN d = common /\ d = [key \in common |-> d[key]]
      /\ \A key \in common : c[key] = first[key][i] /\ d[key] = second[key][j]
  BY DEF Restrict, Column, CommonKeys
<1>2. Agree(first, i, second, j) <=> \A key \in common : c[key] = d[key]
  BY <1>1 DEF Agree
<1>. HIDE DEF c, d
<1>. QED  BY <1>1, <1>2 DEF c, d

(* The columns that agree with none of the others in the common keys.      *)
DifferenceOf(columns, others, common) ==
  IF common = {} THEN columns
  ELSE {c \in columns : Restrict(c, common) \notin {Restrict(d, common) : d \in others}}

(* subtractReplacements keeps the columns of the first matrix that agree   *)
(* with no column of the second one; all of them if there is no common     *)
(* key.                                                                    *)
THEOREM SubtractReplacementsIsDifference ==
  ASSUME NEW first, IsReplacements(first), IsMatrix(first),
         NEW second, IsReplacements(second), IsMatrix(second),
         NEW walk, IsWalk(walk)
  PROVE  LET left == SubtractReplacements(first, second, walk)
         IN  /\ IsReplacements(left) /\ IsMatrix(left)
             /\ Columns(left) =
                  DifferenceOf(Columns(first), Columns(second), CommonKeys(first, second))
<1>. DEFINE left == SubtractReplacements(first, second, walk)
            common == CommonKeys(first, second)
            taken == {Restrict(c, common) : c \in Columns(second)}
            N == ColumnsAmount(first, walk)
            M == ColumnsAmount(second, walk)
            hash == HashesOf(first, common, walk)
            S == {i \in ColumnNumbers(first, walk) : Matches(first, i, second, walk) = {}}
            order == InOrder(S, BucketOrder(hash, walk))
            unmatched == [key \in DOMAIN first |-> Selected(first[key], order)]
            Goal ==
              /\ IsReplacements(left) /\ IsMatrix(left)
              /\ Columns(left) = IF common = {} THEN Columns(first)
                                 ELSE {c \in Columns(first) : Restrict(c, common) \notin taken}
<1>1. /\ N \in Nat /\ HasColumns(first, N) /\ ColumnNumbers(first, walk) = 1 .. N
      /\ N = 0 <=> Columns(first) = {}
      /\ Columns(first) = {Column(first, i) : i \in 1 .. N}
  BY AmountIsZero, AmountOfMatrix DEF ColumnNumbers
<1>2. /\ M = 0 <=> Columns(second) = {}
      /\ Columns(second) = {Column(second, j) : j \in ColumnNumbers(second, walk)}
  BY AmountIsZero
<1>. HIDE DEF N, M, left
<1>3. ASSUME N = 0 \/ M = 0 \/ common = {} PROVE Goal
  <2>1. left = CopyReplacements(first)
    BY <1>3 DEF left, SubtractReplacements, N, M
  <2>2. IsReplacements(left) /\ IsMatrix(left) /\ Columns(left) = Columns(first)
    BY <2>1, CopyKeeps
  <2>3. CASE common = {}
    BY <2>2, <2>3 DEF left
  <2>4. CASE N = 0
    BY <2>2, <2>4, <1>1 DEF left
  <2>5. CASE M = 0
    BY <2>2, <2>5, <1>2 DEF left
  <2>. QED  BY <1>3, <2>3, <2>4, <2>5
<1>4. ASSUME N # 0 /\ M # 0 /\ common # {} PROVE Goal
  <2>1. left = RemoveDuplicateColumns(unmatched, walk)
    BY <1>4 DEF left, SubtractReplacements, Unmatched, N, M
  <2>2. S \in SUBSET (1 .. N) /\ IsOrder(BucketOrder(hash, walk), S)
    <3>1. S \in SUBSET (1 .. N)
      BY <1>1
    <3>2. DOMAIN hash = 1 .. N
      BY <1>1 DEF HashesOf
    <3>. HIDE DEF S, hash
    <3>. QED  BY <1>1, <3>1, <3>2, BucketOrderIsOrder
  <2>3. DOMAIN first # {}
    BY <1>4 DEF CommonKeys
  <2>4. ASSUME NEW i \in 1 .. N
        PROVE  i \in S <=> Restrict(Column(first, i), common) \notin taken
    <3>1. i \in S <=> \A j \in ColumnNumbers(second, walk) : ~Agree(first, i, second, j)
      BY <1>1 DEF Matches
    <3>2. \A j : Agree(first, i, second, j) <=>
                 Restrict(Column(first, i), common) = Restrict(Column(second, j), common)
      BY AgreeingColumns
    <3>3. Restrict(Column(first, i), common) \in taken <=>
            \E j \in ColumnNumbers(second, walk) :
              Restrict(Column(first, i), common) = Restrict(Column(second, j), common)
      <4>. HIDE DEF common
      <4>. QED  BY <1>2
    <3>. HIDE DEF S, taken
    <3>. QED  BY <3>1, <3>2, <3>3
  <2>. HIDE DEF S, hash, taken, common
  <2>5. HasColumns(unmatched, Cardinality(S)) /\ Columns(unmatched) = {Column(first, i) : i \in S}
    <3>. DEFINE before == BucketOrder(hash, walk)
    <3>1. HasColumns(first, N) /\ S \in SUBSET (1 .. N) /\ IsOrder(before, S)
      BY <1>1, <2>2
    <3>. HIDE DEF before
    <3>2. LET selected == [key \in DOMAIN first |-> Selected(first[key], InOrder(S, before))]
          IN  /\ HasColumns(selected, Cardinality(S))
              /\ DOMAIN first # {} => Columns(selected) = {Column(first, i) : i \in S}
      BY <3>1, SelectedColumns
    <3>. QED  BY <2>3, <3>2 DEF before
  <2>6. {Column(first, i) : i \in S} =
          {c \in Columns(first) : Restrict(c, common) \notin taken}
    BY <1>1, <2>2, <2>4
  <2>. HIDE DEF unmatched
  <2>7. IsReplacements(unmatched) /\ IsMatrix(unmatched)
    BY <2>5, ColumnsOfMatrix DEF HasColumns
  <2>8. IsReplacements(left) /\ IsMatrix(left) /\ Columns(left) = Columns(unmatched)
    BY <2>1, <2>7, RemoveDuplicateColumnsKeeps
  <2>. QED  BY <1>4, <2>5, <2>6, <2>8 DEF left, common, taken
<1>5. Goal
  <2>. HIDE DEF Goal
  <2>. QED  BY <1>3, <1>4
<1>. QED  BY <1>5 DEF left, common, taken, DifferenceOf

(* A walk orders the pairs of columns.                                     *)
LEMMA PairsProperties ==
  ASSUME NEW first, IsReplacements(first), NEW second, IsReplacements(second),
         NEW walk, IsWalk(walk)
  PROVE  LET P == {p \in ColumnNumbers(first, walk) \X ColumnNumbers(second, walk) :
                     p[2] \in Matches(first, p[1], second, walk)}
         IN  /\ Cardinality(P) \in Nat
             /\ Pairs(first, second, walk) \in [1 .. Cardinality(P) -> P]
             /\ \A p \in P : \E n \in 1 .. Cardinality(P) : Pairs(first, second, walk)[n] = p
<1>. DEFINE N == ColumnsAmount(first, walk)
            M == ColumnsAmount(second, walk)
            P == {p \in ColumnNumbers(first, walk) \X ColumnNumbers(second, walk) :
                    p[2] \in Matches(first, p[1], second, walk)}
            hash == HashesOf(first, CommonKeys(first, second), walk)
            before == BucketOrder(hash, walk)
<1>1. /\ N \in Nat /\ ColumnNumbers(first, walk) = 1 .. N
      /\ M \in Nat /\ ColumnNumbers(second, walk) = 1 .. M
  BY AmountType DEF ColumnNumbers
<1>2. P \subseteq (1 .. N) \X (1 .. M)
  BY <1>1
<1>3. IsFiniteSet(P)
  <2>1. IsFiniteSet(1 .. N) /\ IsFiniteSet(1 .. M)
    BY <1>1, FS_Interval
  <2>2. IsFiniteSet((1 .. N) \X (1 .. M))
    BY <2>1, FS_Product
  <2>. QED  BY <1>2, <2>2, FS_Subset
<1>4. IsOrder(Lexicographic(P, before), P)
  <2>1. DOMAIN hash = 1 .. N
    BY <1>1 DEF HashesOf
  <2>2. IsOrder(before, 1 .. N)
    <3>. HIDE DEF hash
    <3>. QED  BY <1>1, <2>1, BucketOrderIsOrder
  <2>3. P \subseteq (1 .. N) \X Int
    BY <1>1, <1>2
  <2>. HIDE DEF P, before
  <2>. QED  BY <2>2, <2>3, LexicographicIsOrder
<1>5. Pairs(first, second, walk) = InOrder(P, Lexicographic(P, before))
  BY DEF Pairs
<1>. HIDE DEF P, before
<1>6. /\ Cardinality(P) \in Nat
      /\ Pairs(first, second, walk) \in [1 .. Cardinality(P) -> P]
      /\ \A p \in P : \E n \in 1 .. Cardinality(P) : Pairs(first, second, walk)[n] = p
  BY <1>3, <1>4, <1>5, InOrderProperties
<1>. QED  BY <1>6 DEF P

(* A value that is read is a value of the row.                             *)
LEMMA ReadValue ==
  ASSUME NEW r, IsReplacements(r), NEW key \in DOMAIN r, NEW i \in Nat \ {0},
         ~(Len(r[key]) < i)
  PROVE  i \in 1 .. Len(r[key]) /\ r[key][i] \in Values
<1>1. r[key] \in Seq(Values)
  BY DEF IsReplacements
<1>2. Len(r[key]) \in Nat /\ i \in 1 .. Len(r[key])
  BY <1>1, LenProperties
<1>. QED  BY <1>1, <1>2, ElementOfSeq

(* The pairs whose columns are copied: neither is beyond a row.            *)
Readable(first, i, second, j) ==
  /\ i \in Nat \ {0} /\ ~ReadsBeyond(first, DOMAIN first, {i})
  /\ j \in Nat \ {0} /\ ~ReadsBeyond(second, DOMAIN second, {j})

(* L pairs of columns that agree.                                          *)
ArePairs(pairs, L, first, second) ==
  /\ L \in Nat
  /\ DOMAIN pairs = 1 .. L
  /\ \A n \in 1 .. L : /\ Readable(first, pairs[n][1], second, pairs[n][2])
                       /\ Agree(first, pairs[n][1], second, pairs[n][2])

(* The columns of r have those of the pairs as their parts.                *)
HasParts(r, pairs, L, first, second) ==
  \A n \in 1 .. L : /\ Restrict(Column(r, n), DOMAIN first) = Column(first, pairs[n][1])
                    /\ Restrict(Column(r, n), DOMAIN second) = Column(second, pairs[n][2])

(* The rows of the join are copied from the two operands.                  *)
LEMMA JoinedProperties ==
  ASSUME NEW first, IsReplacements(first), NEW second, IsReplacements(second),
         NEW L, NEW pairs, ArePairs(pairs, L, first, second)
  PROVE  LET joined == Joined(first, second, pairs)
         IN  /\ HasColumns(joined, L)
             /\ DOMAIN joined = DOMAIN first \cup DOMAIN second
             /\ HasParts(joined, pairs, L, first, second)
<1>. DEFINE joined == Joined(first, second, pairs)
            keys == DOMAIN first \cup DOMAIN second
<1>1. /\ \A n \in 1 .. L : \A key \in DOMAIN first : first[key][pairs[n][1]] \in Values
      /\ \A n \in 1 .. L : \A key \in DOMAIN second : second[key][pairs[n][2]] \in Values
  BY ReadValue DEF ArePairs, Readable, ReadsBeyond
<1>2. ASSUME NEW n \in 1 .. L, NEW key \in DOMAIN first, key \in DOMAIN second
      PROVE  first[key][pairs[n][1]] = second[key][pairs[n][2]]
  BY <1>2 DEF ArePairs, Agree, CommonKeys
<1>3. ASSUME NEW key \in keys
      PROVE  /\ joined[key] \in [1 .. L -> Values]
             /\ \A n \in 1 .. L : joined[key][n] =
                  IF key \in DOMAIN first THEN first[key][pairs[n][1]] ELSE second[key][pairs[n][2]]
  BY <1>1 DEF Joined, ArePairs
<1>4. DOMAIN joined = keys /\ joined = [key \in keys |-> joined[key]]
  BY DEF Joined
<1>. HIDE DEF joined
<1>5. ASSUME NEW key \in keys
      PROVE  joined[key] \in Seq(Values) /\ Len(joined[key]) = L
  <2>1. joined[key] \in Seq(Values)
    BY <1>3, IsASeq DEF ArePairs
  <2>. QED  BY <1>3, <2>1, LenProperties DEF ArePairs
<1>6. HasColumns(joined, L)
  BY <1>4, <1>5 DEF ArePairs, HasColumns, IsReplacements
<1>7. ASSUME NEW n \in 1 .. L
      PROVE  /\ Restrict(Column(joined, n), DOMAIN first) = Column(first, pairs[n][1])
             /\ Restrict(Column(joined, n), DOMAIN second) = Column(second, pairs[n][2])
  <2>1. \A key \in keys : Column(joined, n)[key] = joined[key][n]
    BY <1>4 DEF Column
  <2>2. /\ \A key \in DOMAIN first : joined[key][n] = first[key][pairs[n][1]]
        /\ \A key \in DOMAIN second : joined[key][n] = second[key][pairs[n][2]]
    BY <1>2, <1>3
  <2>. QED  BY <2>1, <2>2 DEF Column, Restrict
<1>. QED  BY <1>4, <1>6, <1>7 DEF joined, HasParts

(* The columns of two sets that agree where they have common keys, put     *)
(* together.                                                               *)
JoinOf(columns, keys, others, otherKeys) ==
  {c \in [keys \cup otherKeys -> Values] :
     Restrict(c, keys) \in columns /\ Restrict(c, otherKeys) \in others}

(* A column of a matrix has a value for each key.                          *)
LEMMA ColumnType ==
  ASSUME NEW r, NEW N, HasColumns(r, N), NEW i \in 1 .. N
  PROVE  Column(r, i) \in [DOMAIN r -> Values]
<1>1. \A key \in DOMAIN r : r[key] \in [1 .. N -> Values]
  BY ColumnsOfMatrix
<1>2. \A key \in DOMAIN r : r[key][i] \in Values
  BY <1>1
<1>. QED  BY <1>2 DEF Column

(* intersectReplacements joins two matrices that have columns; one that    *)
(* has none is no restriction.                                             *)
THEOREM IntersectReplacementsIsJoin ==
  ASSUME NEW first, IsReplacements(first), IsMatrix(first),
         NEW second, IsReplacements(second), IsMatrix(second),
         NEW walk, IsWalk(walk)
  PROVE  LET both == IntersectReplacements(first, second, walk)
         IN  /\ IsReplacements(both) /\ IsMatrix(both)
             /\ Columns(first) = {} => both = CopyReplacements(second)
             /\ Columns(first) # {} /\ Columns(second) = {} => both = first
             /\ Columns(first) # {} /\ Columns(second) # {} =>
                  /\ DOMAIN both = DOMAIN first \cup DOMAIN second
                  /\ Columns(both) =
                       JoinOf(Columns(first), DOMAIN first, Columns(second), DOMAIN second)
<1>. DEFINE both == IntersectReplacements(first, second, walk)
            N == ColumnsAmount(first, walk)
            M == ColumnsAmount(second, walk)
<1>1. /\ HasColumns(first, N) /\ ColumnNumbers(first, walk) = 1 .. N
      /\ N = 0 <=> Columns(first) = {}
      /\ Columns(first) = {Column(first, i) : i \in 1 .. N}
  BY AmountIsZero, AmountOfMatrix DEF ColumnNumbers
<1>2. /\ HasColumns(second, M) /\ ColumnNumbers(second, walk) = 1 .. M
      /\ M = 0 <=> Columns(second) = {}
      /\ Columns(second) = {Column(second, j) : j \in 1 .. M}
  BY AmountIsZero, AmountOfMatrix DEF ColumnNumbers
<1>. HIDE DEF N, M, both
<1>3. CASE N = 0
  <2>1. both = CopyReplacements(second)
    BY <1>3 DEF both, IntersectReplacements, N
  <2>2. IsReplacements(both) /\ IsMatrix(both)
    BY <2>1, CopyKeeps
  <2>. QED  BY <1>1, <1>3, <2>1, <2>2 DEF both
<1>4. CASE N # 0 /\ M = 0
  <2>1. both = CopyReplacements(first)
    BY <1>4 DEF both, IntersectReplacements, N, M
  <2>2. both = first
    BY <2>1, <1>1, <1>4, CopyKeeps
  <2>. QED  BY <1>1, <1>2, <1>4, <2>2 DEF both
<1>5. CASE N # 0 /\ M # 0
  <2>. DEFINE P == {p \in ColumnNumbers(first, walk) \X ColumnNumbers(second, walk) :
                      p[2] \in Matches(first, p[1], second, walk)}
              pairs == Pairs(first, second, walk)
              joined == Joined(first, second, pairs)
              keys == DOMAIN first \cup DOMAIN second
              L == Cardinality(P)
  <2>1. /\ L \in Nat /\ pairs \in [1 .. L -> P]
        /\ \A p \in P : \E n \in 1 .. L : pairs[n] = p
    BY PairsProperties
  <2>2. both = RemoveDuplicateColumns(joined, walk)
    BY <1>5 DEF both, IntersectReplacements, N, M
  <2>3. \A p : p \in P <=> p \in (1 .. N) \X (1 .. M) /\ Agree(first, p[1], second, p[2])
    BY <1>1, <1>2 DEF Matches
  <2>4. ASSUME NEW i \in 1 .. N, NEW j \in 1 .. M
        PROVE  Readable(first, i, second, j)
    BY <1>1, <1>2 DEF Readable, ReadsBeyond, HasColumns
  <2>5. DOMAIN first # {} /\ DOMAIN second # {}
    BY <1>5, AmountType DEF N, M
  <2>. HIDE DEF P, pairs, L
  <2>6. \A n \in 1 .. L : pairs[n][1] \in 1 .. N /\ pairs[n][2] \in 1 .. M
                         /\ Agree(first, pairs[n][1], second, pairs[n][2])
    BY <2>1, <2>3
  <2>7. /\ HasColumns(joined, L) /\ DOMAIN joined = keys
        /\ HasParts(joined, pairs, L, first, second)
    <3>1. ArePairs(pairs, L, first, second)
      BY <2>1, <2>4, <2>6 DEF ArePairs
    <3>. QED  BY <3>1, JoinedProperties
  <2>8. keys # {} /\ DOMAIN joined = keys
    BY <2>5, <2>7
  <2>9. Columns(joined) = {Column(joined, n) : n \in 1 .. L}
    <3>. HIDE DEF joined, keys
    <3>. QED  BY <2>7, <2>8, ColumnsOfMatrix
  <2>. HIDE DEF joined
  <2>11. ASSUME NEW n \in 1 .. L
         PROVE  Column(joined, n) \in
                  JoinOf(Columns(first), DOMAIN first, Columns(second), DOMAIN second)
    <3>1. pairs[n][1] \in 1 .. N /\ pairs[n][2] \in 1 .. M
      BY <2>6
    <3>2. Column(joined, n) \in [keys -> Values]
      BY <2>7, <2>8, ColumnType
    <3>. QED  BY <3>1, <3>2, <1>1, <1>2, <2>7 DEF JoinOf, HasParts
  <2>12. ASSUME NEW c \in JoinOf(Columns(first), DOMAIN first, Columns(second), DOMAIN second)
         PROVE  \E n \in 1 .. L : c = Column(joined, n)
    <3>1. c \in [keys -> Values]
      BY DEF JoinOf
    <3>2. PICK i \in 1 .. N : Restrict(c, DOMAIN first) = Column(first, i)
      BY <1>1 DEF JoinOf
    <3>3. PICK j \in 1 .. M : Restrict(c, DOMAIN second) = Column(second, j)
      BY <1>2 DEF JoinOf
    <3>4. /\ \A key \in DOMAIN first : c[key] = first[key][i]
          /\ \A key \in DOMAIN second : c[key] = second[key][j]
      <4>1. /\ \A key \in DOMAIN first :
                 Restrict(c, DOMAIN first)[key] = c[key] /\ Column(first, i)[key] = first[key][i]
            /\ \A key \in DOMAIN second :
                 Restrict(c, DOMAIN second)[key] = c[key] /\ Column(second, j)[key] = second[key][j]
        BY DEF Restrict, Column
      <4>. QED  BY <4>1, <3>2, <3>3
    <3>5. <<i, j>> \in P
      <4>1. Agree(first, i, second, j)
        BY <3>4 DEF Agree, CommonKeys
      <4>. QED  BY <4>1, <2>3
    <3>6. PICK n \in 1 .. L : pairs[n] = <<i, j>>
      BY <2>1, <3>5
    <3>7. /\ Restrict(Column(joined, n), DOMAIN first) = Restrict(c, DOMAIN first)
          /\ Restrict(Column(joined, n), DOMAIN second) = Restrict(c, DOMAIN second)
      BY <2>7, <3>2, <3>3, <3>6 DEF HasParts
    <3>8. Column(joined, n) \in [keys -> Values]
      BY <2>7, <2>8, ColumnType
    <3>9. \A key \in keys : Column(joined, n)[key] = c[key]
      BY <3>7 DEF Restrict
    <3>10. Column(joined, n) = c
      BY <3>1, <3>8, <3>9
    <3>. QED  BY <3>10
  <2>13. Columns(joined) = JoinOf(Columns(first), DOMAIN first, Columns(second), DOMAIN second)
    BY <2>9, <2>11, <2>12
  <2>14. IsReplacements(joined) /\ IsMatrix(joined)
    BY <2>7, ColumnsOfMatrix DEF HasColumns
  <2>15. /\ IsReplacements(both) /\ IsMatrix(both)
         /\ DOMAIN both = DOMAIN joined /\ Columns(both) = Columns(joined)
    BY <2>2, <2>14, RemoveDuplicateColumnsKeeps
  <2>. QED  BY <1>1, <1>2, <1>5, <2>8, <2>13, <2>15 DEF both
<1>. QED  BY <1>3, <1>4, <1>5

-----------------------------------------------------------------------------
(* What the operations return when they do not throw, also for rows of     *)
(* different lengths.                                                      *)

(* The values a row has at some of its indexes.                            *)
LEMMA SelectedType ==
  ASSUME NEW row \in Seq(Values), NEW S \in SUBSET (1 .. Len(row)),
         NEW before, IsOrder(before, S)
  PROVE  Selected(row, InOrder(S, before)) \in Seq(Values)
<1>. DEFINE order == InOrder(S, before)
            M == Cardinality(S)
<1>1. Len(row) \in Nat /\ row \in [1 .. Len(row) -> Values]
  BY LenProperties
<1>2. IsFiniteSet(S)
  <2>1. IsFiniteSet(1 .. Len(row))
    BY <1>1, FS_Interval
  <2>. QED  BY <2>1, FS_Subset
<1>3. M \in Nat /\ order \in [1 .. M -> S]
  BY <1>2, InOrderProperties
<1>. HIDE DEF order, M
<1>4. Selected(row, order) \in [1 .. M -> Values]
  BY <1>1, <1>3 DEF Selected
<1>5. Selected(row, order) \in Seq(Values)
  BY <1>3, <1>4, IsASeq
<1>. QED  BY <1>5 DEF order

(* The removal of duplicates keeps the rows, of whatever length.           *)
LEMMA RemoveDuplicateColumnsType ==
  ASSUME NEW r, IsReplacements(r), NEW walk
  PROVE  /\ IsReplacements(RemoveDuplicateColumns(r, walk))
         /\ DOMAIN RemoveDuplicateColumns(r, walk) = DOMAIN r
<1>. DEFINE C == ColumnsToRemove(r, walk)
            kept == RemoveDuplicateColumns(r, walk)
<1>. HIDE DEF C
<1>1. kept = [key \in DOMAIN r |-> Selected(r[key], Ascending(DOMAIN r[key] \ C))]
  BY DEF RemoveDuplicateColumns, WithoutColumns, C
<1>2. ASSUME NEW key \in DOMAIN r
      PROVE  Selected(r[key], Ascending(DOMAIN r[key] \ C)) \in Seq(Values)
  <2>. DEFINE S == DOMAIN r[key] \ C
  <2>1. r[key] \in Seq(Values)
    BY DEF IsReplacements
  <2>2. S \in SUBSET (1 .. Len(r[key])) /\ S \subseteq Int
    BY <2>1, LenProperties
  <2>3. IsOrder(Less(S), S)
    BY <2>2, LessIsOrder
  <2>. HIDE DEF S
  <2>4. Selected(r[key], InOrder(S, Less(S))) \in Seq(Values)
    BY <2>1, <2>2, <2>3, SelectedType
  <2>. QED  BY <2>4 DEF Ascending, S
<1>3. DOMAIN kept = DOMAIN r /\ \A key \in DOMAIN r : kept[key] \in Seq(Values)
  BY <1>1, <1>2
<1>4. kept = [key \in DOMAIN kept |-> kept[key]]
  BY <1>1
<1>. HIDE DEF kept
<1>. QED  BY <1>3, <1>4 DEF IsReplacements, kept

LEMMA SubtractReplacementsType ==
  ASSUME NEW first, IsReplacements(first), NEW second, IsReplacements(second),
         NEW walk, IsWalk(walk), ~SubtractThrows(first, second, walk)
  PROVE  /\ IsReplacements(SubtractReplacements(first, second, walk))
         /\ DOMAIN SubtractReplacements(first, second, walk) \subseteq DOMAIN first
<1>. DEFINE left == SubtractReplacements(first, second, walk)
            common == CommonKeys(first, second)
            N == ColumnsAmount(first, walk)
            M == ColumnsAmount(second, walk)
            hash == HashesOf(first, common, walk)
            S == {i \in ColumnNumbers(first, walk) : Matches(first, i, second, walk) = {}}
            order == InOrder(S, BucketOrder(hash, walk))
            unmatched == [key \in DOMAIN first |-> Selected(first[key], order)]
<1>1. N \in Nat /\ M \in Nat /\ ColumnNumbers(first, walk) = 1 .. N
  BY AmountType DEF ColumnNumbers
<1>2. CASE N = 0 \/ M = 0 \/ common = {}
  <2>1. left = CopyReplacements(first)
    BY <1>2 DEF SubtractReplacements
  <2>. HIDE DEF left
  <2>2. IsReplacements(left) /\ DOMAIN left \subseteq DOMAIN first
    BY <2>1, CopyKeeps
  <2>. QED  BY <2>2 DEF left
<1>3. CASE N # 0 /\ M # 0 /\ common # {}
  <2>1. left = RemoveDuplicateColumns(unmatched, walk)
    BY <1>3 DEF SubtractReplacements, Unmatched
  <2>2. S \in SUBSET (1 .. N) /\ DOMAIN hash = 1 .. N
    BY <1>1 DEF HashesOf
  <2>3. ~ReadsBeyond(first, DOMAIN first, S)
    <3>1. ColumnNumbers(first, walk) # {} /\ ColumnsAmount(second, walk) > 0
      BY <1>1, <1>3
    <3>. QED  BY <1>3, <3>1 DEF SubtractThrows
  <2>. HIDE DEF S, hash
  <2>4. IsOrder(BucketOrder(hash, walk), S)
    BY <1>1, <2>2, BucketOrderIsOrder
  <2>5. \A key \in DOMAIN first : Selected(first[key], order) \in Seq(Values)
    <3>1. ASSUME NEW key \in DOMAIN first
          PROVE  Selected(first[key], order) \in Seq(Values)
      <4>1. S \in SUBSET (1 .. Len(first[key]))
        <5>1. ASSUME NEW i \in S
              PROVE  i \in 1 .. Len(first[key])
          <6>1. i \in Nat \ {0} /\ ~(Len(first[key]) < i)
            BY <1>1, <2>2, <2>3 DEF ReadsBeyond
          <6>. QED  BY <6>1, ReadValue
        <5>. QED  BY <5>1
      <4>2. first[key] \in Seq(Values)
        BY DEF IsReplacements
      <4>. QED  BY <2>4, <4>1, <4>2, SelectedType
    <3>. QED  BY <3>1
  <2>6. IsReplacements(unmatched) /\ DOMAIN unmatched = DOMAIN first
    <3>. HIDE DEF order
    <3>. QED  BY <2>5 DEF IsReplacements
  <2>. HIDE DEF unmatched, left
  <2>7. IsReplacements(left) /\ DOMAIN left = DOMAIN first
    BY <2>1, <2>6, RemoveDuplicateColumnsType
  <2>. QED  BY <2>7 DEF left
<1>. QED  BY <1>2, <1>3

(* intersectReplacements, when it does not throw: of a matrix that has     *)
(* columns it leaves some, extended by the rows of the other operand.      *)
LEMMA IntersectReplacementsType ==
  ASSUME NEW first, IsReplacements(first), NEW second, IsReplacements(second),
         NEW walk, IsWalk(walk), ~IntersectThrows(first, second, walk)
  PROVE  LET both == IntersectReplacements(first, second, walk)
         IN  /\ IsReplacements(both)
             /\ IsMatrix(first) /\ Columns(first) # {} =>
                  /\ IsMatrix(both)
                  /\ DOMAIN first \subseteq DOMAIN both
                  /\ \A c \in Columns(both) : Restrict(c, DOMAIN first) \in Columns(first)
<1>. DEFINE both == IntersectReplacements(first, second, walk)
            N == ColumnsAmount(first, walk)
            M == ColumnsAmount(second, walk)
<1>1. /\ N \in Nat /\ ColumnNumbers(first, walk) = 1 .. N
      /\ M \in Nat /\ ColumnNumbers(second, walk) = 1 .. M
  BY AmountType DEF ColumnNumbers
<1>2. IsMatrix(first) =>
        /\ N = 0 <=> Columns(first) = {}
        /\ Columns(first) = {Column(first, i) : i \in 1 .. N}
  BY <1>1, AmountIsZero
<1>. HIDE DEF N, M, both
<1>3. CASE N = 0
  <2>1. both = CopyReplacements(second)
    BY <1>3 DEF both, IntersectReplacements, N
  <2>2. IsReplacements(both)
    BY <2>1, CopyKeeps
  <2>. QED  BY <1>2, <1>3, <2>2 DEF both
<1>4. CASE N # 0 /\ M = 0
  <2>1. both = CopyReplacements(first)
    BY <1>4 DEF both, IntersectReplacements, N, M
  <2>2. /\ IsReplacements(both)
        /\ IsMatrix(first) /\ Columns(first) # {} => both = first
    BY <2>1, CopyKeeps
  <2>3. ASSUME IsMatrix(first), Columns(first) # {}, NEW c \in Columns(first)
        PROVE  Restrict(c, DOMAIN first) \in Columns(first)
    <3>1. PICK i \in 1 .. N : c = Column(first, i)
      BY <1>2, <2>3
    <3>2. Restrict(c, DOMAIN first) = c
      BY <3>1 DEF Restrict, Column
    <3>. QED  BY <3>2
  <2>. QED  BY <2>2, <2>3 DEF both
<1>5. CASE N # 0 /\ M # 0
  <2>. DEFINE P == {p \in ColumnNumbers(first, walk) \X ColumnNumbers(second, walk) :
                      p[2] \in Matches(first, p[1], second, walk)}
              pairs == Pairs(first, second, walk)
              joined == Joined(first, second, pairs)
              L == Cardinality(P)
  <2>1. L \in Nat /\ pairs \in [1 .. L -> P]
    BY PairsProperties
  <2>2. both = RemoveDuplicateColumns(joined, walk)
    BY <1>5 DEF both, IntersectReplacements, N, M
  <2>3. \A p : p \in P <=> p \in (1 .. N) \X (1 .. M) /\ Agree(first, p[1], second, p[2])
    BY <1>1 DEF Matches
  <2>4. ASSUME NEW i \in 1 .. N, NEW j \in 1 .. M, Agree(first, i, second, j)
        PROVE  Readable(first, i, second, j)
    <3>1. ColumnNumbers(first, walk) # {} /\ ColumnNumbers(second, walk) # {}
      BY <1>1, <1>5
    <3>2. /\ ~ReadsBeyond(first, DOMAIN first, {i})
          /\ ~ReadsBeyond(second, DOMAIN second, {j})
      BY <1>1, <2>4, <3>1 DEF IntersectThrows
    <3>. QED  BY <3>2 DEF Readable
  <2>. HIDE DEF P, pairs, L
  <2>5. \A n \in 1 .. L : pairs[n][1] \in 1 .. N /\ pairs[n][2] \in 1 .. M
                         /\ Agree(first, pairs[n][1], second, pairs[n][2])
    BY <2>1, <2>3
  <2>6. /\ HasColumns(joined, L) /\ DOMAIN joined = DOMAIN first \cup DOMAIN second
        /\ HasParts(joined, pairs, L, first, second)
    <3>1. ArePairs(pairs, L, first, second)
      BY <2>1, <2>4, <2>5 DEF ArePairs
    <3>. QED  BY <3>1, JoinedProperties
  <2>. HIDE DEF joined
  <2>7. IsReplacements(joined) /\ IsMatrix(joined)
    BY <2>6, ColumnsOfMatrix DEF HasColumns
  <2>8. /\ IsReplacements(both) /\ IsMatrix(both)
        /\ DOMAIN both = DOMAIN joined /\ Columns(both) = Columns(joined)
    BY <2>2, <2>7, RemoveDuplicateColumnsKeeps
  <2>9. ASSUME IsMatrix(first), NEW c \in Columns(joined)
        PROVE  Restrict(c, DOMAIN first) \in Columns(first)
    <3>1. PICK n \in 1 .. L : c = Column(joined, n)
      <4>1. DOMAIN joined # {}
        BY <2>6, <2>9, ColumnsOfMatrix
      <4>. QED  BY <2>6, <4>1, ColumnsOfMatrix
    <3>. QED  BY <3>1, <1>2, <2>5, <2>6, <2>9 DEF HasParts
  <2>. QED  BY <2>6, <2>8, <2>9 DEF both
<1>. QED  BY <1>3, <1>4, <1>5

(* A quotient of numbers below a product.                                  *)
LEMMA QuotientBound ==
  ASSUME NEW L \in Nat, NEW t \in Nat \ {0}, NEW n \in 1 .. L * t
  PROVE  ((n - 1) \div t) + 1 \in 1 .. L
<1>. DEFINE q == (n - 1) \div t
            m == (n - 1) % t
<1>1. L * t \in Nat /\ n - 1 \in Nat /\ n - 1 < L * t
  OBVIOUS
<1>2. q \in Nat /\ m \in Nat /\ n - 1 = t * q + m
  BY <1>1
<1>. HIDE DEF q, m
<1>3. SUFFICES ASSUME ~(q < L) PROVE FALSE
  BY <1>2 DEF q
<1>4. PICK d \in Nat : q = L + d
  <2>1. q - L \in Nat /\ q = L + (q - L)
    BY <1>2, <1>3
  <2>. QED  BY <2>1
<1>5. t * q = t * L + t * d /\ t * d \in Nat /\ t * L = L * t
  BY <1>4
<1>. QED  BY <1>1, <1>2, <1>5

(* The values of a row at the columns in an order, each several times.     *)
LEMMA RepeatedType ==
  ASSUME NEW row \in Seq(Values), NEW S, IsFiniteSet(S), S \subseteq 1 .. Len(row),
         NEW before, IsOrder(before, S), NEW times \in Nat \ {0}
  PROVE  Repeated(row, InOrder(S, before), times) \in Seq(Values)
<1>. DEFINE order == InOrder(S, before)
            L == Cardinality(S)
<1>1. L \in Nat /\ order \in [1 .. L -> S]
  BY InOrderProperties
<1>. HIDE DEF order, L
<1>2. Len(order) = L
  <2>1. order \in Seq(S)
    BY <1>1, IsASeq
  <2>. QED  BY <1>1, <2>1, LenProperties
<1>3. ASSUME NEW n \in 1 .. L * times
      PROVE  row[order[((n - 1) \div times) + 1]] \in Values
  <2>1. ((n - 1) \div times) + 1 \in 1 .. L
    BY <1>1, QuotientBound
  <2>2. PICK k \in 1 .. L : k = ((n - 1) \div times) + 1
    BY <2>1
  <2>3. order[k] \in 1 .. Len(row)
    BY <1>1
  <2>4. row[order[k]] \in Values
    BY <2>3, ElementOfSeq
  <2>. QED  BY <2>2, <2>4
<1>4. L * times \in Nat
  BY <1>1
<1>5. PICK m \in Nat : m = L * times
  BY <1>4
<1>6. Repeated(row, order, times) \in [1 .. m -> Values]
  BY <1>2, <1>3, <1>5 DEF Repeated
<1>7. Repeated(row, order, times) \in Seq(Values)
  BY <1>6, IsASeq
<1>. QED  BY <1>7 DEF order

(* The copies of a row.                                                    *)
LEMMA CopiesType ==
  ASSUME NEW row \in Seq(Values), NEW amount \in Nat
  PROVE  Copies(row, amount) \in Seq(Values)
<1>1. Len(row) \in Nat
  BY LenProperties
<1>2. PICK m \in Nat : m = amount * Len(row)
  BY <1>1
<1>3. ASSUME NEW n \in 1 .. m
      PROVE  row[((n - 1) % Len(row)) + 1] \in Values
  <2>1. Len(row) # 0
    <3>1. SUFFICES ASSUME Len(row) = 0 PROVE FALSE
      OBVIOUS
    <3>2. m = 0
      BY <1>2, <3>1
    <3>. QED  BY <1>3, <3>2
  <2>2. ((n - 1) % Len(row)) + 1 \in 1 .. Len(row)
    BY <1>1, <2>1
  <2>. QED  BY <2>2, ElementOfSeq
<1>4. Copies(row, amount) \in [1 .. m -> Values]
  BY <1>2, <1>3 DEF Copies
<1>. QED  BY <1>4, IsASeq

(* The columns of a map that all rows have.                                *)
LEMMA ReadableColumns ==
  ASSUME NEW r, IsReplacements(r), NEW S, S \subseteq Nat \ {0}, ~ReadsBeyond(r, DOMAIN r, S)
  PROVE  \A key \in DOMAIN r : r[key] \in Seq(Values) /\ S \subseteq 1 .. Len(r[key])
BY ReadValue DEF ReadsBeyond, IsReplacements

(* The combination of two maps, whose columns it can read.                 *)
LEMMA CombineRepeatingType ==
  ASSUME NEW first, IsReplacements(first), NEW second, IsReplacements(second),
         NEW walk, IsWalk(walk),
         NEW timesFirst \in Nat \ {0}, NEW timesSecond \in Nat \ {0},
         ~OutOfRange(first, walk),
         ~ReadsBeyond(second, DOMAIN second, ColumnNumbers(second, walk) \ Skipped(first, second, walk))
  PROVE  LET combined == CombineRepeating(first, second, walk, timesFirst, timesSecond)
         IN  /\ IsReplacements(combined)
             /\ DOMAIN combined = DOMAIN first \cup DOMAIN second
             /\ DOMAIN first = DOMAIN second => IsMatrix(combined)
<1>. DEFINE common == CommonKeys(first, second)
            S == ColumnNumbers(first, walk)
            T == ColumnNumbers(second, walk) \ Skipped(first, second, walk)
            hashS == HashesOf(first, common, walk)
            hashT == HashesOf(second, common, walk)
            ofFirst == InOrder(S, BucketOrder(hashS, walk))
            ofSecond == InOrder(T, BucketOrder(hashT, walk))
            N == ColumnsAmount(first, walk)
            M == ColumnsAmount(second, walk)
            fill(key, r, columns, times, other) ==
              IF key \in DOMAIN r THEN Repeated(r[key], columns, times)
              ELSE Copies(other[key], Len(columns))
            combined == CombineRepeating(first, second, walk, timesFirst, timesSecond)
<1>1. N \in Nat /\ S = 1 .. N /\ M \in Nat /\ T \in SUBSET (1 .. M)
  BY AmountType DEF ColumnNumbers
<1>2. DOMAIN hashS = 1 .. N /\ DOMAIN hashT = 1 .. M
  BY AmountType DEF HashesOf, ColumnNumbers
<1>3. combined = [key \in DOMAIN first \cup DOMAIN second |->
                    fill(key, first, ofFirst, timesFirst, second) \o
                    fill(key, second, ofSecond, timesSecond, first)]
  BY DEF CombineRepeating, ColumnsByHash
<1>. HIDE DEF hashS, hashT, N, M
<1>4. IsOrder(BucketOrder(hashS, walk), S) /\ IsOrder(BucketOrder(hashT, walk), T)
  <2>1. S \in SUBSET (1 .. N)
    BY <1>1
  <2>. HIDE DEF S, T
  <2>. QED  BY <1>1, <1>2, <2>1, BucketOrderIsOrder
<1>5. IsFiniteSet(S) /\ IsFiniteSet(T)
  <2>1. IsFiniteSet(1 .. N) /\ IsFiniteSet(1 .. M)
    BY <1>1, FS_Interval
  <2>. QED  BY <1>1, <2>1, FS_Subset
<1>6. /\ \A key \in DOMAIN first : first[key] \in Seq(Values) /\ S \subseteq 1 .. Len(first[key])
      /\ \A key \in DOMAIN second : second[key] \in Seq(Values) /\ T \subseteq 1 .. Len(second[key])
  <2>1. ~ReadsBeyond(first, DOMAIN first, S) /\ ~ReadsBeyond(second, DOMAIN second, T)
    BY DEF OutOfRange
  <2>2. S \subseteq Nat \ {0} /\ T \subseteq Nat \ {0}
    BY <1>1
  <2>. HIDE DEF S, T
  <2>. QED  BY <2>1, <2>2, ReadableColumns
<1>. HIDE DEF S, T, combined
<1>7. Len(ofFirst) \in Nat /\ Len(ofSecond) \in Nat
  <2>1. ASSUME NEW U, IsFiniteSet(U), NEW before, IsOrder(before, U)
        PROVE  Len(InOrder(U, before)) \in Nat
    <3>1. Cardinality(U) \in Nat /\ InOrder(U, before) \in [1 .. Cardinality(U) -> U]
      BY <2>1, InOrderProperties
    <3>2. InOrder(U, before) \in Seq(U)
      BY <3>1, IsASeq
    <3>. QED  BY <3>2, LenProperties
  <2>. QED  BY <1>4, <1>5, <2>1
<1>8. ASSUME NEW key \in DOMAIN first \cup DOMAIN second
      PROVE  /\ fill(key, first, ofFirst, timesFirst, second) \in Seq(Values)
             /\ fill(key, second, ofSecond, timesSecond, first) \in Seq(Values)
  <2>1. key \in DOMAIN first => Repeated(first[key], ofFirst, timesFirst) \in Seq(Values)
    BY <1>4, <1>5, <1>6, RepeatedType
  <2>2. key \in DOMAIN second => Repeated(second[key], ofSecond, timesSecond) \in Seq(Values)
    BY <1>4, <1>5, <1>6, RepeatedType
  <2>3. key \in DOMAIN first => Copies(first[key], Len(ofSecond)) \in Seq(Values)
    BY <1>6, <1>7, CopiesType
  <2>4. key \in DOMAIN second => Copies(second[key], Len(ofFirst)) \in Seq(Values)
    BY <1>6, <1>7, CopiesType
  <2>. HIDE DEF ofFirst, ofSecond
  <2>. QED  BY <2>1, <2>2, <2>3, <2>4
<1>9. ASSUME DOMAIN first = DOMAIN second
      PROVE  IsMatrix(combined)
  <2>. DEFINE a == Len(ofFirst) * timesFirst
              b == Len(ofSecond) * timesSecond
              long(key) == Repeated(first[key], ofFirst, timesFirst)
              added(key) == Repeated(second[key], ofSecond, timesSecond)
  <2>1. \A key \in DOMAIN first : combined[key] = long(key) \o added(key)
    <3>. HIDE DEF ofFirst, ofSecond
    <3>. QED  BY <1>3, <1>9
  <2>2. \A key \in DOMAIN first : long(key) \in Seq(Values) /\ added(key) \in Seq(Values)
    <3>1. \A key \in DOMAIN first : long(key) \in Seq(Values)
      BY <1>4, <1>5, <1>6, RepeatedType
    <3>2. \A key \in DOMAIN second : added(key) \in Seq(Values)
      BY <1>4, <1>5, <1>6, RepeatedType
    <3>. QED  BY <1>9, <3>1, <3>2
  <2>3. \A key : DOMAIN long(key) = 1 .. a /\ DOMAIN added(key) = 1 .. b
    BY DEF Repeated
  <2>4. a \in Nat /\ b \in Nat
    <3>. HIDE DEF ofFirst, ofSecond
    <3>. QED  BY <1>7
  <2>. HIDE DEF a, b, long, added
  <2>5. \A key \in DOMAIN first : Len(long(key)) = a /\ Len(added(key)) = b
    <3>1. ASSUME NEW row \in Seq(Values), NEW N1 \in Nat, DOMAIN row = 1 .. N1
          PROVE  Len(row) = N1
      BY <3>1
    <3>. QED  BY <2>2, <2>3, <2>4, <3>1
  <2>6. ASSUME NEW key \in DOMAIN first
        PROVE  Len(combined[key]) = a + b
    <3>1. /\ combined[key] = long(key) \o added(key)
          /\ long(key) \in Seq(Values) /\ added(key) \in Seq(Values)
          /\ Len(long(key)) = a /\ Len(added(key)) = b
      BY <2>1, <2>2, <2>5
    <3>2. Len(long(key) \o added(key)) = Len(long(key)) + Len(added(key))
      BY <3>1, ConcatProperties
    <3>. QED  BY <3>1, <3>2
  <2>7. DOMAIN combined = DOMAIN first
    BY <1>3, <1>9
  <2>. QED  BY <2>6, <2>7 DEF IsMatrix
<1>. HIDE DEF fill
<1>10. \A key \in DOMAIN first \cup DOMAIN second : combined[key] \in Seq(Values)
  BY <1>3, <1>8, ConcatProperties
<1>11. /\ DOMAIN combined = DOMAIN first \cup DOMAIN second
       /\ combined = [key \in DOMAIN combined |-> combined[key]]
  BY <1>3
<1>12. IsReplacements(combined)
  BY <1>10, <1>11 DEF IsReplacements
<1>. QED  BY <1>9, <1>11, <1>12 DEF combined

LEMMA UniteReplacementsType ==
  ASSUME NEW first, IsReplacements(first), NEW second, IsReplacements(second),
         NEW walk, IsWalk(walk), ~UniteThrows(first, second, walk)
  PROVE  /\ IsReplacements(UniteReplacements(first, second, walk))
         /\ DOMAIN UniteReplacements(first, second, walk) \subseteq DOMAIN first \cup DOMAIN second
<1>. DEFINE N == ColumnsAmount(first, walk)
            M == ColumnsAmount(second, walk)
            united == UniteReplacements(first, second, walk)
<1>1. N \in Nat /\ M \in Nat /\ ColumnNumbers(second, walk) = 1 .. M
  BY AmountType DEF ColumnNumbers
<1>. HIDE DEF N, M
<1>2. CASE N = 0
  <2>1. united = CopyReplacements(second)
    BY <1>2 DEF UniteReplacements, N
  <2>. QED  BY <2>1, CopyKeeps
<1>3. CASE N # 0 /\ M = 0
  <2>1. united = CopyReplacements(first)
    BY <1>3 DEF UniteReplacements, N, M
  <2>. QED  BY <2>1, CopyKeeps
<1>4. CASE N # 0 /\ M # 0
  <2>1. united = RemoveDuplicateColumns(Combine(first, second, walk), walk)
    BY <1>4 DEF UniteReplacements, N, M
  <2>2. /\ ~OutOfRange(first, walk)
        /\ ~ReadsBeyond(second, DOMAIN second,
                        ColumnNumbers(second, walk) \ Skipped(first, second, walk))
    <3>1. ColumnsAmount(first, walk) > 0 /\ ColumnNumbers(second, walk) # {}
      <4>1. N > 0 /\ 1 \in 1 .. M
        BY <1>1, <1>4
      <4>. QED  BY <1>1, <4>1 DEF N
    <3>. QED  BY <3>1 DEF UniteThrows
  <2>3. PICK t \in Nat \ {0}, u \in Nat \ {0} :
          Combine(first, second, walk) = CombineRepeating(first, second, walk, t, u)
    <3>. DEFINE times(r, other) == IF DOMAIN r = CommonKeys(first, second)
                                     THEN 1 ELSE ColumnsAmount(other, walk)
    <3>1. times(first, second) \in Nat \ {0} /\ times(second, first) \in Nat \ {0}
      BY <1>1, <1>4 DEF N, M
    <3>2. Combine(first, second, walk) =
            CombineRepeating(first, second, walk, times(first, second), times(second, first))
      BY DEF Combine
    <3>. HIDE DEF times
    <3>. QED  BY <3>1, <3>2
  <2>4. /\ IsReplacements(Combine(first, second, walk))
        /\ DOMAIN Combine(first, second, walk) = DOMAIN first \cup DOMAIN second
    <3>1. /\ IsReplacements(CombineRepeating(first, second, walk, t, u))
          /\ DOMAIN CombineRepeating(first, second, walk, t, u) = DOMAIN first \cup DOMAIN second
          /\ DOMAIN first = DOMAIN second => IsMatrix(CombineRepeating(first, second, walk, t, u))
      BY <2>2, <2>3, CombineRepeatingType
    <3>. QED  BY <2>3, <3>1
  <2>. QED  BY <2>1, <2>4, RemoveDuplicateColumnsType
<1>. QED  BY <1>2, <1>3, <1>4

(* The union of matrices of the same variables, or of none.                *)
LEMMA UniteSameKeys ==
  ASSUME NEW first, IsReplacements(first), IsMatrix(first),
         NEW second, IsReplacements(second), IsMatrix(second),
         DOMAIN first = {} \/ DOMAIN second = {} \/ DOMAIN first = DOMAIN second,
         NEW walk, IsWalk(walk)
  PROVE  LET united == UniteReplacements(first, second, walk)
         IN  /\ IsReplacements(united) /\ IsMatrix(united)
             /\ DOMAIN united \in {{}, DOMAIN first, DOMAIN second}
<1>. DEFINE N == ColumnsAmount(first, walk)
            M == ColumnsAmount(second, walk)
            united == UniteReplacements(first, second, walk)
<1>1. ASSUME NEW r, IsReplacements(r), IsMatrix(r)
      PROVE  LET copy == CopyReplacements(r)
             IN  IsReplacements(copy) /\ IsMatrix(copy) /\ DOMAIN copy \in {{}, DOMAIN r}
  <2>. DEFINE copy == CopyReplacements(r)
  <2>1. /\ IsReplacements(copy)
        /\ IsMatrix(r) => IsMatrix(copy) /\ Columns(copy) = Columns(r)
        /\ IsMatrix(r) /\ Columns(r) # {} => copy = r
        /\ IsMatrix(r) /\ Columns(r) = {} => DOMAIN copy = {}
    BY <1>1, CopyKeeps
  <2>. HIDE DEF copy
  <2>. QED  BY <1>1, <2>1 DEF copy
<1>2. N \in Nat /\ M \in Nat /\ HasColumns(first, N) /\ HasColumns(second, M)
      /\ (DOMAIN first = {} => N = 0) /\ (DOMAIN second = {} => M = 0)
  BY AmountType, AmountOfMatrix
<1>3. CASE N = 0
  <2>1. united = CopyReplacements(second)
    BY <1>3 DEF UniteReplacements
  <2>. QED  BY <1>1, <2>1
<1>4. CASE N # 0 /\ M = 0
  <2>1. united = CopyReplacements(first)
    BY <1>4 DEF UniteReplacements
  <2>. QED  BY <1>1, <2>1
<1>5. CASE N # 0 /\ M # 0
  <2>1. united = RemoveDuplicateColumns(Combine(first, second, walk), walk)
    BY <1>5 DEF UniteReplacements
  <2>2. DOMAIN first = DOMAIN second /\ CommonKeys(first, second) = DOMAIN first
    BY <1>2, <1>5 DEF CommonKeys
  <2>3. Combine(first, second, walk) = CombineRepeating(first, second, walk, 1, 1)
    <3>1. CommonKeys(second, first) = DOMAIN second
      BY <2>2 DEF CommonKeys
    <3>. QED  BY <2>2, <3>1 DEF Combine
  <2>4. ~OutOfRange(first, walk) /\ ~ReadsBeyond(second, DOMAIN second, ColumnNumbers(second, walk))
    BY <1>2 DEF OutOfRange, ReadsBeyond, ColumnNumbers, HasColumns
  <2>5. ~ReadsBeyond(second, DOMAIN second, ColumnNumbers(second, walk) \ Skipped(first, second, walk))
    BY <2>4 DEF ReadsBeyond
  <2>. DEFINE combined == Combine(first, second, walk)
  <2>6. IsReplacements(combined) /\ DOMAIN combined = DOMAIN first /\ IsMatrix(combined)
    <3>1. 1 \in Nat \ {0}
      OBVIOUS
    <3>. QED  BY <2>2, <2>3, <2>4, <2>5, <3>1, CombineRepeatingType
  <2>. HIDE DEF combined
  <2>7. /\ IsReplacements(RemoveDuplicateColumns(combined, walk))
        /\ IsMatrix(RemoveDuplicateColumns(combined, walk))
        /\ DOMAIN RemoveDuplicateColumns(combined, walk) = DOMAIN combined
    BY <2>6, RemoveDuplicateColumnsKeeps
  <2>. QED  BY <2>1, <2>6, <2>7 DEF combined
<1>. QED  BY <1>2, <1>3, <1>4, <1>5

-----------------------------------------------------------------------------
(* Unions.                                                                 *)

(* The number n is number k of the block p of t numbers.                   *)
IsIndex(n, t, p, k) == ((n - 1) \div t) + 1 = p /\ ((n - 1) % t) + 1 = k

(* Each block of t numbers has each position.                              *)
LEMMA PairIndex ==
  ASSUME NEW L \in Nat, NEW t \in Nat \ {0}, NEW p \in 1 .. L, NEW j \in 1 .. t
  PROVE  \E n \in 1 .. L * t : IsIndex(n, t, p, j)
<1>1. PICK q \in Nat : q = p - 1
  OBVIOUS
<1>2. PICK d \in Nat : L = q + 1 + d
  <2>1. L - p \in Nat /\ L = q + 1 + (L - p)
    BY <1>1
  <2>. QED  BY <2>1
<1>3. t * q \in Nat /\ t * d \in Nat /\ L * t = t * q + t + t * d
  <2>1. t * q \in Nat /\ t * d \in Nat
    OBVIOUS
  <2>2. L * t = t * (q + 1 + d)
    BY <1>2
  <2>3. t * (q + 1 + d) = t * q + t + t * d
    OBVIOUS
  <2>. QED  BY <2>1, <2>2, <2>3
<1>4. PICK b \in Nat : b = t * q
  BY <1>3
<1>5. PICK n \in Nat : n = b + j
  BY <1>4
<1>6. n \in 1 .. L * t
  BY <1>3, <1>4, <1>5
<1>. DEFINE e == (n - 1) \div t
            m == (n - 1) % t
<1>7. e \in Nat /\ m \in 0 .. t - 1 /\ n - 1 = t * e + m
  BY <1>5
<1>. HIDE DEF e, m
<1>8. ~(q < e)
  <2>1. SUFFICES ASSUME q < e PROVE FALSE
    OBVIOUS
  <2>2. PICK f \in Nat : e = q + 1 + f
    <3>1. e - q - 1 \in Nat /\ e = q + 1 + (e - q - 1)
      BY <1>7, <2>1
    <3>. QED  BY <3>1
  <2>3. t * e = t * q + t + t * f /\ t * f \in Nat
    <3>1. t * e = t * (q + 1 + f)
      BY <2>2
    <3>2. t * (q + 1 + f) = t * q + t + t * f /\ t * f \in Nat
      OBVIOUS
    <3>. QED  BY <3>1, <3>2
  <2>. QED  BY <1>4, <1>5, <1>7, <2>3
<1>9. ~(e < q)
  <2>1. SUFFICES ASSUME e < q PROVE FALSE
    OBVIOUS
  <2>2. PICK f \in Nat : q = e + 1 + f
    <3>1. q - e - 1 \in Nat /\ q = e + 1 + (q - e - 1)
      BY <1>7, <2>1
    <3>. QED  BY <3>1
  <2>3. t * q = t * e + t + t * f /\ t * f \in Nat
    <3>1. t * q = t * (e + 1 + f)
      BY <2>2
    <3>2. t * (e + 1 + f) = t * e + t + t * f /\ t * f \in Nat
      BY <1>7
    <3>. QED  BY <3>1, <3>2
  <2>. QED  BY <1>4, <1>5, <1>7, <2>3
<1>10. e = q
  BY <1>7, <1>8, <1>9
<1>11. m = j - 1
  BY <1>4, <1>5, <1>7, <1>10
<1>12. e + 1 = p /\ m + 1 = j
  BY <1>1, <1>10, <1>11
<1>. QED  BY <1>6, <1>12 DEF e, m, IsIndex

(* Each value of the row at the L numbers in order, t times.               *)
IsRepeated(repeated, row, L, order, t) ==
  /\ repeated \in Seq(Values) /\ Len(repeated) = L * t
  /\ \A n \in 1 .. L * t : repeated[n] = row[order[((n - 1) \div t) + 1]]

(* The values of a row that is repeated, value by value or as a whole.     *)
LEMMA RepeatedValues ==
  ASSUME NEW row \in Seq(Values), NEW L \in Nat, NEW order \in [1 .. L -> 1 .. Len(row)],
         NEW t \in Nat \ {0}
  PROVE  IsRepeated(Repeated(row, order, t), row, L, order, t)
<1>. DEFINE repeated == Repeated(row, order, t)
<1>1. Len(order) = L
  <2>1. order \in Seq(1 .. Len(row))
    BY IsASeq
  <2>. QED  BY <2>1, LenProperties
<1>2. PICK m \in Nat : m = L * t
  OBVIOUS
<1>3. ASSUME NEW n \in 1 .. m
      PROVE  row[order[((n - 1) \div t) + 1]] \in Values
  <2>1. PICK k \in 1 .. L : k = ((n - 1) \div t) + 1
    BY <1>2, QuotientBound
  <2>2. row[order[k]] \in Values
    BY ElementOfSeq
  <2>. QED  BY <2>1, <2>2
<1>4. /\ repeated \in [1 .. m -> Values]
      /\ \A n \in 1 .. m : repeated[n] = row[order[((n - 1) \div t) + 1]]
  BY <1>1, <1>2, <1>3 DEF Repeated
<1>. HIDE DEF repeated
<1>5. repeated \in Seq(Values) /\ Len(repeated) = m
  <2>1. repeated \in Seq(Values)
    BY <1>4, IsASeq
  <2>. QED  BY <1>4, <2>1, LenProperties
<1>. QED  BY <1>2, <1>4, <1>5 DEF repeated, IsRepeated

LEMMA CopiesValues ==
  ASSUME NEW row \in Seq(Values), NEW K \in Nat \ {0}, Len(row) = K, NEW amount \in Nat
  PROVE  LET copies == Copies(row, amount)
         IN  /\ copies \in Seq(Values) /\ Len(copies) = amount * K
             /\ \A n \in 1 .. amount * K : copies[n] = row[((n - 1) % K) + 1]
<1>. DEFINE copies == Copies(row, amount)
<1>1. PICK m \in Nat : m = amount * K
  OBVIOUS
<1>2. copies = [n \in 1 .. m |-> row[((n - 1) % K) + 1]]
  BY <1>1 DEF Copies
<1>3. copies \in Seq(Values)
  BY CopiesType
<1>. HIDE DEF copies
<1>4. Len(copies) = m
  BY <1>2, <1>3, LenProperties
<1>. QED  BY <1>1, <1>2, <1>3, <1>4 DEF copies

(* The columns that are combined: each of first with each of second for    *)
(* the keys that first does not have; then those of second that are in T.  *)
IsCombined(combined, first, second, N, M, T) ==
  \E a \in Nat, b \in Nat :
    /\ HasColumns(combined, a + b) /\ DOMAIN combined = DOMAIN first \cup DOMAIN second
    /\ \A n \in 1 .. a : \E i \in 1 .. N :
         \A key \in DOMAIN first : combined[key][n] = first[key][i]
    /\ \A n \in 1 .. b : \E j \in T :
         \A key \in DOMAIN second : combined[key][a + n] = second[key][j]
    /\ \A i \in 1 .. N, j \in 1 .. M : \E n \in 1 .. a :
         /\ \A key \in DOMAIN first : combined[key][n] = first[key][i]
         /\ \A key \in DOMAIN second \ DOMAIN first : combined[key][n] = second[key][j]
    /\ \A j \in T : \E n \in 1 .. b :
         \A key \in DOMAIN second : combined[key][a + n] = second[key][j]

(* A column is repeated as often as the other matrix has columns, unless   *)
(* both matrices have the same keys: no row is longer than another one.    *)
LEMMA CombineColumns ==
  ASSUME NEW N \in Nat \ {0}, NEW M \in Nat \ {0},
         NEW first, HasColumns(first, N), DOMAIN first # {},
         NEW second, HasColumns(second, M), DOMAIN second # {},
         NEW walk, IsWalk(walk), NEW t \in Nat \ {0}, NEW u \in Nat \ {0},
         DOMAIN first = DOMAIN second \/ (t = M /\ u = N),
         NEW combined, combined = CombineRepeating(first, second, walk, t, u),
         NEW T, T = (1 .. M) \ Skipped(first, second, walk)
  PROVE  IsCombined(combined, first, second, N, M, T)
<1>. DEFINE common == CommonKeys(first, second)
            hashS == HashesOf(first, common, walk)
            hashT == HashesOf(second, common, walk)
            ofFirst == InOrder(1 .. N, BucketOrder(hashS, walk))
            ofSecond == InOrder(T, BucketOrder(hashT, walk))
            L == Cardinality(T)
            fill(key, r, columns, times, other) ==
              IF key \in DOMAIN r THEN Repeated(r[key], columns, times)
              ELSE Copies(other[key], Len(columns))
            left(key) == fill(key, first, ofFirst, t, second)
            right(key) == fill(key, second, ofSecond, u, first)
            keys == DOMAIN first \cup DOMAIN second
<1>1. /\ ColumnsAmount(first, walk) = N /\ ColumnNumbers(first, walk) = 1 .. N
      /\ ColumnsAmount(second, walk) = M /\ ColumnNumbers(second, walk) = 1 .. M
  BY AmountOfColumns DEF ColumnNumbers
<1>2. DOMAIN hashS = 1 .. N /\ DOMAIN hashT = 1 .. M
  BY <1>1 DEF HashesOf
<1>3. combined = [key \in keys |-> left(key) \o right(key)]
  BY <1>1 DEF CombineRepeating, ColumnsByHash
<1>4. T \in SUBSET (1 .. M)
  OBVIOUS
<1>. HIDE DEF hashS, hashT
<1>5. IsOrder(BucketOrder(hashS, walk), 1 .. N) /\ IsOrder(BucketOrder(hashT, walk), T)
  <2>1. (1 .. N) \in SUBSET (1 .. N)
    OBVIOUS
  <2>. QED  BY <1>2, <1>4, <2>1, BucketOrderIsOrder
<1>6. IsFiniteSet(1 .. N) /\ Cardinality(1 .. N) = N /\ IsFiniteSet(T)
  <2>1. IsFiniteSet(1 .. N) /\ IsFiniteSet(1 .. M) /\ Cardinality(1 .. N) = N
    BY FS_Interval
  <2>. QED  BY <1>4, <2>1, FS_Subset
<1>7. /\ ofFirst \in [1 .. N -> 1 .. N]
      /\ \A i \in 1 .. N : \E n \in 1 .. N : ofFirst[n] = i
  <2>1. PICK S : S = 1 .. N
    OBVIOUS
  <2>2. IsFiniteSet(S) /\ Cardinality(S) = N /\ IsOrder(BucketOrder(hashS, walk), S)
    BY <1>5, <1>6, <2>1
  <2>3. /\ InOrder(S, BucketOrder(hashS, walk)) \in [1 .. Cardinality(S) -> S]
        /\ \A i \in S : \E n \in 1 .. Cardinality(S) :
             InOrder(S, BucketOrder(hashS, walk))[n] = i
    BY <2>2, InOrderProperties
  <2>. QED  BY <2>1, <2>2, <2>3
<1>8. /\ L \in Nat /\ ofSecond \in [1 .. L -> T]
      /\ \A j \in T : \E n \in 1 .. L : ofSecond[n] = j
  <2>1. PICK S : S = T
    OBVIOUS
  <2>2. IsFiniteSet(S) /\ IsOrder(BucketOrder(hashT, walk), S)
    BY <1>5, <1>6, <2>1
  <2>3. /\ Cardinality(S) \in Nat
        /\ InOrder(S, BucketOrder(hashT, walk)) \in [1 .. Cardinality(S) -> S]
        /\ \A j \in S : \E n \in 1 .. Cardinality(S) :
             InOrder(S, BucketOrder(hashT, walk))[n] = j
    BY <2>2, InOrderProperties
  <2>4. ofSecond = InOrder(S, BucketOrder(hashT, walk)) /\ L = Cardinality(S)
    BY <2>1
  <2>. HIDE DEF ofSecond, L
  <2>. QED  BY <2>1, <2>3, <2>4
<1>. HIDE DEF ofFirst, ofSecond, L
<1>9. Len(ofFirst) = N /\ Len(ofSecond) = L
  <2>1. PICK S : ofFirst \in Seq(S)
    <3>1. \A S : ofFirst \in [1 .. N -> S] => ofFirst \in Seq(S)
      BY IsASeq
    <3>. QED  BY <1>7, <3>1
  <2>2. ofSecond \in Seq(T)
    BY <1>8, IsASeq
  <2>. QED  BY <1>7, <1>8, <2>1, <2>2, LenProperties
<1>10. PICK a \in Nat : a = N * t
  OBVIOUS
<1>11. PICK b \in Nat : b = L * u
  BY <1>8
<1>12. /\ \A key \in DOMAIN first : first[key] \in Seq(Values) /\ Len(first[key]) = N
       /\ \A key \in DOMAIN second : second[key] \in Seq(Values) /\ Len(second[key]) = M
  BY DEF HasColumns, IsReplacements
<1>13. ASSUME NEW key \in DOMAIN first
       PROVE  /\ left(key) \in Seq(Values) /\ Len(left(key)) = a
              /\ \A n \in 1 .. a : left(key)[n] = first[key][ofFirst[((n - 1) \div t) + 1]]
  <2>1. ofFirst \in [1 .. N -> 1 .. Len(first[key])]
    BY <1>7, <1>12
  <2>2. IsRepeated(Repeated(first[key], ofFirst, t), first[key], N, ofFirst, t)
    BY <1>12, <2>1, RepeatedValues
  <2>. QED  BY <1>10, <2>2 DEF IsRepeated
<1>14. ASSUME NEW key \in DOMAIN second, key \notin DOMAIN first
       PROVE  /\ t = M
              /\ left(key) \in Seq(Values) /\ Len(left(key)) = a
              /\ \A n \in 1 .. a : left(key)[n] = second[key][((n - 1) % t) + 1]
  <2>1. t = M
    BY <1>14
  <2>2. /\ Copies(second[key], N) \in Seq(Values)
        /\ Len(Copies(second[key], N)) = N * M
        /\ \A n \in 1 .. N * M : Copies(second[key], N)[n] = second[key][((n - 1) % M) + 1]
    BY <1>12, CopiesValues
  <2>3. left(key) = Copies(second[key], N)
    BY <1>9, <1>14
  <2>. HIDE DEF left
  <2>. QED  BY <1>10, <2>1, <2>2, <2>3
<1>15. ASSUME NEW key \in DOMAIN second
       PROVE  /\ right(key) \in Seq(Values) /\ Len(right(key)) = b
              /\ \A n \in 1 .. b : right(key)[n] = second[key][ofSecond[((n - 1) \div u) + 1]]
  <2>1. ofSecond \in [1 .. L -> 1 .. Len(second[key])]
    BY <1>4, <1>8, <1>12
  <2>2. IsRepeated(Repeated(second[key], ofSecond, u), second[key], L, ofSecond, u)
    BY <1>8, <1>12, <2>1, RepeatedValues
  <2>. QED  BY <1>11, <2>2 DEF IsRepeated
<1>16. ASSUME NEW key \in DOMAIN first, key \notin DOMAIN second
       PROVE  right(key) \in Seq(Values) /\ Len(right(key)) = b
  <2>1. u = N
    BY <1>16
  <2>2. /\ Copies(first[key], L) \in Seq(Values)
        /\ Len(Copies(first[key], L)) = L * N
    BY <1>8, <1>12, CopiesValues
  <2>3. right(key) = Copies(first[key], L)
    BY <1>9, <1>16
  <2>. HIDE DEF right
  <2>. QED  BY <1>11, <2>1, <2>2, <2>3
<1>. HIDE DEF left, right
<1>17. ASSUME NEW key \in keys
       PROVE  /\ combined[key] \in Seq(Values) /\ Len(combined[key]) = a + b
              /\ \A n \in 1 .. a : combined[key][n] = left(key)[n]
              /\ \A n \in 1 .. b : combined[key][a + n] = right(key)[n]
  <2>1. /\ left(key) \in Seq(Values) /\ Len(left(key)) = a
        /\ right(key) \in Seq(Values) /\ Len(right(key)) = b
    BY <1>13, <1>14, <1>15, <1>16
  <2>2. combined[key] = left(key) \o right(key)
    BY <1>3
  <2>3. /\ left(key) \o right(key) \in Seq(Values)
        /\ Len(left(key) \o right(key)) = Len(left(key)) + Len(right(key))
        /\ \A n \in 1 .. Len(left(key)) + Len(right(key)) :
             (left(key) \o right(key))[n] =
               IF n <= Len(left(key)) THEN left(key)[n] ELSE right(key)[n - Len(left(key))]
    BY <2>1, ConcatProperties
  <2>4. \A n \in 1 .. a : n \in 1 .. a + b /\ n <= a
    OBVIOUS
  <2>5. \A n \in 1 .. b : a + n \in 1 .. a + b /\ ~(a + n <= a) /\ (a + n) - a = n
    OBVIOUS
  <2>. QED  BY <2>1, <2>2, <2>3, <2>4, <2>5
<1>18. HasColumns(combined, a + b) /\ DOMAIN combined = keys
  <2>1. DOMAIN combined = keys /\ combined = [key \in keys |-> combined[key]]
    BY <1>3
  <2>2. keys \subseteq Variables
    BY DEF HasColumns, IsReplacements
  <2>3. a + b \in Nat
    OBVIOUS
  <2>4. \A key \in keys : combined[key] \in Seq(Values) /\ Len(combined[key]) = a + b
    BY <1>17
  <2>. HIDE DEF keys
  <2>. QED  BY <2>1, <2>2, <2>3, <2>4 DEF HasColumns, IsReplacements
<1>19. ASSUME NEW n \in 1 .. a
       PROVE  \E i \in 1 .. N : \A key \in DOMAIN first : combined[key][n] = first[key][i]
  <2>1. PICK k \in 1 .. N : k = ((n - 1) \div t) + 1
    BY <1>10, QuotientBound
  <2>2. \A key \in DOMAIN first : combined[key][n] = first[key][ofFirst[k]]
    BY <1>13, <1>17, <2>1
  <2>. QED  BY <1>7, <2>2
<1>20. ASSUME NEW n \in 1 .. b
       PROVE  \E j \in T : \A key \in DOMAIN second : combined[key][a + n] = second[key][j]
  <2>1. PICK k \in 1 .. L : k = ((n - 1) \div u) + 1
    BY <1>8, <1>11, QuotientBound
  <2>2. \A key \in DOMAIN second : combined[key][a + n] = right(key)[n]
    BY <1>17
  <2>3. \A key \in DOMAIN second : right(key)[n] = second[key][ofSecond[k]]
    BY <1>15, <2>1
  <2>. QED  BY <1>8, <2>2, <2>3
<1>21. ASSUME NEW i \in 1 .. N, NEW j \in 1 .. M
       PROVE  \E n \in 1 .. a :
                /\ \A key \in DOMAIN first : combined[key][n] = first[key][i]
                /\ \A key \in DOMAIN second \ DOMAIN first : combined[key][n] = second[key][j]
  <2>1. PICK p \in 1 .. N : ofFirst[p] = i
    BY <1>7
  <2>2. PICK k \in 1 .. t : t = M => k = j
    <3>1. 1 \in 1 .. t
      OBVIOUS
    <3>. QED  BY <3>1
  <2>3. PICK n \in 1 .. N * t : IsIndex(n, t, p, k)
    BY PairIndex
  <2>4. n \in 1 .. a
    BY <1>10
  <2>5. \A key \in DOMAIN first : combined[key][n] = first[key][i]
    <3>1. \A key \in DOMAIN first : left(key)[n] = first[key][ofFirst[p]]
      BY <1>13, <2>3, <2>4 DEF IsIndex
    <3>. QED  BY <1>17, <2>1, <2>4, <3>1
  <2>6. \A key \in DOMAIN second \ DOMAIN first : combined[key][n] = second[key][j]
    <3>1. \A key \in DOMAIN second \ DOMAIN first : left(key)[n] = second[key][j]
      BY <1>14, <2>2, <2>3, <2>4 DEF IsIndex
    <3>. QED  BY <1>17, <2>4, <3>1
  <2>. QED  BY <2>4, <2>5, <2>6
<1>22. ASSUME NEW j \in T
       PROVE  \E n \in 1 .. b : \A key \in DOMAIN second : combined[key][a + n] = second[key][j]
  <2>1. PICK p \in 1 .. L : ofSecond[p] = j
    BY <1>8
  <2>2. PICK k \in 1 .. u : k = 1
    OBVIOUS
  <2>3. PICK n \in 1 .. L * u : IsIndex(n, u, p, k)
    BY <1>8, PairIndex
  <2>4. n \in 1 .. b
    BY <1>11
  <2>5. \A key \in DOMAIN second : combined[key][a + n] = second[key][j]
    <3>1. \A key \in DOMAIN second : right(key)[n] = second[key][ofSecond[p]]
      BY <1>15, <2>3, <2>4 DEF IsIndex
    <3>. QED  BY <1>17, <2>1, <2>4, <3>1
  <2>. QED  BY <2>4, <2>5
<1>. QED  BY <1>18, <1>19, <1>20, <1>21, <1>22 DEF IsCombined

(* Neither matrix has all variables of the other one, and more.            *)
AreUnnested(first, second) ==
  \/ DOMAIN first = {}
  \/ DOMAIN second = {}
  \/ DOMAIN first = DOMAIN second
  \/ ~(DOMAIN first \subseteq DOMAIN second) /\ ~(DOMAIN second \subseteq DOMAIN first)

(* The hash and the first common variable tell the columns apart.          *)
HashTells(first, second, walk) ==
  LET common == CommonKeys(first, second)
      key == KeySeq(walk, common)[1]
  IN  \A i \in ColumnNumbers(first, walk), j \in ColumnNumbers(second, walk) :
        /\ Hash(first, common, i, walk) = Hash(second, common, j, walk)
        /\ common # {} => first[key][i] = second[key][j]
        => Agree(first, i, second, j)

(* The column c is part of a column of r.                                  *)
IsPart(c, r) == \E d \in Columns(r) : DOMAIN c \subseteq DOMAIN d /\ Restrict(d, DOMAIN c) = c

(* The columns of united are columns of first or of second, with values    *)
(* for the other keys; all of first are there, and of second those the     *)
(* hashes do not confuse.                                                  *)
IsUnion(united, first, second, walk) ==
  /\ IsReplacements(united) /\ IsMatrix(united)
  /\ DOMAIN united = (IF Columns(first) = {} THEN {} ELSE DOMAIN first) \cup
                     (IF Columns(second) = {} THEN {} ELSE DOMAIN second)
  /\ \A c \in Columns(united) : \/ Restrict(c, DOMAIN first) \in Columns(first)
                                \/ Restrict(c, DOMAIN second) \in Columns(second)
  /\ \A c \in Columns(first) : IsPart(c, united)
  /\ HashTells(first, second, walk) => \A c \in Columns(second) : IsPart(c, united)

(* A copy of one matrix is its union with one without columns.             *)
LEMMA UnionWithNone ==
  ASSUME NEW r, IsReplacements(r), IsMatrix(r)
  PROVE  LET copy == CopyReplacements(r)
         IN  /\ IsReplacements(copy) /\ IsMatrix(copy)
             /\ DOMAIN copy = IF Columns(r) = {} THEN {} ELSE DOMAIN r
             /\ \A c \in Columns(copy) : Restrict(c, DOMAIN r) \in Columns(r)
             /\ \A c \in Columns(r) : IsPart(c, copy)
<1>. DEFINE copy == CopyReplacements(r)
<1>1. /\ IsReplacements(copy) /\ IsMatrix(copy) /\ Columns(copy) = Columns(r)
      /\ Columns(r) # {} => copy = r
      /\ Columns(r) = {} => DOMAIN copy = {}
  <2>1. /\ IsReplacements(copy)
        /\ IsMatrix(r) => IsMatrix(copy) /\ Columns(copy) = Columns(r)
        /\ IsMatrix(r) /\ Columns(r) # {} => copy = r
        /\ IsMatrix(r) /\ Columns(r) = {} => DOMAIN copy = {}
    BY CopyKeeps
  <2>. QED  BY <2>1
<1>. HIDE DEF copy
<1>2. ASSUME NEW c \in Columns(r)
      PROVE  DOMAIN c = DOMAIN r /\ Restrict(c, DOMAIN r) = c
  <2>1. PICK i : c = Column(r, i)
    BY DEF Columns
  <2>. QED  BY <2>1 DEF Column, Restrict
<1>. QED  BY <1>1, <1>2 DEF IsPart, copy

(* ReplacementsUtils::uniteReplacements returns the union of two matrices  *)
(* neither of which is nested in the other: all rows have the same length, *)
(* no column mixes a column of the one with a column of the other in the   *)
(* variables of both, and no replacement is lost, except those of the      *)
(* second matrix whose hash and first value are those of another one.      *)
THEOREM UniteReplacementsIsUnion ==
  ASSUME NEW first, IsReplacements(first), IsMatrix(first),
         NEW second, IsReplacements(second), IsMatrix(second),
         AreUnnested(first, second), NEW walk, IsWalk(walk)
  PROVE  IsUnion(UniteReplacements(first, second, walk), first, second, walk)
<1>. DEFINE N == ColumnsAmount(first, walk)
            M == ColumnsAmount(second, walk)
            united == UniteReplacements(first, second, walk)
<1>1. /\ N \in Nat /\ HasColumns(first, N) /\ (N = 0 <=> Columns(first) = {})
      /\ M \in Nat /\ HasColumns(second, M) /\ (M = 0 <=> Columns(second) = {})
      /\ ColumnNumbers(first, walk) = 1 .. N /\ ColumnNumbers(second, walk) = 1 .. M
  BY AmountIsZero, AmountOfMatrix DEF ColumnNumbers
<1>2. CASE N = 0
  <2>1. united = CopyReplacements(second)
    BY <1>2 DEF UniteReplacements
  <2>. HIDE DEF N, M
  <2>2. /\ IsReplacements(united) /\ IsMatrix(united)
        /\ DOMAIN united = IF Columns(second) = {} THEN {} ELSE DOMAIN second
        /\ \A c \in Columns(united) : Restrict(c, DOMAIN second) \in Columns(second)
        /\ \A c \in Columns(second) : IsPart(c, united)
    BY <2>1, UnionWithNone
  <2>. HIDE DEF united
  <2>. QED  BY <1>1, <1>2, <2>2 DEF IsUnion, united
<1>3. CASE N # 0 /\ M = 0
  <2>1. united = CopyReplacements(first)
    BY <1>3 DEF UniteReplacements
  <2>. HIDE DEF N, M
  <2>2. /\ IsReplacements(united) /\ IsMatrix(united)
        /\ DOMAIN united = IF Columns(first) = {} THEN {} ELSE DOMAIN first
        /\ \A c \in Columns(united) : Restrict(c, DOMAIN first) \in Columns(first)
        /\ \A c \in Columns(first) : IsPart(c, united)
    BY <2>1, UnionWithNone
  <2>. HIDE DEF united
  <2>. QED  BY <1>1, <1>3, <2>2 DEF IsUnion, united
<1>4. CASE N # 0 /\ M # 0
  <2>. DEFINE combined == Combine(first, second, walk)
              T == (1 .. M) \ Skipped(first, second, walk)
  <2>1. united = RemoveDuplicateColumns(combined, walk)
    BY <1>4 DEF UniteReplacements
  <2>2. DOMAIN first # {} /\ DOMAIN second # {}
    BY <1>4, AmountType
  <2>3. PICK t \in Nat \ {0}, u \in Nat \ {0} :
          /\ combined = CombineRepeating(first, second, walk, t, u)
          /\ DOMAIN first = DOMAIN second \/ (t = M /\ u = N)
    <3>. DEFINE times(r, other) == IF DOMAIN r = CommonKeys(first, second)
                                     THEN 1 ELSE ColumnsAmount(other, walk)
    <3>1. times(first, second) \in Nat \ {0} /\ times(second, first) \in Nat \ {0}
      BY <1>1, <1>4
    <3>2. combined = CombineRepeating(first, second, walk, times(first, second), times(second, first))
      BY DEF Combine
    <3>3. DOMAIN first = DOMAIN second \/ (times(first, second) = M /\ times(second, first) = N)
      BY <2>2 DEF AreUnnested, CommonKeys
    <3>. HIDE DEF times, N, M, combined
    <3>. QED  BY <3>1, <3>2, <3>3
  <2>. HIDE DEF N, M, combined
  <2>4. /\ IsCombined(combined, first, second, N, M, T)
        /\ DOMAIN combined = DOMAIN first \cup DOMAIN second
    <3>1. N \in Nat \ {0} /\ M \in Nat \ {0}
      BY <1>1, <1>4
    <3>2. DOMAIN first = DOMAIN second \/ (t = M /\ u = N)
      BY <2>3
    <3>3. combined = CombineRepeating(first, second, walk, t, u)
      BY <2>3
    <3>4. T = (1 .. M) \ Skipped(first, second, walk)
      OBVIOUS
    <3>. HIDE DEF T
    <3>5. IsCombined(combined, first, second, N, M, T)
      BY <1>1, <2>2, <3>1, <3>2, <3>3, <3>4, CombineColumns
    <3>. QED  BY <3>5 DEF IsCombined
  <2>. HIDE DEF T
  <2>5. PICK a \in Nat, b \in Nat :
          /\ HasColumns(combined, a + b)
          /\ \A n \in 1 .. a : \E i \in 1 .. N :
               \A key \in DOMAIN first : combined[key][n] = first[key][i]
          /\ \A n \in 1 .. b : \E j \in T :
               \A key \in DOMAIN second : combined[key][a + n] = second[key][j]
          /\ \A i \in 1 .. N, j \in 1 .. M : \E n \in 1 .. a :
               /\ \A key \in DOMAIN first : combined[key][n] = first[key][i]
               /\ \A key \in DOMAIN second \ DOMAIN first : combined[key][n] = second[key][j]
          /\ \A j \in T : \E n \in 1 .. b :
               \A key \in DOMAIN second : combined[key][a + n] = second[key][j]
    BY <2>4 DEF IsCombined
  <2>6. PICK L \in Nat : L = a + b
    OBVIOUS
  <2>7. /\ IsReplacements(united) /\ IsMatrix(united)
        /\ DOMAIN united = DOMAIN first \cup DOMAIN second
        /\ Columns(united) = {Column(combined, n) : n \in 1 .. L}
    <3>1. IsReplacements(combined) /\ IsMatrix(combined) /\ DOMAIN combined # {}
      BY <2>2, <2>4, <2>5, ColumnsOfMatrix DEF HasColumns
    <3>2. Columns(combined) = {Column(combined, n) : n \in 1 .. L}
      BY <2>5, <2>6, <3>1, ColumnsOfMatrix
    <3>3. /\ IsReplacements(RemoveDuplicateColumns(combined, walk))
          /\ IsMatrix(RemoveDuplicateColumns(combined, walk))
          /\ DOMAIN RemoveDuplicateColumns(combined, walk) = DOMAIN combined
          /\ Columns(RemoveDuplicateColumns(combined, walk)) = Columns(combined)
      BY <3>1, RemoveDuplicateColumnsKeeps
    <3>. QED  BY <2>1, <2>4, <3>2, <3>3
  <2>. HIDE DEF united
  <2>8. /\ Columns(first) = {Column(first, i) : i \in 1 .. N}
        /\ Columns(second) = {Column(second, j) : j \in 1 .. M}
    BY <1>1, <2>2, ColumnsOfMatrix
  <2>9. ASSUME NEW r, DOMAIN r \subseteq DOMAIN combined, NEW n, NEW i,
               \A key \in DOMAIN r : combined[key][n] = r[key][i]
        PROVE  Restrict(Column(combined, n), DOMAIN r) = Column(r, i)
    <3>1. \A key \in DOMAIN r : Column(combined, n)[key] = combined[key][n]
      BY <2>9 DEF Column
    <3>. QED  BY <2>9, <3>1 DEF Restrict, Column
  <2>10. DOMAIN first \subseteq DOMAIN combined /\ DOMAIN second \subseteq DOMAIN combined
    BY <2>4
  <2>11. ASSUME NEW r, DOMAIN r \subseteq DOMAIN combined, NEW n \in 1 .. L, NEW i,
                \A key \in DOMAIN r : combined[key][n] = r[key][i]
         PROVE  IsPart(Column(r, i), united)
    <3>1. DOMAIN Column(r, i) = DOMAIN r /\ DOMAIN Column(combined, n) = DOMAIN combined
      BY DEF Column
    <3>2. Restrict(Column(combined, n), DOMAIN r) = Column(r, i)
      BY <2>9, <2>11
    <3>3. Column(combined, n) \in Columns(united)
      BY <2>7
    <3>. QED  BY <2>11, <3>1, <3>2, <3>3 DEF IsPart
  <2>12. ASSUME NEW c \in Columns(united)
         PROVE  \/ Restrict(c, DOMAIN first) \in Columns(first)
                \/ Restrict(c, DOMAIN second) \in Columns(second)
    <3>1. PICK n \in 1 .. L : c = Column(combined, n)
      BY <2>7
    <3>2. CASE n <= a
      <4>1. n \in 1 .. a
        BY <3>2
      <4>2. PICK i \in 1 .. N : \A key \in DOMAIN first : combined[key][n] = first[key][i]
        BY <2>5, <4>1
      <4>3. Restrict(c, DOMAIN first) = Column(first, i)
        BY <2>9, <2>10, <3>1, <4>2
      <4>. QED  BY <2>8, <4>3
    <3>3. CASE ~(n <= a)
      <4>1. PICK m \in 1 .. b : n = a + m
        <5>1. n - a \in 1 .. b /\ n = a + (n - a)
          BY <2>6, <3>3
        <5>. QED  BY <5>1
      <4>2. PICK j \in T : \A key \in DOMAIN second : combined[key][n] = second[key][j]
        BY <2>5, <4>1
      <4>3. Restrict(c, DOMAIN second) = Column(second, j)
        BY <2>9, <2>10, <3>1, <4>2
      <4>4. j \in 1 .. M
        BY DEF T
      <4>. QED  BY <2>8, <4>3, <4>4
    <3>. QED  BY <3>2, <3>3
  <2>13. \A n \in 1 .. a : n \in 1 .. L
    BY <2>6
  <2>14. ASSUME NEW c \in Columns(first)
         PROVE  IsPart(c, united)
    <3>1. PICK i \in 1 .. N : c = Column(first, i)
      BY <2>8
    <3>2. 1 \in 1 .. M
      BY <1>1, <1>4
    <3>3. PICK n \in 1 .. a : \A key \in DOMAIN first : combined[key][n] = first[key][i]
      BY <2>5, <3>2
    <3>. QED  BY <2>10, <2>11, <2>13, <3>1, <3>3
  <2>15. ASSUME HashTells(first, second, walk), NEW c \in Columns(second)
         PROVE  IsPart(c, united)
    <3>1. PICK j \in 1 .. M : c = Column(second, j)
      BY <2>8
    <3>2. CASE j \in T
      <4>1. PICK n \in 1 .. b : \A key \in DOMAIN second : combined[key][a + n] = second[key][j]
        BY <2>5, <3>2
      <4>2. a + n \in 1 .. L
        BY <2>6
      <4>. QED  BY <2>10, <2>11, <3>1, <4>1, <4>2
    <3>3. CASE j \notin T
      <4>. DEFINE common == CommonKeys(first, second)
                  first1 == KeySeq(walk, common)[1]
      <4>1. j \in Skipped(first, second, walk)
        BY <3>3 DEF T
      <4>2. PICK i \in 1 .. N :
              /\ Hash(first, common, i, walk) = Hash(second, common, j, walk)
              /\ common # {} => first[first1][i] = second[first1][j]
        BY <1>1, <4>1 DEF Skipped
      <4>3. Agree(first, i, second, j)
        BY <1>1, <2>15, <4>2 DEF HashTells
      <4>4. PICK n \in 1 .. a :
              /\ \A key \in DOMAIN first : combined[key][n] = first[key][i]
              /\ \A key \in DOMAIN second \ DOMAIN first : combined[key][n] = second[key][j]
        BY <2>5
      <4>5. \A key \in DOMAIN second : combined[key][n] = second[key][j]
        BY <4>3, <4>4 DEF Agree, CommonKeys
      <4>. QED  BY <2>10, <2>11, <2>13, <3>1, <4>5
    <3>. QED  BY <3>2, <3>3
  <2>. QED  BY <1>1, <1>4, <2>7, <2>12, <2>14, <2>15 DEF IsUnion, united
<1>. QED  BY <1>1, <1>2, <1>3, <1>4

(* The hash of a column depends on its values alone: that of a column of a *)
(* matrix is that of the column by itself.                                 *)
LEMMA HashOfColumn ==
  ASSUME NEW keys \in SUBSET Variables, NEW walk, IsWalk(walk), NEW r, NEW i,
         NEW row, row = [key \in keys |-> <<r[key][i]>>]
  PROVE  Hash(row, keys, 1, walk) = Hash(r, keys, i, walk)
<1>. DEFINE keySeq == KeySeq(walk, keys)
            terms(s, n) == [k \in DOMAIN keySeq |->
                              Offset[s[keySeq[k]][n]] * Primes[((k - 1) % 7) + 1]]
<1>1. IsFiniteSet(keys) /\ IsOrder(walk.keys, keys)
  BY VariablesAssumption, FS_Subset DEF IsWalk, IsOrder
<1>2. keySeq \in [1 .. Cardinality(keys) -> keys]
  BY <1>1, InOrderProperties DEF KeySeq
<1>3. /\ Hash(row, keys, 1, walk) =
           Total(terms(row, 1)) \div (IF keys = {} THEN 1 ELSE Cardinality(keys))
      /\ Hash(r, keys, i, walk) =
           Total(terms(r, i)) \div (IF keys = {} THEN 1 ELSE Cardinality(keys))
  BY DEF Hash
<1>. HIDE DEF keySeq
<1>4. \A k \in DOMAIN keySeq : row[keySeq[k]][1] = r[keySeq[k]][i]
  BY <1>2
<1>5. terms(row, 1) = terms(r, i)
  BY <1>4
<1>. HIDE DEF terms
<1>. QED  BY <1>3, <1>5
=============================================================================
