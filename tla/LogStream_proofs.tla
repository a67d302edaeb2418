---------------------------- MODULE LogStream_proofs ----------------------------
(***************************************************************************)
(* Proofs about LogStream: what a chunk, a batch and the order of a log    *)
(* stream are for every record, every limit and every clock, and that the  *)
(* handler implements LogChannel.                                          *)
(*                                                                         *)
(* What the recursive definitions of LogStream compute is proved by        *)
(* induction, as the least counterexample that a set of naturals would     *)
(* have.                                                                   *)
(***************************************************************************)
EXTENDS LogStream, SequenceTheorems, FiniteSetTheorems, TLAPS

(***************************************************************************)
(* Numbers.                                                                *)
(***************************************************************************)
LEMMA LeastElement ==
  ASSUME NEW T, T \subseteq Nat, T # {}
  PROVE  \E x \in T : \A y \in T : x <= y
<1> DEFINE R == OpToRel(<, Nat)
<1>1. IsWellFoundedOn(R, Nat)
  BY NatLessThanWellFounded
<1>2. \A x, y \in Nat : x < y => <<x, y>> \in R
  BY DEF OpToRel
<1> HIDE DEF R
<1>3. PICK x \in T : \A y \in T : ~ (<<y, x>> \in R)
  BY <1>1, WFMin
<1>4. \A y \in T : ~ (y < x)
  BY <1>2, <1>3
<1> QED BY <1>4

LEMMA Induction ==
  ASSUME NEW S, 0 \in S, \A n \in Nat : n \in S => n + 1 \in S
  PROVE  Nat \subseteq S
<1> SUFFICES ASSUME Nat \ S # {} PROVE FALSE
  OBVIOUS
<1>1. PICK x \in Nat \ S : \A y \in Nat \ S : x <= y
  BY LeastElement
<1>2. x - 1 \in Nat \ S
  BY <1>1
<1> QED BY <1>1, <1>2

LEMMA GreatestElement ==
  ASSUME NEW n \in Nat, NEW T, T \subseteq 0 .. n, T # {}
  PROVE  \E x \in T : \A y \in T : x >= y
<1> DEFINE U == {n - y : y \in T}
<1>1. U \subseteq Nat
  OBVIOUS
<1>5. U # {}
  OBVIOUS
<1>2. PICK u \in U : \A v \in U : u <= v
  <2> HIDE DEF U
  <2> QED BY <1>1, <1>5, LeastElement
<1>3. PICK x \in T : u = n - x
  BY <1>2
<1>4. \A y \in T : u <= n - y
  BY <1>2
<1> QED BY <1>3, <1>4

LEMMA MinIs ==
  ASSUME NEW T, T \subseteq Nat, T # {}
  PROVE  Min(T) \in T /\ \A y \in T : Min(T) <= y
  BY LeastElement DEF Min

LEMMA MaxIs ==
  ASSUME NEW n \in Nat, NEW T, T \subseteq 0 .. n, T # {}
  PROVE  Max(T) \in T /\ \A y \in T : y <= Max(T)
<1>1. \E x \in T : \A y \in T : x >= y
  BY GreatestElement
<1>2. Max(T) \in T /\ \A y \in T : Max(T) >= y
  BY <1>1 DEF Max
<1>3. \A y \in T : y \in Nat
  OBVIOUS
<1>4. \A y \in T : y <= Max(T)
  BY <1>2, <1>3
<1> QED BY <1>2, <1>4

\* A recursion over 0 .. n defines a function.
Recurs(f, n, V, a, h) ==
  f \in [0 .. n -> V] /\ f[0] = a /\ \A k \in 1 .. n : f[k] = h[k][f[k - 1]]

LEMMA Recursion ==
  ASSUME NEW n \in Nat, NEW V, NEW a \in V, NEW h \in [1 .. n -> [V -> V]]
  PROVE  \E f : Recurs(f, n, V, a, h)
<1> DEFINE Is(j, f) == f[0] = a /\ \A k \in 1 .. j : f[k] = h[k][f[k - 1]]
           S == {j \in Nat : j <= n => \E f \in [0 .. j -> V] : Is(j, f)}
<1>1. 0 \in S
  <2>1. [x \in 0 .. 0 |-> a] \in [0 .. 0 -> V] /\ Is(0, [x \in 0 .. 0 |-> a])
    OBVIOUS
  <2> QED BY <2>1
<1>2. ASSUME NEW j \in Nat, j \in S
      PROVE  j + 1 \in S
  <2>1. CASE j + 1 <= n
    <3>1. PICK f \in [0 .. j -> V] : Is(j, f)
      BY <1>2, <2>1
    <3> DEFINE g == [x \in 0 .. j + 1 |-> IF x = j + 1 THEN h[j + 1][f[j]] ELSE f[x]]
    <3>2. h[j + 1] \in [V -> V] /\ f[j] \in V
      BY <2>1, <3>1
    <3>3. h[j + 1][f[j]] \in V
      BY <3>2
    <3>4. g \in [0 .. j + 1 -> V]
      BY <3>1, <3>3
    <3>5. g[0] = a
      BY <3>1
    <3>6. ASSUME NEW k \in 1 .. j + 1
          PROVE  g[k] = h[k][g[k - 1]]
      <4>1. CASE k = j + 1
        <5>1. j \in 0 .. j + 1 /\ j # j + 1 /\ k - 1 = j
          BY <4>1
        <5>2. g[j] = f[j]
          BY <5>1
        <5>3. g[k] = h[k][f[j]]
          BY <4>1
        <5> QED BY <5>1, <5>2, <5>3
      <4>2. CASE k # j + 1
        <5>1. k \in 1 .. j /\ k - 1 \in 0 .. j /\ k - 1 # j + 1 /\ k - 1 \in 0 .. j + 1
          BY <4>2
        <5>2. g[k] = f[k] /\ g[k - 1] = f[k - 1]
          BY <5>1
        <5> QED BY <3>1, <5>1, <5>2
      <4> QED BY <4>1, <4>2
    <3> HIDE DEF g
    <3>7. Is(j + 1, g)
      BY <3>5, <3>6
    <3> HIDE DEF Is
    <3> QED BY <3>4, <3>7
  <2> QED BY <2>1
<1>3. n \in S
  <2> HIDE DEF S
  <2> QED BY <1>1, <1>2, Induction
<1> QED BY <1>3 DEF Recurs

\* Sums, as SizeOf and Offset compute them.
Adds(u, n, w) ==
  /\ u \in [0 .. n -> Nat]
  /\ u[0] = 0
  /\ \A k \in 1 .. n : u[k] = u[k - 1] + w[k]

LEMMA SumExists ==
  ASSUME NEW n \in Nat, NEW w \in [1 .. n -> Nat]
  PROVE  \E u : Adds(u, n, w)
<1> DEFINE h == [k \in 1 .. n |-> [v \in Nat |-> v + w[k]]]
<1>1. h \in [1 .. n -> [Nat -> Nat]]
  OBVIOUS
<1>2. \A k \in 1 .. n, v \in Nat : h[k][v] = v + w[k]
  OBVIOUS
<1> HIDE DEF h
<1>3. PICK u \in [0 .. n -> Nat] : u[0] = 0 /\ \A k \in 1 .. n : u[k] = h[k][u[k - 1]]
  <2> DEFINE V == Nat
  <2>1. 0 \in V /\ h \in [1 .. n -> [V -> V]]
    BY <1>1
  <2> HIDE DEF V
  <2>2. \E f : Recurs(f, n, V, 0, h)
    BY <2>1, Recursion
  <2> QED BY <2>2 DEF V, Recurs
<1>4. \A k \in 1 .. n : u[k] = u[k - 1] + w[k]
  <2>1. \A k \in 1 .. n : u[k - 1] \in Nat
    BY <1>3
  <2> QED BY <1>2, <1>3, <2>1
<1> QED BY <1>3, <1>4 DEF Adds

SameSum(u, n, v, m) == u[n] = v[m]

\* A sum counts: of which parts it is the sum, and in which order, is the same.
Tally(k, w) == {x \in (1 .. k) \X Nat : x[2] < w[x[1]]}

LEMMA SumCounts ==
  ASSUME NEW n \in Nat, NEW w \in [1 .. n -> Nat], NEW u, Adds(u, n, w)
  PROVE  IsFiniteSet(Tally(n, w)) /\ u[n] = Cardinality(Tally(n, w))
<1> DEFINE Counted(k) == IsFiniteSet(Tally(k, w)) /\ u[k] = Cardinality(Tally(k, w))
           S == {k \in Nat : k <= n => Counted(k)}
<1>4. /\ u \in [0 .. n -> Nat] /\ u[0] = 0
      /\ \A k \in 1 .. n : u[k] = u[k - 1] + w[k]
  BY DEF Adds
<1>1. 0 \in S
  <2>1. Tally(0, w) = {}
    BY DEF Tally
  <2>2. u[0] = 0
    BY <1>4
  <2> QED BY <2>1, <2>2, FS_EmptySet
<1>2. ASSUME NEW k \in Nat, k \in S
      PROVE  k + 1 \in S
  <2>1. CASE k + 1 <= n
    <3> DEFINE New == {k + 1} \X (0 .. w[k + 1] - 1)
    <3>1. IsFiniteSet(Tally(k, w)) /\ u[k] = Cardinality(Tally(k, w))
      BY <1>2, <2>1
    <3>2. w[k + 1] \in Nat /\ u[k + 1] = u[k] + w[k + 1] /\ u[k] \in Nat
      <4>1. k + 1 \in 1 .. n /\ (k + 1) - 1 = k /\ k \in 0 .. n
        BY <2>1
      <4> QED BY <1>4, <4>1
    <3>3. Tally(k + 1, w) = Tally(k, w) \union New
      <4>1. ASSUME NEW x \in (1 .. k + 1) \X Nat, x[2] < w[x[1]]
            PROVE  x \in Tally(k, w) \/ x \in New
        <5>1. x = <<x[1], x[2]>> /\ x[1] \in 1 .. k + 1 /\ x[2] \in Nat
          BY <4>1
        <5>2. CASE x[1] = k + 1
          <6>1. x[2] \in 0 .. w[k + 1] - 1
            BY <3>2, <4>1, <5>1, <5>2
          <6> QED BY <5>1, <5>2, <6>1
        <5>3. CASE x[1] # k + 1
          <6>1. x[1] \in 1 .. k
            BY <5>1, <5>3
          <6> QED BY <4>1, <5>1, <6>1 DEF Tally
        <5> QED BY <5>2, <5>3
      <4>2. ASSUME NEW x \in New PROVE x \in Tally(k + 1, w)
        <5>1. x = <<k + 1, x[2]>> /\ x[2] \in 0 .. w[k + 1] - 1
          OBVIOUS
        <5>2. k + 1 \in 1 .. k + 1 /\ x[2] \in Nat /\ x[2] < w[k + 1]
          BY <3>2, <5>1
        <5> QED BY <5>1, <5>2 DEF Tally
      <4>3. Tally(k, w) \subseteq Tally(k + 1, w)
        BY DEF Tally
      <4>4. Tally(k + 1, w) \subseteq Tally(k, w) \union New
        BY <4>1 DEF Tally
      <4> QED BY <4>2, <4>3, <4>4
    <3>4. Tally(k, w) \cap New = {}
      BY DEF Tally
    <3>5. IsFiniteSet(New) /\ Cardinality(New) = w[k + 1]
      <4>1. IsFiniteSet(0 .. w[k + 1] - 1) /\ Cardinality(0 .. w[k + 1] - 1) = w[k + 1]
        <5> DEFINE m == w[k + 1] - 1
        <5>1. 0 \in Int /\ m \in Int /\ m - 0 + 1 = w[k + 1] /\ (0 > m => w[k + 1] = 0)
          BY <3>2
        <5>2. IsFiniteSet(0 .. m) /\ Cardinality(0 .. m) = IF 0 > m THEN 0 ELSE m - 0 + 1
          BY <5>1, FS_Interval
        <5> QED BY <5>1, <5>2
      <4>2. IsFiniteSet({k + 1}) /\ Cardinality({k + 1}) = 1
        BY FS_Singleton
      <4> HIDE DEF New
      <4>3. /\ IsFiniteSet({k + 1} \X (0 .. w[k + 1] - 1))
            /\ Cardinality({k + 1} \X (0 .. w[k + 1] - 1)) = 1 * w[k + 1]
        <5> DEFINE I == 0 .. w[k + 1] - 1
                   K == {k + 1}
        <5>1. IsFiniteSet(I) /\ Cardinality(I) = w[k + 1]
          BY <4>1
        <5>2. IsFiniteSet(K) /\ Cardinality(K) = 1
          BY <4>2
        <5> HIDE DEF I, K
        <5>3. /\ IsFiniteSet(K \X I)
              /\ Cardinality(K \X I) = Cardinality(K) * Cardinality(I)
          BY <5>1, <5>2, FS_Product
        <5>4. Cardinality(K \X I) = 1 * w[k + 1]
          BY <5>1, <5>2, <5>3
        <5> QED BY <5>3, <5>4 DEF I, K
      <4> QED BY <3>2, <4>3 DEF New
    <3> HIDE DEF New
    <3>6. /\ IsFiniteSet(Tally(k, w) \union New)
          /\ Cardinality(Tally(k, w) \union New)
               = Cardinality(Tally(k, w)) + Cardinality(New)
                 - Cardinality(Tally(k, w) \cap New)
      BY <3>1, <3>5, FS_Union
    <3>7. Cardinality(Tally(k, w) \cap New) = 0
      BY <3>4, FS_EmptySet
    <3>8. Counted(k + 1)
      <4>1. Cardinality(Tally(k, w)) \in Nat
        BY <3>1, <3>2
      <4>2. Cardinality(Tally(k + 1, w)) = Cardinality(Tally(k, w)) + w[k + 1]
        <5>1. Cardinality(Tally(k + 1, w))
                = Cardinality(Tally(k, w)) + Cardinality(New)
                  - Cardinality(Tally(k, w) \cap New)
          BY <3>3, <3>6
        <5>2. Cardinality(Tally(k + 1, w)) = Cardinality(Tally(k, w)) + w[k + 1] - 0
          BY <3>5, <3>7, <5>1
        <5> QED BY <3>2, <4>1, <5>2
      <4>3. IsFiniteSet(Tally(k + 1, w))
        BY <3>3, <3>6
      <4> QED BY <3>1, <3>2, <4>2, <4>3
    <3> HIDE DEF Counted
    <3> QED BY <3>8
  <2> QED BY <2>1
<1>3. n \in S
  <2> HIDE DEF S
  <2> QED BY <1>1, <1>2, Induction
<1> QED BY <1>3

OneToOne(p, D) ==
  /\ \A i, j \in D : p[i] = p[j] => i = j
  /\ \A j \in D : \E i \in D : p[i] = j

LEMMA BijectionIs ==
  ASSUME NEW D, NEW p \in Bijection(D, D)
  PROVE  p \in [D -> D] /\ OneToOne(p, D)
<1>1. p \in [D -> D]
  BY DEF Bijection, Surjection
<1>2. \A i, j \in D : p[i] = p[j] => i = j
  BY <1>1 DEF Bijection, Injection, IsInjective
<1>3. \A j \in D : \E i \in D : p[i] = j
  BY DEF Bijection, Surjection
<1> QED BY <1>1, <1>2, <1>3 DEF OneToOne

LEMMA SumPermuted ==
  ASSUME NEW n \in Nat, NEW w \in [1 .. n -> Nat], NEW p \in Bijection(1 .. n, 1 .. n),
         NEW y \in [1 .. n -> Nat], \A k \in 1 .. n : y[k] = w[p[k]],
         NEW u, Adds(u, n, w), NEW v, Adds(v, n, y)
  PROVE  SameSum(u, n, v, n)
<1> DEFINE A == Tally(n, y)
           B == Tally(n, w)
           F == [x \in A |-> <<p[x[1]], x[2]>>]
<1>1. p \in [1 .. n -> 1 .. n] /\ OneToOne(p, 1 .. n)
  BY BijectionIs
<1>2. y \in [1 .. n -> Nat] /\ \A k \in 1 .. n : y[k] = w[p[k]]
  BY <1>1
<1>3. F \in [A -> B]
  BY <1>1, <1>2 DEF Tally
<1>4. \A x, z \in A : F[x] = F[z] => x = z
  <2>1. ASSUME NEW x \in A, NEW z \in A, F[x] = F[z]
        PROVE  x = z
    <3>1. p[x[1]] = p[z[1]] /\ x[2] = z[2]
      BY <2>1
    <3>2. x \in (1 .. n) \X Nat /\ z \in (1 .. n) \X Nat
      BY DEF Tally
    <3>3. x = <<x[1], x[2]>> /\ z = <<z[1], z[2]>> /\ x[1] \in 1 .. n /\ z[1] \in 1 .. n
      BY <3>2
    <3>4. x[1] = z[1]
      BY <1>1, <3>1, <3>3 DEF OneToOne
    <3> QED BY <3>1, <3>3, <3>4
  <2> QED BY <2>1
<1>5. \A z \in B : \E x \in A : F[x] = z
  <2>1. ASSUME NEW z \in B
        PROVE  \E x \in A : F[x] = z
    <3>1. z \in (1 .. n) \X Nat /\ z[2] < w[z[1]]
      BY DEF Tally
    <3>2. PICK i \in 1 .. n : p[i] = z[1]
      BY <1>1, <3>1 DEF OneToOne
    <3>3. <<i, z[2]>> \in A
      BY <1>2, <3>1, <3>2 DEF Tally
    <3>4. F[<<i, z[2]>>] = z
      BY <3>1, <3>2, <3>3
    <3> QED BY <3>3, <3>4
  <2> QED BY <2>1
<1> HIDE DEF F
<1>7. IsFiniteSet(A) /\ v[n] = Cardinality(A)
  BY SumCounts
<1>8. u[n] = Cardinality(B)
  BY SumCounts
<1> HIDE DEF A, B
<1>9. F \in Bijection(A, B)
  BY <1>3, <1>4, <1>5 DEF Bijection, Injection, Surjection, IsInjective
<1>10. Cardinality(A) = Cardinality(B)
  BY <1>7, <1>9, FS_Bijection DEF ExistsBijection
<1> QED BY <1>7, <1>8, <1>10 DEF SameSum

(***************************************************************************)
(* ByTime sorts, and is stable.                                            *)
(***************************************************************************)
Sorts(p, b, s) ==
  /\ p \in Bijection(DOMAIN b, DOMAIN b)
  /\ s = [i \in DOMAIN b |-> b[p[i]]]
  /\ \A i, j \in DOMAIN b : i < j =>
       \/ b[p[i]].ts < b[p[j]].ts
       \/ b[p[i]].ts = b[p[j]].ts /\ p[i] < p[j]

LEMMA ByTimeSorts ==
  ASSUME NEW n \in Nat, NEW b, DOMAIN b = 1 .. n, \A k \in 1 .. n : b[k].ts \in Nat
  PROVE  \E p : Sorts(p, b, ByTime(b))
<1> DEFINE D == 1 .. n
           Before(j, k) == b[j].ts < b[k].ts \/ (b[j].ts = b[k].ts /\ j <= k)
           B(k) == {j \in D : Before(j, k)}
           q == [k \in D |-> Place(b, k)]
           p == [i \in D |-> CHOOSE k \in D : Place(b, k) = i]
<1>1. IsFiniteSet(D) /\ Cardinality(D) = n
  BY FS_Interval
<1>2. ASSUME NEW k \in D
      PROVE  /\ Place(b, k) = Cardinality(B(k))
             /\ IsFiniteSet(B(k))
             /\ Place(b, k) \in D
  <2>1. Place(b, k) = Cardinality(B(k))
    BY DEF Place
  <2>2. IsFiniteSet(B(k)) /\ Cardinality(B(k)) <= n
    <3>1. B(k) \in SUBSET D
      OBVIOUS
    <3> HIDE DEF B
    <3> QED BY <1>1, <3>1, FS_Subset
  <2>3. Cardinality(B(k)) \in Nat /\ Cardinality(B(k)) # 0
    <3>1. k \in B(k)
      OBVIOUS
    <3>2. B(k) # {}
      BY <3>1
    <3> HIDE DEF B
    <3> QED BY <2>2, <3>2, FS_CardinalityType, FS_EmptySet
  <2>4. Cardinality(B(k)) \in D
    <3> HIDE DEF B
    <3> QED BY <2>2, <2>3
  <2> HIDE DEF B
  <2> QED BY <2>1, <2>2, <2>4
<1>3. ASSUME NEW k \in D, NEW l \in D, k # l, Before(k, l)
      PROVE  Place(b, k) < Place(b, l)
  <2>1. B(k) \in SUBSET B(l)
    <3>1. ASSUME NEW j \in D, Before(j, k) PROVE Before(j, l)
      BY <1>3, <3>1
    <3> QED BY <3>1
  <2>2. l \in B(l) /\ l \notin B(k)
    BY <1>3
  <2>3. B(k) # B(l)
    BY <2>2
  <2>4. /\ IsFiniteSet(B(l)) /\ Place(b, l) = Cardinality(B(l))
        /\ Place(b, k) = Cardinality(B(k)) /\ Place(b, k) \in D /\ Place(b, l) \in D
    BY <1>2
  <2> HIDE DEF B
  <2>5. Cardinality(B(k)) <= Cardinality(B(l)) /\ Cardinality(B(l)) # Cardinality(B(k))
    BY <2>1, <2>3, <2>4, FS_Subset
  <2> QED BY <2>4, <2>5
<1>4. \A k, l \in D : k # l => Before(k, l) \/ Before(l, k)
  OBVIOUS
<1>5. \A k, l \in D : Place(b, k) = Place(b, l) => k = l
  <2>1. \A k \in D : Place(b, k) \in D
    BY <1>2
  <2> HIDE DEF Before
  <2> QED BY <1>3, <1>4, <2>1
<1>6. q \in [D -> D]
  BY <1>2
<1>7. q \in Injection(D, D)
  BY <1>5, <1>6 DEF Injection, IsInjective
<1>8. \A i \in D : \E k \in D : Place(b, k) = i
  <2>1. q \in Surjection(D, D)
    BY <1>1, <1>7, FS_Injection
  <2>2. \A i \in D : \E k \in D : q[k] = i
    BY <2>1 DEF Surjection
  <2> QED BY <2>2
<1>9. \A i \in D : p[i] \in D /\ Place(b, p[i]) = i
  BY <1>8
<1>10. p \in [D -> D]
  BY <1>9
<1>11. \A k \in D : p[Place(b, k)] = k
  BY <1>2, <1>5, <1>9
<1>12. ByTime(b) = [i \in D |-> b[p[i]]]
  BY DEF ByTime
<1> HIDE DEF p, q, D
<1>13. \A i, j \in D : p[i] = p[j] => i = j
  BY <1>9
<1>14. \A k \in D : \E i \in D : p[i] = k
  BY <1>2, <1>11
<1>15. p \in Bijection(D, D)
  BY <1>10, <1>13, <1>14 DEF Bijection, Injection, Surjection, IsInjective
<1>16. ASSUME NEW i \in D, NEW j \in D, i < j
       PROVE  \/ b[p[i]].ts < b[p[j]].ts
              \/ b[p[i]].ts = b[p[j]].ts /\ p[i] < p[j]
  <2>1. p[i] # p[j] /\ p[i] \in D /\ p[j] \in D
    BY <1>9, <1>13, <1>16 DEF D
  <2>2. ~ Before(p[j], p[i])
    <3>1. Place(b, p[i]) = i /\ Place(b, p[j]) = j
      BY <1>9
    <3>2. i \in Nat /\ j \in Nat
      BY DEF D
    <3>3. ~ (Place(b, p[j]) < Place(b, p[i]))
      BY <1>16, <3>1, <3>2
    <3> HIDE DEF Before
    <3> QED BY <1>3, <2>1, <3>3
  <2>3. p[i] \in Nat /\ p[j] \in Nat /\ b[p[i]].ts \in Nat /\ b[p[j]].ts \in Nat
    BY <2>1 DEF D
  <2> QED BY <2>1, <2>2, <2>3
<1>17. DOMAIN b = D
  BY DEF D
<1>18. Sorts(p, b, ByTime(b))
  BY <1>12, <1>15, <1>16, <1>17 DEF Sorts
<1> QED BY <1>18

(***************************************************************************)
(* What SizeOf and Offset compute.                                         *)
(***************************************************************************)
LEMMA SumIs ==
  ASSUME NEW n \in Nat, NEW w \in [1 .. n -> Nat], NEW u,
         u = [k \in 0 .. n |-> IF k = 0 THEN 0 ELSE u[k - 1] + w[k]]
  PROVE  Adds(u, n, w)
<1> DEFINE S == {k \in Nat : k <= n => u[k] \in Nat}
<1>1. \A k \in 1 .. n : u[k] = u[k - 1] + w[k]
  OBVIOUS
<1>2. u[0] = 0
  OBVIOUS
<1>3. 0 \in S
  BY <1>2
<1>4. ASSUME NEW k \in Nat, k \in S PROVE k + 1 \in S
  <2>1. CASE k + 1 <= n
    <3>1. k + 1 \in 1 .. n /\ u[k] \in Nat /\ (k + 1) - 1 = k
      BY <1>4, <2>1
    <3>2. u[k + 1] = u[k] + w[k + 1] /\ w[k + 1] \in Nat
      BY <1>1, <3>1
    <3> QED BY <3>1, <3>2
  <2> QED BY <2>1
<1>5. Nat \subseteq S
  <2> HIDE DEF S
  <2> QED BY <1>3, <1>4, Induction
<1>6. ASSUME NEW k \in 0 .. n PROVE u[k] \in Nat
  <2>1. k \in Nat /\ k <= n
    OBVIOUS
  <2>2. k \in S
    BY <1>5, <2>1
  <2> QED BY <2>1, <2>2
<1>7. u \in [0 .. n -> Nat]
  BY <1>6
<1> QED BY <1>1, <1>2, <1>7 DEF Adds

LEMMA SumsAgree ==
  ASSUME NEW n \in Nat, NEW m \in Nat, n <= m, NEW w, NEW y,
         \A k \in 1 .. n : w[k] = y[k],
         NEW u, Adds(u, n, w), NEW v, Adds(v, m, y)
  PROVE  SameSum(u, n, v, n)
<1> DEFINE S == {k \in Nat : k <= n => u[k] = v[k]}
<1>1. \A k \in 1 .. n : u[k] = u[k - 1] + w[k]
  BY DEF Adds
<1>2. \A k \in 1 .. n : v[k] = v[k - 1] + y[k]
  BY DEF Adds
<1>3. 0 \in S
  BY DEF Adds
<1>4. ASSUME NEW k \in Nat, k \in S PROVE k + 1 \in S
  <2>1. CASE k + 1 <= n
    <3>1. k + 1 \in 1 .. n /\ u[k] = v[k] /\ (k + 1) - 1 = k
      BY <1>4, <2>1
    <3> QED BY <1>1, <1>2, <3>1
  <2> QED BY <2>1
<1>5. Nat \subseteq S
  <2> HIDE DEF S
  <2> QED BY <1>3, <1>4, Induction
<1> QED BY <1>5 DEF SameSum

Widths(b) == [k \in 1 .. Len(b) |-> b[k].size + Padding]

LEMMA SizeIs ==
  ASSUME NEW n \in Nat, NEW b, Len(b) = n, \A k \in 1 .. n : b[k].size \in Nat
  PROVE  /\ Widths(b) \in [1 .. n -> Nat]
         /\ \E u : Adds(u, n, Widths(b)) /\ SizeOf(b) = u[n]
<1> DEFINE F == CHOOSE u : u = [k \in 0 .. Len(b) |->
                                  IF k = 0 THEN 0 ELSE u[k - 1] + b[k].size + Padding]
<1>1. Padding \in Nat
  BY LogStreamAssumption
<1>2. Widths(b) \in [1 .. n -> Nat]
  BY <1>1 DEF Widths
<1>3. PICK u : Adds(u, n, Widths(b))
  <2> DEFINE w == Widths(b)
  <2>1. w \in [1 .. n -> Nat]
    BY <1>2
  <2> HIDE DEF w
  <2>2. \E u : Adds(u, n, w)
    BY <2>1, SumExists
  <2> QED BY <2>2 DEF w
<1>11. /\ u \in [0 .. n -> Nat] /\ u[0] = 0
       /\ \A k \in 1 .. n : u[k] = u[k - 1] + Widths(b)[k]
  BY <1>3 DEF Adds
<1>4. \A k \in 1 .. n : Widths(b)[k] = b[k].size + Padding
  BY DEF Widths
<1>12. \A k \in 1 .. n : u[k] = u[k - 1] + b[k].size + Padding
  <2>1. ASSUME NEW k \in 0 .. n, k # 0
        PROVE  u[k] = u[k - 1] + b[k].size + Padding
    <3>1. u[k] = u[k - 1] + Widths(b)[k]
      BY <1>11, <2>1
    <3>2. u[k - 1] \in Nat /\ b[k].size \in Nat
      BY <1>11, <2>1
    <3> QED BY <1>1, <1>4, <2>1, <3>1, <3>2
  <2> QED BY <2>1
<1>5. u = [k \in 0 .. Len(b) |-> IF k = 0 THEN 0 ELSE u[k - 1] + b[k].size + Padding]
  BY <1>11, <1>12
<1>6. F = [k \in 0 .. n |-> IF k = 0 THEN 0 ELSE F[k - 1] + b[k].size + Padding]
  BY <1>5
<1>7. SizeOf(b) = F[n]
  BY DEF SizeOf
<1> HIDE DEF F
<1>8. F[0] = 0 /\ \A k \in 1 .. n : F[k] = F[k - 1] + b[k].size + Padding
  BY <1>6
<1>9. \A k \in 0 .. n : F[k] = u[k]
  <2> DEFINE S == {k \in Nat : k <= n => F[k] = u[k]}
  <2>1. 0 \in S
    BY <1>8, <1>11
  <2>2. ASSUME NEW k \in Nat, k \in S PROVE k + 1 \in S
    <3>1. CASE k + 1 <= n
      <4>1. k + 1 \in 1 .. n /\ F[k] = u[k] /\ (k + 1) - 1 = k
        BY <2>2, <3>1
      <4>2. F[k + 1] = F[k] + b[k + 1].size + Padding
        BY <1>8, <4>1
      <4>3. u[k + 1] = u[k] + b[k + 1].size + Padding
        BY <1>12, <4>1
      <4> QED BY <4>1, <4>2, <4>3
    <3> QED BY <3>1
  <2>3. Nat \subseteq S
    <3> HIDE DEF S
    <3> QED BY <2>1, <2>2, Induction
  <2> QED BY <2>3
<1> QED BY <1>2, <1>3, <1>7, <1>9

LEMMA SizeOfNothing == SizeOf(<<>>) = 0
<1>1. \E u : Adds(u, 0, Widths(<<>>)) /\ SizeOf(<<>>) = u[0]
  <2> DEFINE b == <<>>
  <2>1. Len(b) = 0 /\ 0 \in Nat /\ \A k \in 1 .. 0 : b[k].size \in Nat
    OBVIOUS
  <2> HIDE DEF b
  <2>2. \E u : Adds(u, 0, Widths(b)) /\ SizeOf(b) = u[0]
    BY <2>1, SizeIs
  <2> QED BY <2>2 DEF b
<1> QED BY <1>1 DEF Adds

LEMMA SizeOfAppend ==
  ASSUME NEW T, NEW b \in Seq(T), NEW e \in T, \A x \in T : x.size \in Nat
  PROVE  SizeOf(b) \in Nat /\ SizeOf(Append(b, e)) = SizeOf(b) + e.size + Padding
<1> DEFINE n == Len(b)
           c == Append(b, e)
           w == Widths(b)
           y == Widths(c)
<1>0. n \in Nat /\ Padding \in Nat /\ e.size \in Nat
  BY LogStreamAssumption
<1>1. /\ Len(c) = n + 1 /\ n + 1 \in Nat
      /\ \A k \in 1 .. n + 1 : c[k].size \in Nat
      /\ \A k \in 1 .. n : b[k].size \in Nat /\ c[k] = b[k]
      /\ c[n + 1] = e
  OBVIOUS
<1>2. \A k \in 1 .. n : w[k] = y[k]
  BY <1>1 DEF Widths
<1>3. y[n + 1] = e.size + Padding
  BY <1>0, <1>1 DEF Widths
<1> HIDE DEF c
<1>4. PICK u : Adds(u, n, w) /\ SizeOf(b) = u[n]
  BY <1>0, <1>1, SizeIs
<1>5. PICK v : Adds(v, n + 1, y) /\ SizeOf(c) = v[n + 1]
  <2> DEFINE m == n + 1
  <2>1. m \in Nat /\ Len(c) = m /\ \A k \in 1 .. m : c[k].size \in Nat
    BY <1>1
  <2> HIDE DEF m
  <2>2. \E v : Adds(v, m, Widths(c)) /\ SizeOf(c) = v[m]
    BY <2>1, SizeIs
  <2> QED BY <2>2 DEF m
<1> HIDE DEF w, y
<1>6. u[n] = v[n]
  <2> DEFINE m == n + 1
  <2>1. m \in Nat /\ n <= m /\ Adds(v, m, y)
    BY <1>0, <1>5
  <2>2. n \in Nat /\ Adds(u, n, w)
    BY <1>0, <1>4
  <2> HIDE DEF m, n
  <2>3. SameSum(u, n, v, n)
    BY <1>2, <2>1, <2>2, SumsAgree
  <2> QED BY <2>3 DEF SameSum
<1>7. v[n + 1] = v[n] + y[n + 1] /\ v[n] \in Nat
  <2>1. v \in [0 .. n + 1 -> Nat] /\ \A k \in 1 .. n + 1 : v[k] = v[k - 1] + y[k]
    BY <1>5 DEF Adds
  <2>2. n + 1 \in 1 .. n + 1 /\ (n + 1) - 1 = n /\ n \in 0 .. n + 1
    BY <1>0
  <2> QED BY <2>1, <2>2
<1>8. SizeOf(Append(b, e)) = SizeOf(c)
  BY DEF c
<1> QED BY <1>0, <1>3, <1>4, <1>5, <1>6, <1>7, <1>8

LEMMA SizeOfSorted ==
  ASSUME NEW T, NEW b \in Seq(T), \A x \in T : x.size \in Nat /\ x.ts \in Nat
  PROVE  SizeOf(ByTime(b)) = SizeOf(b)
<1> DEFINE n == Len(b)
           s == ByTime(b)
           w == Widths(b)
           y == Widths(s)
<1>1. n \in Nat /\ DOMAIN b = 1 .. n /\ \A k \in 1 .. n : b[k].ts \in Nat /\ b[k].size \in Nat
  OBVIOUS
<1> HIDE DEF n, s
<1>2. PICK p : Sorts(p, b, s)
  BY <1>1, ByTimeSorts DEF s
<1>3. p \in Bijection(1 .. n, 1 .. n) /\ s = [i \in 1 .. n |-> b[p[i]]]
  BY <1>1, <1>2 DEF Sorts
<1>4. p \in [1 .. n -> 1 .. n]
  BY <1>3 DEF Bijection, Surjection
<1>5. Len(s) = n
  BY <1>1, <1>3
<1>6. \A k \in 1 .. n : s[k] = b[p[k]] /\ p[k] \in 1 .. n
  BY <1>3, <1>4
<1>7. \A k \in 1 .. n : s[k].size \in Nat
  BY <1>1, <1>6
<1>8. \A k \in 1 .. n : y[k] = w[p[k]]
  BY <1>1, <1>5, <1>6 DEF Widths, n
<1>9. w \in [1 .. n -> Nat] /\ \E u : Adds(u, n, w) /\ SizeOf(b) = u[n]
  BY <1>1, SizeIs DEF n
<1>10. \E v : Adds(v, n, y) /\ SizeOf(s) = v[n]
  BY <1>1, <1>5, <1>7, SizeIs
<1> HIDE DEF w, y
<1>11. PICK u : Adds(u, n, w) /\ SizeOf(b) = u[n]
  BY <1>9
<1>12. PICK v : Adds(v, n, y) /\ SizeOf(s) = v[n]
  BY <1>10
<1>13. y \in [1 .. n -> Nat]
  BY <1>5, <1>7, SizeIs DEF y
<1>15. u[n] = v[n]
  <2>1. SameSum(u, n, v, n)
    BY <1>1, <1>3, <1>8, <1>9, <1>11, <1>12, <1>13, SumPermuted
  <2> QED BY <2>1 DEF SameSum
<1> QED BY <1>11, <1>12, <1>15 DEF s

(***************************************************************************)
(* Where characters begin, and where chunks end.                           *)
(***************************************************************************)
LEMMA TextsAre ==
  ASSUME NEW m \in Texts
  PROVE  m \in Seq(1 .. 4) /\ Len(m) \in Nat \ {0}
<1>1. PICK x \in Messages \ {Malformed} : m = Padded(x)
  BY DEF Texts
<1>2. x \in Seq(1 .. 4)
  BY LogStreamAssumption
<1>3. CASE x = <<>>
  BY <1>1, <1>3 DEF Padded
<1>4. CASE x # <<>>
  BY <1>1, <1>2, <1>4 DEF Padded
<1> QED BY <1>3, <1>4

LEMMA OffsetSums ==
  ASSUME NEW m \in Texts, NEW k \in 0 .. Len(m)
  PROVE  \E u : Adds(u, k, m) /\ Offset(m, k) = u[k]
<1> DEFINE w == [j \in 1 .. k |-> m[j]]
           F == CHOOSE u : u = [j \in 0 .. k |-> IF j = 0 THEN 0 ELSE u[j - 1] + m[j]]
<1>1. m \in Seq(1 .. 4) /\ k \in Nat /\ k <= Len(m)
  BY TextsAre
<1>2. w \in [1 .. k -> Nat] /\ \A j \in 1 .. k : w[j] = m[j]
  BY <1>1
<1> HIDE DEF w
<1>3. PICK u : Adds(u, k, w)
  BY <1>1, <1>2, SumExists
<1>4. /\ u \in [0 .. k -> Nat] /\ u[0] = 0
      /\ \A j \in 1 .. k : u[j] = u[j - 1] + m[j]
  BY <1>2, <1>3 DEF Adds
<1>5. u = [j \in 0 .. k |-> IF j = 0 THEN 0 ELSE u[j - 1] + m[j]]
  BY <1>4
<1>6. F = [j \in 0 .. k |-> IF j = 0 THEN 0 ELSE F[j - 1] + m[j]]
  BY <1>5
<1>7. Offset(m, k) = F[k]
  BY DEF Offset
<1> HIDE DEF F
<1>8. F[0] = 0 /\ \A j \in 1 .. k : F[j] = F[j - 1] + m[j]
  BY <1>6
<1>9. F = [j \in 0 .. k |-> IF j = 0 THEN 0 ELSE F[j - 1] + w[j]]
  BY <1>2, <1>6
<1>10. Adds(F, k, w)
  BY <1>1, <1>2, <1>9, SumIs
<1>11. Adds(F, k, m)
  BY <1>8, <1>10 DEF Adds
<1> QED BY <1>7, <1>11

LEMMA OffsetSteps ==
  ASSUME NEW m \in Texts
  PROVE  /\ Offset(m, 0) = 0
         /\ \A k \in 0 .. Len(m) : Offset(m, k) \in Nat
         /\ \A k \in 1 .. Len(m) : Offset(m, k) = Offset(m, k - 1) + m[k]
<1>1. m \in Seq(1 .. 4) /\ Len(m) \in Nat \ {0}
  BY TextsAre
<1>2. Offset(m, 0) = 0
  <2>1. PICK u : Adds(u, 0, m) /\ Offset(m, 0) = u[0]
    <3> DEFINE k == 0
    <3>1. k \in 0 .. Len(m)
      BY <1>1
    <3> HIDE DEF k
    <3>2. \E u : Adds(u, k, m) /\ Offset(m, k) = u[k]
      BY <3>1, OffsetSums
    <3> QED BY <3>2 DEF k
  <2> QED BY <2>1 DEF Adds
<1>3. ASSUME NEW k \in 0 .. Len(m) PROVE Offset(m, k) \in Nat
  <2>1. PICK u : Adds(u, k, m) /\ Offset(m, k) = u[k]
    BY OffsetSums
  <2> QED BY <2>1 DEF Adds
<1>4. ASSUME NEW k \in 1 .. Len(m)
      PROVE  Offset(m, k) = Offset(m, k - 1) + m[k]
  <2> DEFINE l == k - 1
  <2>1. /\ k \in 0 .. Len(m) /\ l \in 0 .. Len(m)
        /\ l \in Nat /\ k \in Nat /\ l <= k
        /\ \A j \in 1 .. l : m[j] = m[j]
    BY <1>1
  <2> HIDE DEF l
  <2>2. PICK u : Adds(u, k, m) /\ Offset(m, k) = u[k]
    BY <2>1, OffsetSums
  <2>3. PICK v : Adds(v, l, m) /\ Offset(m, l) = v[l]
    BY <2>1, OffsetSums
  <2>4. SameSum(v, l, u, l)
    BY <2>1, <2>2, <2>3, SumsAgree
  <2>5. u[k] = u[l] + m[k]
    BY <2>2 DEF Adds, l
  <2>6. Offset(m, k) = Offset(m, l) + m[k]
    BY <2>2, <2>3, <2>4, <2>5 DEF SameSum
  <2> QED BY <2>6 DEF l
<1> QED BY <1>2, <1>3, <1>4

LEMMA OffsetsGrow ==
  ASSUME NEW m \in Texts, NEW k \in 0 .. Len(m), NEW l \in 0 .. Len(m), k < l
  PROVE  Offset(m, k) < Offset(m, l)
<1> DEFINE S == {j \in Nat : k + 1 + j <= Len(m) => Offset(m, k) < Offset(m, k + 1 + j)}
<1>1. Len(m) \in Nat /\ \A j \in 1 .. Len(m) : m[j] \in Nat /\ m[j] > 0
  BY TextsAre
<1>2. ASSUME NEW j \in 1 .. Len(m)
      PROVE  /\ Offset(m, j - 1) \in Nat /\ Offset(m, j) \in Nat
             /\ Offset(m, j - 1) < Offset(m, j)
  <2>1. /\ Offset(m, j) = Offset(m, j - 1) + m[j]
        /\ Offset(m, j - 1) \in Nat /\ Offset(m, j) \in Nat
    BY <1>1, OffsetSteps
  <2> QED BY <1>1, <2>1
<1>3. 0 \in S
  <2>1. CASE k + 1 <= Len(m)
    <3>1. k + 1 \in 1 .. Len(m) /\ (k + 1) - 1 = k /\ k + 1 + 0 = k + 1
      BY <2>1
    <3>2. Offset(m, k) < Offset(m, k + 1)
      BY <1>2, <3>1
    <3> QED BY <3>1, <3>2
  <2> QED BY <2>1
<1>4. ASSUME NEW j \in Nat, j \in S PROVE j + 1 \in S
  <2>1. CASE k + 1 + (j + 1) <= Len(m)
    <3> DEFINE i == k + 1 + (j + 1)
    <3>1. i \in 1 .. Len(m) /\ i - 1 = k + 1 + j /\ Offset(m, k) < Offset(m, k + 1 + j)
      BY <1>1, <1>4, <2>1
    <3>2. Offset(m, k) \in Nat
      BY OffsetSteps
    <3> HIDE DEF i
    <3>3. Offset(m, k) < Offset(m, i)
      BY <1>2, <3>1, <3>2
    <3> QED BY <3>3 DEF i
  <2> QED BY <2>1
<1>5. Nat \subseteq S
  <2> HIDE DEF S
  <2> QED BY <1>3, <1>4, Induction
<1>6. l - k - 1 \in Nat /\ k + 1 + (l - k - 1) = l
  OBVIOUS
<1>7. l - k - 1 \in S
  BY <1>5, <1>6
<1> QED BY <1>6, <1>7

\* Characters begin at most four bytes apart.
LEMMA StartsAre ==
  ASSUME NEW m \in Texts
  PROVE  /\ Bytes[m] \in Nat \ {0}
         /\ Starts[m] \subseteq 0 .. Bytes[m] - 1
         /\ 0 \in Starts[m]
         /\ \A x \in 0 .. Bytes[m] - 1 : \E o \in Starts[m] : o <= x /\ x < o + 4
<1> DEFINE n == Len(m)
<1>1. n \in Nat \ {0} /\ \A j \in 1 .. n : m[j] \in 1 .. 4
  BY TextsAre
<1>2. Bytes[m] = Offset(m, n)
  BY DEF Bytes
<1>3. Starts[m] = {Offset(m, k) : k \in 0 .. n - 1}
  BY DEF Starts
<1>4. Offset(m, 0) = 0 /\ \A k \in 0 .. n : Offset(m, k) \in Nat
  BY OffsetSteps
<1>5. \A k \in 0 .. n - 1 : Offset(m, k) < Offset(m, n)
  <2>1. \A k \in 0 .. n - 1 : k \in 0 .. n /\ n \in 0 .. n /\ k < n
    BY <1>1
  <2> QED BY <2>1, OffsetsGrow
<1>6. 0 \in Starts[m]
  <2>1. 0 \in 0 .. n - 1
    BY <1>1
  <2> QED BY <1>3, <1>4, <2>1
<1>7. Starts[m] \subseteq 0 .. Bytes[m] - 1
  <2>1. ASSUME NEW k \in 0 .. n - 1 PROVE Offset(m, k) \in 0 .. Bytes[m] - 1
    <3>1. Offset(m, k) \in Nat /\ Offset(m, n) \in Nat /\ Offset(m, k) < Offset(m, n)
      BY <1>1, <1>4, <1>5
    <3> QED BY <1>2, <3>1
  <2> QED BY <1>3, <2>1
<1>8. Bytes[m] \in Nat \ {0}
  <2>1. 0 \in 0 .. n - 1 /\ n \in 0 .. n
    BY <1>1
  <2>2. Offset(m, 0) < Offset(m, n) /\ Offset(m, n) \in Nat
    BY <1>4, <1>5, <2>1
  <2> QED BY <1>2, <1>4, <2>2
<1>9. ASSUME NEW x \in 0 .. Bytes[m] - 1
      PROVE  \E o \in Starts[m] : o <= x /\ x < o + 4
  <2> DEFINE K == {k \in 0 .. n - 1 : Offset(m, k) <= x}
  <2>1. 0 \in K
    BY <1>1, <1>4, <1>8
  <2>2. n - 1 \in Nat /\ K \subseteq 0 .. n - 1 /\ K # {}
    BY <1>1, <2>1
  <2>3. PICK k \in K : \A j \in K : k >= j
    <3> DEFINE l == n - 1
    <3>1. l \in Nat /\ K \subseteq 0 .. l /\ K # {}
      BY <2>2
    <3> HIDE DEF l, K
    <3> QED BY <3>1, GreatestElement
  <2>4. /\ k + 1 \in 1 .. n /\ (k + 1) - 1 = k /\ k \in 0 .. n - 1
        /\ k \in 0 .. n /\ k + 1 \in 0 .. n
    BY <1>1
  <2>5. Offset(m, k + 1) = Offset(m, k) + m[k + 1]
    BY <2>4, OffsetSteps
  <2>6. ~ (Offset(m, k + 1) <= x)
    <3>1. CASE k + 1 = n
      BY <1>2, <1>8, <3>1
    <3>2. CASE k + 1 # n
      <4>1. k + 1 \in 0 .. n - 1 /\ ~ (k >= k + 1)
        BY <1>1, <3>2, <2>4
      <4>2. k + 1 \notin K
        BY <2>3, <4>1
      <4> QED BY <4>1, <4>2
    <3> QED BY <3>1, <3>2
  <2>7. Offset(m, k) \in Nat /\ Offset(m, k + 1) \in Nat /\ m[k + 1] \in 1 .. 4
    BY <1>1, <1>4, <2>4
  <2>8. Offset(m, k) \in Starts[m] /\ Offset(m, k) <= x
    BY <1>3, <2>4
  <2>9. x < Offset(m, k) + 4
    BY <1>8, <2>5, <2>6, <2>7
  <2> QED BY <2>8, <2>9
<1> QED BY <1>6, <1>7, <1>8, <1>9

\* A chunk ends where a character begins, or with the text; it is not empty
\* and within the limit.
LEMMA ChunkEnds ==
  ASSUME NEW m \in Texts, NEW start \in 0 .. Bytes[m]
  PROVE  /\ ChunkEnd(m, start) \in Starts[m] \union {Bytes[m]}
         /\ ChunkEnd(m, start) \in 0 .. Bytes[m]
         /\ start = Bytes[m] => ChunkEnd(m, start) = Bytes[m]
         /\ start < Bytes[m] => start < ChunkEnd(m, start)
         /\ ChunkEnd(m, start) <= start + MaxEventSize
<1>1. MaxEventSize \in Nat /\ MaxEventSize >= 4
  BY LogStreamAssumption
<1>2. /\ Bytes[m] \in Nat \ {0} /\ Starts[m] \subseteq 0 .. Bytes[m] - 1
      /\ \A x \in 0 .. Bytes[m] - 1 : \E o \in Starts[m] : o <= x /\ x < o + 4
  BY StartsAre
<1>3. CASE start + MaxEventSize >= Bytes[m]
  <2>1. ChunkEnd(m, start) = Bytes[m]
    BY <1>3 DEF ChunkEnd
  <2> QED BY <1>1, <1>2, <1>3, <2>1
<1>4. CASE ~ (start + MaxEventSize >= Bytes[m])
  <2> DEFINE x == start + MaxEventSize
             T == {o \in Starts[m] : o <= x}
  <2>1. ChunkEnd(m, start) = Max(T)
    BY <1>4 DEF ChunkEnd
  <2>2. x \in Nat /\ x \in 0 .. Bytes[m] - 1
    BY <1>1, <1>2, <1>4
  <2>3. PICK o \in Starts[m] : o <= x /\ x < o + 4
    BY <1>2, <2>2
  <2>4. T \subseteq 0 .. x /\ T # {} /\ o \in T
    BY <1>2, <2>2, <2>3
  <2>5. Max(T) \in T /\ \A y \in T : y <= Max(T)
    <3> HIDE DEF x, T
    <3> QED BY <2>2, <2>4, MaxIs
  <2>6. Max(T) \in Starts[m] /\ Max(T) <= x /\ o <= Max(T)
    BY <2>4, <2>5
  <2>7. Max(T) \in 0 .. Bytes[m] - 1 /\ o \in Nat
    BY <1>2, <2>6
  <2>8. start < Max(T)
    BY <1>1, <2>3, <2>6, <2>7
  <2> HIDE DEF T
  <2> QED BY <1>2, <1>4, <2>1, <2>6, <2>7, <2>8
<1> QED BY <1>3, <1>4

LEMMA CutsAre ==
  ASSUME NEW m \in Texts
  PROVE  /\ DOMAIN Cuts[m] = 0 .. Bytes[m]
         /\ Cuts[m][0] = 0
         /\ \A k \in 1 .. Bytes[m] : Cuts[m][k] = ChunkEnd(m, Cuts[m][k - 1])
<1> DEFINE n == Bytes[m]
           V == 0 .. n
           h == [k \in 1 .. n |-> [v \in V |-> ChunkEnd(m, v)]]
           F == CHOOSE u : u = [k \in 0 .. n |->
                                  IF k = 0 THEN 0 ELSE ChunkEnd(m, u[k - 1])]
<1>1. n \in Nat /\ 0 \in V
  BY StartsAre
<1>2. h \in [1 .. n -> [V -> V]]
  BY ChunkEnds
<1>3. \A k \in 1 .. n, v \in V : h[k][v] = ChunkEnd(m, v)
  OBVIOUS
<1>4. PICK u : Recurs(u, n, V, 0, h)
  <2> HIDE DEF n, V, h
  <2> QED BY <1>1, <1>2, Recursion
<1>5. u \in [0 .. n -> V] /\ u[0] = 0 /\ \A k \in 1 .. n : u[k] = h[k][u[k - 1]]
  BY <1>4 DEF Recurs
<1>6. \A k \in 1 .. n : u[k] = ChunkEnd(m, u[k - 1])
  <2>1. ASSUME NEW k \in 1 .. n PROVE u[k - 1] \in V
    <3>1. k - 1 \in 0 .. n
      BY <1>1
    <3> HIDE DEF V
    <3> QED BY <1>5, <3>1
  <2> HIDE DEF h, V
  <2> QED BY <1>3, <1>5, <2>1
<1>7. u = [k \in 0 .. n |-> IF k = 0 THEN 0 ELSE ChunkEnd(m, u[k - 1])]
  BY <1>5, <1>6
<1>8. F = [k \in 0 .. n |-> IF k = 0 THEN 0 ELSE ChunkEnd(m, F[k - 1])]
  BY <1>7
<1>9. Cuts[m] = F
  BY DEF Cuts
<1> HIDE DEF F
<1>10. DOMAIN F = 0 .. n /\ F[0] = 0 /\ \A k \in 1 .. n : F[k] = ChunkEnd(m, F[k - 1])
  BY <1>1, <1>8
<1> QED BY <1>9, <1>10

\* What the cuts are worth to the chunks between them.
LEMMA CutsGrow ==
  ASSUME NEW m \in Texts
  PROVE  /\ \A k \in 0 .. Bytes[m] : /\ Cuts[m][k] \in 0 .. Bytes[m]
                                     /\ Cuts[m][k] \in Starts[m] \union {Bytes[m]}
                                     /\ Cuts[m][k] >= k
         /\ \A k \in 1 .. Bytes[m] :
              Cuts[m][k - 1] < Bytes[m] => Cuts[m][k - 1] < Cuts[m][k]
         /\ \A k \in 1 .. Bytes[m] : Cuts[m][k] <= Cuts[m][k - 1] + MaxEventSize
<1> DEFINE n == Bytes[m]
           C == Cuts[m]
           Good(k) == C[k] \in 0 .. n /\ C[k] \in Starts[m] \union {n} /\ C[k] >= k
           S == {k \in Nat : k <= n => Good(k)}
<1>1. n \in Nat \ {0} /\ 0 \in Starts[m]
  BY StartsAre
<1>2. C[0] = 0 /\ \A k \in 1 .. n : C[k] = ChunkEnd(m, C[k - 1])
  BY CutsAre
<1>3. \A v \in 0 .. n : /\ ChunkEnd(m, v) \in Starts[m] \union {n}
                        /\ ChunkEnd(m, v) \in 0 .. n
                        /\ v = n => ChunkEnd(m, v) = n
                        /\ v < n => v < ChunkEnd(m, v)
                        /\ ChunkEnd(m, v) <= v + MaxEventSize
  BY ChunkEnds
<1> HIDE DEF n, C
<1>4. 0 \in S
  BY <1>1, <1>2
<1>5. ASSUME NEW k \in Nat, k \in S PROVE k + 1 \in S
  <2>1. CASE k + 1 <= n
    <3>1. k + 1 \in 1 .. n /\ (k + 1) - 1 = k /\ Good(k)
      BY <1>1, <1>5, <2>1
    <3>2. C[k + 1] = ChunkEnd(m, C[k]) /\ C[k] \in 0 .. n /\ C[k] >= k
      BY <1>2, <3>1
    <3>3. C[k + 1] \in 0 .. n /\ C[k + 1] \in Starts[m] \union {n}
      BY <1>3, <3>2
    <3>4. C[k + 1] >= k + 1
      <4>1. CASE C[k] = n
        BY <1>1, <1>3, <2>1, <3>2, <4>1
      <4>2. CASE C[k] < n
        <5>1. C[k] < C[k + 1]
          BY <1>3, <3>2, <4>2
        <5> QED BY <1>1, <3>2, <3>3, <5>1
      <4> QED BY <1>1, <3>2, <4>1, <4>2
    <3> QED BY <3>3, <3>4
  <2> QED BY <2>1
<1>6. Nat \subseteq S
  <2> HIDE DEF S
  <2> QED BY <1>4, <1>5, Induction
<1>7. ASSUME NEW k \in 0 .. n PROVE Good(k)
  <2>1. k \in Nat /\ k <= n
    BY <1>1
  <2>2. k \in S
    BY <1>6, <2>1
  <2> HIDE DEF Good
  <2> QED BY <2>1, <2>2
<1>8. ASSUME NEW k \in 1 .. n
      PROVE  /\ C[k - 1] < n => C[k - 1] < C[k]
             /\ C[k] <= C[k - 1] + MaxEventSize
  <2>1. k - 1 \in 0 .. n
    BY <1>1
  <2>2. C[k - 1] \in 0 .. n
    BY <1>7, <2>1
  <2>3. C[k] = ChunkEnd(m, C[k - 1])
    BY <1>2
  <2> QED BY <1>3, <2>2, <2>3
<1> QED BY <1>7, <1>8 DEF n, C

LEMMA Growing ==
  ASSUME NEW n \in Nat, NEW f, \A k \in 0 .. n : f[k] \in Nat,
         \A k \in 1 .. n : f[k - 1] < f[k]
  PROVE  \A i, j \in 0 .. n : i < j => f[i] < f[j]
<1> SUFFICES ASSUME NEW i \in 0 .. n PROVE \A j \in 0 .. n : i < j => f[i] < f[j]
  OBVIOUS
<1> DEFINE S == {d \in Nat : i + 1 + d <= n => f[i] < f[i + 1 + d]}
<1>1. 0 \in S
  <2>1. CASE i + 1 <= n
    <3>1. i + 1 \in 1 .. n /\ (i + 1) - 1 = i /\ i + 1 + 0 = i + 1
      BY <2>1
    <3> QED BY <3>1
  <2> QED BY <2>1
<1>2. ASSUME NEW d \in Nat, d \in S PROVE d + 1 \in S
  <2>1. CASE i + 1 + (d + 1) <= n
    <3> DEFINE x == i + 1 + (d + 1)
    <3>1. x \in 1 .. n /\ x - 1 = i + 1 + d /\ x - 1 \in 0 .. n /\ f[i] < f[i + 1 + d]
      BY <1>2, <2>1
    <3>2. f[x - 1] < f[x] /\ f[x] \in Nat /\ f[x - 1] \in Nat /\ f[i] \in Nat
      BY <3>1
    <3>3. f[i] < f[x]
      BY <3>1, <3>2
    <3> QED BY <3>3
  <2> QED BY <2>1
<1>3. Nat \subseteq S
  <2> HIDE DEF S
  <2> QED BY <1>1, <1>2, Induction
<1>4. ASSUME NEW j \in 0 .. n, i < j PROVE f[i] < f[j]
  <2>1. j - i - 1 \in Nat /\ i + 1 + (j - i - 1) = j
    BY <1>4
  <2>2. j - i - 1 \in S
    BY <1>3, <2>1
  <2> QED BY <2>1, <2>2
<1> QED BY <1>4

ChunkOf(m, c) ==
  /\ c.from \in Starts[m] /\ c.to \in Starts[m] \union {Bytes[m]}
  /\ c.from \in Nat /\ c.to \in Nat
  /\ c.to - c.from \in 1 .. MaxEventSize

\* What the loop of _chunk_string makes of a text: chunks of whole characters,
\* none of them empty or longer than the limit, one after the other.
LEMMA ChunksAre ==
  ASSUME NEW m \in Texts
  PROVE  \E K \in Nat \ {0} :
           /\ DOMAIN Chunks[m] = 1 .. K
           /\ \A k \in 1 .. K : ChunkOf(m, Chunks[m][k])
           /\ \A i, j \in 1 .. K : i < j => Chunks[m][i].from < Chunks[m][j].from
<1> DEFINE n == Bytes[m]
           C == Cuts[m]
           T == {j \in DOMAIN C : C[j] = n}
           K == Min(T)
<1>1. n \in Nat \ {0} /\ Starts[m] \subseteq 0 .. n - 1 /\ MaxEventSize \in Nat
  BY StartsAre, LogStreamAssumption
<1>2. DOMAIN C = 0 .. n /\ C[0] = 0
  BY CutsAre
<1>3. /\ \A k \in 0 .. n : C[k] \in 0 .. n /\ C[k] \in Starts[m] \union {n} /\ C[k] >= k
      /\ \A k \in 1 .. n : C[k - 1] < n => C[k - 1] < C[k]
      /\ \A k \in 1 .. n : C[k] <= C[k - 1] + MaxEventSize
  BY CutsGrow
<1>4. Chunks[m] = [k \in 1 .. K |-> [from |-> C[k - 1], to |-> C[k]]]
  BY DEF Chunks
<1> HIDE DEF n, C
<1>5. T \subseteq Nat /\ n \in T
  <2>1. n \in 0 .. n /\ C[n] \in 0 .. n /\ C[n] >= n
    BY <1>1, <1>3
  <2>2. C[n] = n
    BY <1>1, <2>1
  <2> QED BY <1>1, <1>2, <2>1, <2>2
<1>6. K \in T /\ \A j \in T : K <= j
  <2> HIDE DEF T
  <2> QED BY <1>5, MinIs
<1> HIDE DEF K
<1>7. K \in 1 .. n /\ K \in Nat \ {0} /\ C[K] = n
  <2>1. K \in 0 .. n /\ C[K] = n
    BY <1>2, <1>6
  <2>2. K # 0
    BY <1>1, <1>2, <2>1
  <2> QED BY <1>1, <2>1, <2>2
<1>8. \A k \in 0 .. K - 1 : C[k] < n /\ C[k] \in Starts[m] /\ C[k] \in Nat
  <2>1. ASSUME NEW k \in 0 .. K - 1
        PROVE  C[k] < n /\ C[k] \in Starts[m] /\ C[k] \in Nat
    <3>1. k \in 0 .. n /\ ~ (K <= k)
      BY <1>1, <1>7
    <3>2. k \notin T
      BY <1>6, <3>1
    <3>3. C[k] # n
      BY <1>2, <3>1, <3>2
    <3> QED BY <1>1, <1>3, <3>1, <3>3
  <2> QED BY <2>1
<1>9. ASSUME NEW k \in 1 .. K
      PROVE  ChunkOf(m, Chunks[m][k]) /\ Chunks[m][k].from = C[k - 1] /\ C[k - 1] < C[k]
  <2>1. k - 1 \in 0 .. K - 1 /\ k \in 1 .. n /\ k \in 0 .. n
    BY <1>1, <1>7
  <2>2. Chunks[m][k] = [from |-> C[k - 1], to |-> C[k]]
    BY <1>4
  <2>3. C[k - 1] \in Starts[m] /\ C[k - 1] \in Nat /\ C[k - 1] < n
    BY <1>8, <2>1
  <2>4. C[k] \in Starts[m] \union {n} /\ C[k] \in Nat /\ C[k - 1] < C[k]
    BY <1>1, <1>3, <2>1, <2>3
  <2>5. C[k] <= C[k - 1] + MaxEventSize
    BY <1>3, <2>1
  <2>6. C[k] - C[k - 1] \in 1 .. MaxEventSize
    BY <1>1, <2>3, <2>4, <2>5
  <2>7. Chunks[m][k].from = C[k - 1] /\ Chunks[m][k].to = C[k]
    BY <2>2
  <2>8. ChunkOf(m, Chunks[m][k])
    BY <2>3, <2>4, <2>6, <2>7 DEF ChunkOf, n
  <2> QED BY <2>4, <2>7, <2>8
<1>10. \A i, j \in 1 .. K : i < j => Chunks[m][i].from < Chunks[m][j].from
  <2> DEFINE l == K - 1
  <2>1. l \in Nat /\ \A k \in 0 .. l : C[k] \in Nat
    BY <1>7, <1>8
  <2>2. \A k \in 1 .. l : C[k - 1] < C[k]
    BY <1>7, <1>9
  <2> HIDE DEF l
  <2>3. \A i, j \in 0 .. l : i < j => C[i] < C[j]
    BY <2>1, <2>2, Growing
  <2>4. ASSUME NEW i \in 1 .. K, NEW j \in 1 .. K, i < j
        PROVE  Chunks[m][i].from < Chunks[m][j].from
    <3>1. i - 1 \in 0 .. l /\ j - 1 \in 0 .. l /\ i - 1 < j - 1
      BY <1>7, <2>4 DEF l
    <3>2. C[i - 1] < C[j - 1]
      BY <2>3, <3>1
    <3> QED BY <1>9, <3>2
  <2> QED BY <2>4
<1>11. DOMAIN Chunks[m] = 1 .. K
  BY <1>4
<1> QED BY <1>7, <1>9, <1>10, <1>11

(***************************************************************************)
(* The inductive invariant.                                                *)
(***************************************************************************)
Records == [n : 1 .. MaxLogged, ts : 0 .. MaxNow, text : Texts \union {Malformed}]

Known(log, r) == r \in Records /\ r.n \in 1 .. Len(log) /\ log[r.n] = r

Genuine(log, p) ==
  /\ p \in PartSet
  /\ p.n \in 1 .. Len(log)
  /\ p.ts = log[p.n].ts
  /\ p.kind = "log" => /\ p.size <= MaxEventSize
                       /\ log[p.n].text \in Texts
                       /\ ChunkOf(log[p.n].text, p)

AllGenuine(log, s) == s \in Seq(PartSet) /\ \A p \in ToSet(s) : Genuine(log, p)

\* What the handler holds is about records, and of whole characters.
Types ==
  /\ now \in 0 .. MaxNow /\ ticks \in 0 .. MaxTicks
  /\ emitting \in [Loggers -> Contents \union {None}]
  /\ Cardinality(Waiting) + Len(logged) <= MaxLogged
  /\ logged \in Seq(Records)
  /\ \A k \in 1 .. Len(logged) : logged[k].n = k
  /\ raw \in Seq(Records) /\ \A r \in ToSet(raw) : Known(logged, r)
  /\ AllGenuine(logged, parts)
  /\ AllGenuine(logged, batch)
  /\ AllGenuine(logged, stored)
  /\ pc \in {"run", "collect", "upload", "ended"}
  /\ tries \in 1 .. Retries
  /\ handler \in {"open", "closing", "closed"}
  /\ settled \union afterStop \subseteq 1 .. Len(logged)

\* The batch so far is one that PutLogEvents accepts, once it is sorted.
Fits(b) ==
  /\ Len(b) <= MaxEvents
  /\ SizeOf(b) <= MaxBytes
  /\ \A p, q \in ToSet(b) : p.ts - q.ts <= Span

InTime(b) == \A i, j \in 1 .. Len(b) : i < j => b[i].ts <= b[j].ts

Batches ==
  /\ pc \in {"collect", "upload"} => Fits(batch)
  /\ pc = "upload" => batch # <<>> /\ InTime(batch)
  /\ pc \in {"run", "ended"} => batch = <<>>

\* The order in which text was given to the handler.
Lt(p, q) == p.n < q.n \/ (p.n = q.n /\ p.from < q.from)
Logs(s) == {p \in ToSet(s) : p.kind = "log"}
Increasing(s) ==
  \A i, j \in 1 .. Len(s) :
    i < j /\ s[i].kind = "log" /\ s[j].kind = "log" => Lt(s[i], s[j])
Ahead(P, Q) == \A p \in P, q \in Q : Lt(p, q)
AheadOfRecords(P, R) == \A p \in P, r \in R : p.n < r.n
InOrder(rs) == \A i, j \in 1 .. Len(rs) : i < j => rs[i].n < rs[j].n

\* Sorted by time, and text of one time in the order it was given to the handler.
Stable(b) ==
  \A i, j \in 1 .. Len(b) :
    /\ b[i].kind = "log" /\ b[j].kind = "log"
    /\ Lt(b[i], b[j]) /\ b[i].ts <= b[j].ts
    => i < j

\* OrderKept, of a sequence.
FirstIn(s, p) == Min({k \in DOMAIN s : s[k] = p})
Kept(s) ==
  \A p, q \in Logs(s) : Lt(p, q) /\ p.ts <= q.ts => FirstIn(s, p) < FirstIn(s, q)

\* What left the queues is ahead of what is in them, and the batch is ahead of
\* them too; what is stored is ahead of the batch or, when an answer was lost,
\* the batch is stored.
Order ==
  /\ Increasing(parts) /\ InOrder(raw) /\ AheadOfRecords(Logs(parts), ToSet(raw))
  /\ Ahead(Logs(batch), Logs(parts)) /\ AheadOfRecords(Logs(batch), ToSet(raw))
  /\ Ahead(Logs(stored), Logs(parts)) /\ AheadOfRecords(Logs(stored), ToSet(raw))
  /\ pc = "collect" => Increasing(batch) /\ Ahead(Logs(stored), Logs(batch))
  /\ pc = "upload" => /\ Stable(batch)
                      /\ \/ Ahead(Logs(stored), Logs(batch))
                         \/ ToSet(batch) \subseteq ToSet(stored)
  /\ Kept(stored)

\* The stream's thread ends when nothing is owed.
Ns(s) == {x.n : x \in ToSet(s)}
Before(s, n) == \A x \in ToSet(s) : x.n < n
Flow == pc = "ended" => Stopping /\ Accepted \subseteq settled \union afterStop

IInv == Types /\ Batches /\ Order /\ Flow

(***************************************************************************)
(* Sequences and their elements.                                           *)
(***************************************************************************)
LEMMA InAppend ==
  ASSUME NEW T, NEW s \in Seq(T), NEW e \in T
  PROVE  /\ Append(s, e) \in Seq(T)
         /\ ToSet(Append(s, e)) = ToSet(s) \union {e}
<1>1. Append(s, e) \in Seq(T)
  OBVIOUS
<1>2. /\ DOMAIN Append(s, e) = 1 .. Len(s) + 1 /\ DOMAIN s = 1 .. Len(s)
      /\ \A k \in 1 .. Len(s) : Append(s, e)[k] = s[k]
      /\ Append(s, e)[Len(s) + 1] = e
      /\ Len(s) \in Nat
  OBVIOUS
<1> DEFINE t == Append(s, e)
<1> HIDE DEF t
<1>3. ASSUME NEW x \in ToSet(t) PROVE x \in ToSet(s) \union {e}
  <2>1. PICK k \in 1 .. Len(s) + 1 : x = t[k]
    BY <1>2 DEF ToSet, t
  <2>2. CASE k = Len(s) + 1
    BY <1>2, <2>1, <2>2 DEF t
  <2>3. CASE k # Len(s) + 1
    <3>1. k \in 1 .. Len(s)
      BY <1>2, <2>3
    <3> QED BY <1>2, <2>1, <3>1 DEF ToSet, t
  <2> QED BY <2>2, <2>3
<1>4. ASSUME NEW x \in ToSet(s) PROVE x \in ToSet(t)
  <2>1. PICK k \in 1 .. Len(s) : x = s[k]
    BY <1>2 DEF ToSet
  <2>2. k \in 1 .. Len(s) + 1 /\ x = t[k]
    BY <1>2, <2>1 DEF t
  <2> QED BY <1>2, <2>2 DEF ToSet, t
<1>5. e \in ToSet(t)
  <2>1. Len(s) + 1 \in 1 .. Len(s) + 1
    BY <1>2
  <2> QED BY <1>2, <2>1 DEF ToSet, t
<1> QED BY <1>1, <1>3, <1>4, <1>5 DEF t

LEMMA InConcat ==
  ASSUME NEW T, NEW s \in Seq(T), NEW t \in Seq(T)
  PROVE  /\ s \o t \in Seq(T)
         /\ ToSet(s \o t) = ToSet(s) \union ToSet(t)
<1> DEFINE m == Len(s)
           n == Len(t)
           c == s \o t
<1>1. /\ m \in Nat /\ n \in Nat
      /\ DOMAIN s = 1 .. m /\ DOMAIN t = 1 .. n /\ DOMAIN c = 1 .. m + n
      /\ \A k \in 1 .. m : c[k] = s[k]
      /\ \A k \in m + 1 .. m + n : c[k] = t[k - m]
      /\ c \in Seq(T)
  OBVIOUS
<1> HIDE DEF m, n, c
<1>2. ASSUME NEW x \in ToSet(c) PROVE x \in ToSet(s) \union ToSet(t)
  <2>1. PICK k \in 1 .. m + n : x = c[k]
    BY <1>1 DEF ToSet
  <2>2. CASE k \in 1 .. m
    BY <1>1, <2>1, <2>2 DEF ToSet
  <2>3. CASE k \notin 1 .. m
    <3>1. k \in m + 1 .. m + n /\ k - m \in 1 .. n
      BY <1>1, <2>3
    <3> QED BY <1>1, <2>1, <3>1 DEF ToSet
  <2> QED BY <2>2, <2>3
<1>3. ASSUME NEW x \in ToSet(s) PROVE x \in ToSet(c)
  <2>1. PICK k \in 1 .. m : x = s[k]
    BY <1>1 DEF ToSet
  <2>2. k \in 1 .. m + n /\ x = c[k]
    BY <1>1, <2>1
  <2> QED BY <1>1, <2>2 DEF ToSet
<1>4. ASSUME NEW x \in ToSet(t) PROVE x \in ToSet(c)
  <2>1. PICK k \in 1 .. n : x = t[k]
    BY <1>1 DEF ToSet
  <2>2. m + k \in m + 1 .. m + n /\ (m + k) - m = k /\ m + k \in 1 .. m + n
    BY <1>1
  <2>3. x = c[m + k]
    BY <1>1, <2>1, <2>2
  <2> QED BY <1>1, <2>2, <2>3 DEF ToSet
<1> QED BY <1>1, <1>2, <1>3, <1>4 DEF c

LEMMA InTail ==
  ASSUME NEW T, NEW s \in Seq(T), s # <<>>
  PROVE  /\ Head(s) \in T /\ Tail(s) \in Seq(T)
         /\ ToSet(s) = {Head(s)} \union ToSet(Tail(s))
<1> DEFINE n == Len(s)
           t == Tail(s)
           h == Head(s)
<1>1. /\ n \in Nat \ {0} /\ DOMAIN s = 1 .. n /\ DOMAIN t = 1 .. n - 1
      /\ \A k \in 1 .. n - 1 : t[k] = s[k + 1]
      /\ h = s[1] /\ h \in T /\ t \in Seq(T)
  OBVIOUS
<1> HIDE DEF n, t, h
<1>2. ASSUME NEW x \in ToSet(s) PROVE x \in {h} \union ToSet(t)
  <2>1. PICK k \in 1 .. n : x = s[k]
    BY <1>1 DEF ToSet
  <2>2. CASE k = 1
    BY <1>1, <2>1, <2>2
  <2>3. CASE k # 1
    <3>1. k - 1 \in 1 .. n - 1 /\ (k - 1) + 1 = k
      BY <1>1, <2>3
    <3>2. x = t[k - 1]
      BY <1>1, <2>1, <3>1
    <3> QED BY <1>1, <3>1, <3>2 DEF ToSet
  <2> QED BY <2>2, <2>3
<1>3. ASSUME NEW x \in ToSet(t) PROVE x \in ToSet(s)
  <2>1. PICK k \in 1 .. n - 1 : x = t[k]
    BY <1>1 DEF ToSet
  <2>2. k + 1 \in 1 .. n /\ x = s[k + 1]
    BY <1>1, <2>1
  <2> QED BY <1>1, <2>2 DEF ToSet
<1>4. h \in ToSet(s)
  <2>1. 1 \in 1 .. n
    BY <1>1
  <2> QED BY <1>1, <2>1 DEF ToSet
<1> QED BY <1>1, <1>2, <1>3, <1>4 DEF t, h

LEMMA InSorted ==
  ASSUME NEW b \in Seq(PartSet)
  PROVE  /\ ByTime(b) \in Seq(PartSet) /\ Len(ByTime(b)) = Len(b)
         /\ ToSet(ByTime(b)) = ToSet(b)
         /\ SizeOf(ByTime(b)) = SizeOf(b)
         /\ InTime(ByTime(b))
         /\ Increasing(b) => Stable(ByTime(b))
<1> DEFINE n == Len(b)
           s == ByTime(b)
<1>1. /\ n \in Nat /\ DOMAIN b = 1 .. n /\ Len(b) = n
      /\ \A k \in 1 .. n : /\ b[k] \in PartSet /\ b[k].ts \in Nat
                           /\ b[k].n \in Nat /\ b[k].from \in Nat
  <2>1. n \in Nat /\ DOMAIN b = 1 .. n /\ Len(b) = n /\ \A k \in 1 .. n : b[k] \in PartSet
    OBVIOUS
  <2>2. MaxNow \in Nat /\ MaxLogged \in Nat
    BY LogStreamAssumption
  <2> QED BY <2>1, <2>2 DEF PartSet
<1>9. SizeOf(s) = SizeOf(b)
  <2>1. \A x \in PartSet : x.size \in Nat /\ x.ts \in Nat
    BY LogStreamAssumption DEF PartSet
  <2> HIDE DEF s
  <2> QED BY <2>1, SizeOfSorted DEF s
<1> HIDE DEF n, s
<1>2. PICK p : Sorts(p, b, s)
  BY <1>1, ByTimeSorts DEF s
<1>3. /\ p \in Bijection(1 .. n, 1 .. n)
      /\ s = [i \in 1 .. n |-> b[p[i]]]
      /\ \A i, j \in 1 .. n : i < j =>
           \/ b[p[i]].ts < b[p[j]].ts
           \/ b[p[i]].ts = b[p[j]].ts /\ p[i] < p[j]
  BY <1>1, <1>2 DEF Sorts
<1>4. p \in [1 .. n -> 1 .. n] /\ \A k \in 1 .. n : \E i \in 1 .. n : p[i] = k
  BY <1>3 DEF Bijection, Surjection
<1>5. s \in Seq(PartSet) /\ Len(s) = n /\ DOMAIN s = 1 .. n
  BY <1>1, <1>3, <1>4
<1>6. \A i \in 1 .. n : s[i] = b[p[i]] /\ p[i] \in 1 .. n
  BY <1>3, <1>4
<1>7. ToSet(s) = ToSet(b)
  <2>1. ASSUME NEW i \in 1 .. n PROVE s[i] \in ToSet(b)
    BY <1>1, <1>6 DEF ToSet
  <2>2. ASSUME NEW k \in 1 .. n PROVE b[k] \in ToSet(s)
    <3>1. PICK i \in 1 .. n : p[i] = k
      BY <1>4
    <3>2. s[i] = b[k]
      BY <1>6, <3>1
    <3> QED BY <1>5, <3>2 DEF ToSet
  <2> QED BY <1>1, <1>5, <2>1, <2>2 DEF ToSet
<1>8. InTime(s)
  <2>1. ASSUME NEW i \in 1 .. n, NEW j \in 1 .. n, i < j PROVE s[i].ts <= s[j].ts
    BY <1>1, <1>3, <1>6, <2>1
  <2> QED BY <1>5, <2>1 DEF InTime
<1>10. ASSUME Increasing(b) PROVE Stable(s)
  <2>1. ASSUME NEW i \in 1 .. n, NEW j \in 1 .. n,
               s[i].kind = "log", s[j].kind = "log",
               Lt(s[i], s[j]), s[i].ts <= s[j].ts, ~ (i < j)
        PROVE  FALSE
    <3>1. i # j
      <4>1. SUFFICES ASSUME i = j PROVE FALSE
        OBVIOUS
      <4>2. s[i].n \in Nat /\ s[i].from \in Nat
        BY <1>1, <1>6
      <4> QED BY <2>1, <4>1, <4>2 DEF Lt
    <3>2. j < i
      BY <2>1, <3>1
    <3>3. \/ b[p[j]].ts < b[p[i]].ts
          \/ b[p[j]].ts = b[p[i]].ts /\ p[j] < p[i]
      BY <1>3, <3>2
    <3>4. b[p[i]].ts <= b[p[j]].ts /\ b[p[i]].ts \in Nat /\ b[p[j]].ts \in Nat
      BY <1>1, <1>6, <2>1
    <3>5. p[j] < p[i] /\ p[i] \in 1 .. n /\ p[j] \in 1 .. n
      BY <1>6, <3>3, <3>4
    <3>6. b[p[i]].kind = "log" /\ b[p[j]].kind = "log" /\ Lt(b[p[i]], b[p[j]])
      BY <1>6, <2>1
    <3>7. Lt(b[p[j]], b[p[i]])
      BY <1>1, <1>10, <3>5, <3>6 DEF Increasing
    <3>8. /\ b[p[i]].n \in Nat /\ b[p[j]].n \in Nat
          /\ b[p[i]].from \in Nat /\ b[p[j]].from \in Nat
      BY <1>1, <3>5
    <3> QED BY <3>6, <3>7, <3>8 DEF Lt
  <2> QED BY <1>5, <2>1 DEF Stable
<1> QED BY <1>1, <1>5, <1>7, <1>8, <1>9, <1>10 DEF s

LEMMA Limits ==
  /\ MaxEvents \in Nat \ {0} /\ MaxBytes \in Nat /\ Retries \in Nat \ {0}
  /\ MaxEventSize \in Nat /\ Padding \in Nat /\ Span \in Nat
  /\ MaxNow \in Nat /\ MaxTicks \in Nat /\ MaxLogged \in Nat
  BY LogStreamAssumption

LEMMA PartFields ==
  ASSUME NEW p \in PartSet
  PROVE  /\ p.n \in Nat /\ p.ts \in Nat /\ p.from \in Nat /\ p.to \in Nat
         /\ p.size \in Nat /\ p.kind \in {"log", "notice"}
  BY LogStreamAssumption DEF PartSet

LEMMA IndexOf ==
  ASSUME NEW T, NEW s \in Seq(T)
  PROVE  /\ \A k \in 1 .. Len(s) : s[k] \in ToSet(s) /\ s[k] \in T
         /\ \A x \in ToSet(s) : x \in T /\ \E k \in 1 .. Len(s) : s[k] = x
         /\ DOMAIN s = 1 .. Len(s) /\ Len(s) \in Nat
  BY DEF ToSet

LEMMA IncreasingConcat ==
  ASSUME NEW s \in Seq(PartSet), NEW t \in Seq(PartSet),
         Increasing(s), Increasing(t), Ahead(Logs(s), Logs(t))
  PROVE  Increasing(s \o t)
<1> DEFINE m == Len(s)
           n == Len(t)
           c == s \o t
<1>1. /\ m \in Nat /\ n \in Nat
      /\ DOMAIN s = 1 .. m /\ DOMAIN t = 1 .. n /\ Len(c) = m + n
      /\ \A k \in 1 .. m : c[k] = s[k]
      /\ \A k \in m + 1 .. m + n : c[k] = t[k - m]
  OBVIOUS
<1> HIDE DEF m, n, c
<1>2. ASSUME NEW i \in 1 .. m + n, NEW j \in 1 .. m + n, i < j,
             c[i].kind = "log", c[j].kind = "log"
      PROVE  Lt(c[i], c[j])
  <2>1. CASE j \in 1 .. m
    <3>1. i \in 1 .. m
      BY <1>1, <1>2, <2>1
    <3>2. c[i] = s[i] /\ c[j] = s[j]
      BY <1>1, <2>1, <3>1
    <3> QED BY <1>2, <2>1, <3>1, <3>2 DEF Increasing, m
  <2>2. CASE i \in 1 .. m /\ j \notin 1 .. m
    <3>1. j \in m + 1 .. m + n /\ j - m \in 1 .. n
      BY <1>1, <2>2
    <3>2. c[i] = s[i] /\ c[j] = t[j - m]
      BY <1>1, <2>2, <3>1
    <3>3. c[i] \in ToSet(s) /\ c[j] \in ToSet(t)
      BY <1>1, <2>2, <3>1, <3>2 DEF ToSet
    <3> QED BY <1>2, <3>3 DEF Ahead, Logs
  <2>3. CASE i \notin 1 .. m
    <3>1. /\ i \in m + 1 .. m + n /\ i - m \in 1 .. n
          /\ j \in m + 1 .. m + n /\ j - m \in 1 .. n /\ i - m < j - m
      BY <1>1, <1>2, <2>3
    <3>2. c[i] = t[i - m] /\ c[j] = t[j - m]
      BY <1>1, <3>1
    <3> QED BY <1>2, <3>1, <3>2 DEF Increasing, n
  <2> QED BY <2>1, <2>2, <2>3
<1> QED BY <1>1, <1>2 DEF Increasing, c

LEMMA IncreasingTail ==
  ASSUME NEW s \in Seq(PartSet), s # <<>>, Increasing(s)
  PROVE  /\ Increasing(Tail(s))
         /\ Head(s).kind = "log" => \A q \in Logs(Tail(s)) : Lt(Head(s), q)
<1> DEFINE n == Len(s)
           t == Tail(s)
           h == Head(s)
<1>1. /\ n \in Nat \ {0} /\ DOMAIN s = 1 .. n /\ Len(t) = n - 1
      /\ DOMAIN t = 1 .. n - 1
      /\ \A k \in 1 .. n - 1 : t[k] = s[k + 1]
      /\ h = s[1]
  OBVIOUS
<1> HIDE DEF n, t, h
<1>2. \A i, j \in 1 .. n : i < j /\ s[i].kind = "log" /\ s[j].kind = "log"
                             => Lt(s[i], s[j])
  BY DEF Increasing, n
<1>3. ASSUME NEW i \in 1 .. n - 1, NEW j \in 1 .. n - 1, i < j,
             t[i].kind = "log", t[j].kind = "log"
      PROVE  Lt(t[i], t[j])
  <2>1. i + 1 \in 1 .. n /\ j + 1 \in 1 .. n /\ i + 1 < j + 1
    BY <1>1, <1>3
  <2>2. t[i] = s[i + 1] /\ t[j] = s[j + 1]
    BY <1>1
  <2> QED BY <1>2, <1>3, <2>1, <2>2
<1>4. ASSUME h.kind = "log", NEW q \in Logs(t)
      PROVE  Lt(h, q)
  <2>1. PICK k \in 1 .. n - 1 : q = t[k]
    BY <1>1 DEF Logs, ToSet
  <2>2. k + 1 \in 1 .. n /\ 1 \in 1 .. n /\ 1 < k + 1 /\ q = s[k + 1] /\ q.kind = "log"
    BY <1>1, <2>1 DEF Logs
  <2> QED BY <1>1, <1>2, <1>4, <2>2
<1>5. Increasing(t)
  BY <1>1, <1>3 DEF Increasing
<1> QED BY <1>4, <1>5 DEF t, h

LEMMA NoLogs ==
  ASSUME NEW s \in Seq(PartSet), \A p \in ToSet(s) : p.kind = "notice"
  PROVE  Increasing(s) /\ Logs(s) = {}
<1>1. \A k \in 1 .. Len(s) : s[k].kind = "notice"
  BY IndexOf
<1>2. Increasing(s)
  BY <1>1 DEF Increasing
<1>3. Logs(s) = {}
  BY DEF Logs
<1> QED BY <1>2, <1>3

(***************************************************************************)
(* What next() takes from the queues.                                      *)
(***************************************************************************)
LEMMA PartsAre ==
  ASSUME Types, NEW r, Known(logged, r), ~ IsBad(r)
  PROVE  /\ AllGenuine(logged, Parts(r))
         /\ Parts(r) # <<>>
         /\ \A p \in ToSet(Parts(r)) : p.n = r.n /\ p.kind = "log"
         /\ Increasing(Parts(r))
<1> DEFINE m == r.text
           P == Parts(r)
<1>1. m \in Texts /\ r.n \in 1 .. MaxLogged /\ r.ts \in 0 .. MaxNow
      /\ r.n \in 1 .. Len(logged) /\ logged[r.n] = r
  BY DEF Known, Records, IsBad
<1>2. PICK K \in Nat \ {0} :
        /\ DOMAIN Chunks[m] = 1 .. K
        /\ \A k \in 1 .. K : ChunkOf(m, Chunks[m][k])
        /\ \A i, j \in 1 .. K : i < j => Chunks[m][i].from < Chunks[m][j].from
  BY <1>1, ChunksAre
<1>3. P = [k \in 1 .. K |-> Part(r, Chunks[m][k])]
  BY <1>2 DEF Parts
<1> HIDE DEF P
<1>4. ASSUME NEW k \in 1 .. K
      PROVE  /\ P[k] \in PartSet /\ P[k].n = r.n /\ P[k].kind = "log"
             /\ P[k].from = Chunks[m][k].from
             /\ Genuine(logged, P[k])
  <2> DEFINE c == Chunks[m][k]
  <2>1. ChunkOf(m, c)
    BY <1>2
  <2> HIDE DEF c
  <2>2. P[k] = Part(r, c)
    BY <1>3 DEF c
  <2>3. /\ P[k].n = r.n /\ P[k].ts = r.ts /\ P[k].from = c.from /\ P[k].to = c.to
        /\ P[k].size = c.to - c.from /\ P[k].kind = "log"
    BY <2>2 DEF Part
  <2>4. c.from \in Nat /\ c.to \in Nat /\ c.to - c.from \in 1 .. MaxEventSize
    BY <2>1 DEF ChunkOf
  <2>5. P[k] \in PartSet
    BY <1>1, <2>2, <2>4, Limits DEF Part, PartSet
  <2>6. ChunkOf(m, P[k])
    BY <2>1, <2>3 DEF ChunkOf
  <2>7. Genuine(logged, P[k])
    BY <1>1, <2>3, <2>4, <2>5, <2>6, Limits DEF Genuine
  <2> QED BY <2>3, <2>5, <2>7 DEF c
<1>5. P \in Seq(PartSet) /\ Len(P) = K /\ DOMAIN P = 1 .. K
  BY <1>3, <1>4
<1>6. \A p \in ToSet(P) : \E k \in 1 .. K : p = P[k]
  BY <1>5 DEF ToSet
<1>7. AllGenuine(logged, P)
  BY <1>4, <1>5, <1>6 DEF AllGenuine
<1>8. P # <<>>
  BY <1>5
<1>9. Increasing(P)
  <2>1. ASSUME NEW i \in 1 .. K, NEW j \in 1 .. K, i < j
        PROVE  Lt(P[i], P[j])
    <3>1. Chunks[m][i].from < Chunks[m][j].from
      BY <1>2, <2>1
    <3>2. P[i].n = P[j].n /\ P[i].from < P[j].from
      BY <1>4, <3>1
    <3> QED BY <3>2 DEF Lt
  <2> QED BY <1>5, <2>1 DEF Increasing
<1> QED BY <1>4, <1>6, <1>7, <1>8, <1>9 DEF P

LEMMA BadPrefixIs ==
  ASSUME Types
  PROVE  /\ BadPrefix \in 0 .. Len(raw)
         /\ BadPrefix < Len(raw) => ~ IsBad(raw[BadPrefix + 1])
<1>1. Len(raw) \in Nat /\ DOMAIN raw = 1 .. Len(raw)
  BY DEF Types
<1>2. CASE \A k \in DOMAIN raw : IsBad(raw[k])
  BY <1>1, <1>2 DEF BadPrefix
<1>3. CASE ~ \A k \in DOMAIN raw : IsBad(raw[k])
  <2> DEFINE T == {k \in DOMAIN raw : ~ IsBad(raw[k])}
  <2>1. T \subseteq Nat /\ T # {}
    BY <1>1, <1>3
  <2>2. Min(T) \in T
    <3> HIDE DEF T
    <3> QED BY <2>1, MinIs
  <2>3. BadPrefix = Min(T) - 1
    BY <1>3 DEF BadPrefix
  <2>4. Min(T) \in 1 .. Len(raw) /\ ~ IsBad(raw[Min(T)])
    BY <1>1, <2>2
  <2> HIDE DEF T
  <2>5. BadPrefix + 1 = Min(T)
    BY <1>1, <2>3, <2>4
  <2> QED BY <1>1, <2>3, <2>4, <2>5
<1> QED BY <1>2, <1>3

LEMMA NoticeIs ==
  ASSUME NEW log, NEW n \in 1 .. MaxLogged, n \in 1 .. Len(log), log[n].ts \in 0 .. MaxNow,
         NEW size \in Nat \ {0}
  PROVE  /\ Genuine(log, Notice(n, log[n].ts, size))
         /\ Notice(n, log[n].ts, size) \in PartSet
         /\ Notice(n, log[n].ts, size).kind = "notice"
         /\ Notice(n, log[n].ts, size).n = n
<1> DEFINE x == Notice(n, log[n].ts, size)
<1>2. /\ x.n = n /\ x.ts = log[n].ts /\ x.kind = "notice"
  BY DEF Notice
<1>3. x \in PartSet
  BY DEF Notice, PartSet
<1> HIDE DEF x
<1>4. Genuine(log, x)
  BY <1>2, <1>3 DEF Genuine
<1> QED BY <1>2, <1>3, <1>4 DEF x

LEMMA NoticesAre ==
  ASSUME Types
  PROVE  /\ AllGenuine(logged, Notices)
         /\ \A p \in ToSet(Notices) : p.kind = "notice"
         /\ Ns(Notices) = {raw[k].n : k \in 1 .. BadPrefix}
<1> DEFINE B == BadPrefix
           N == Notices
           X(k) == Notice(raw[k].n, raw[k].ts, NoticeSize[raw[k].n])
           s == [k \in 1 .. B |-> X(k)]
<1>1. B \in 0 .. Len(raw) /\ Len(raw) \in Nat
  BY BadPrefixIs DEF Types
<1> HIDE DEF B
<1>2. ASSUME NEW k \in 1 .. B
      PROVE  /\ Genuine(logged, X(k)) /\ X(k) \in PartSet
             /\ X(k).kind = "notice" /\ X(k).n = raw[k].n
  <2> DEFINE n == raw[k].n
  <2>1. k \in 1 .. Len(raw)
    BY <1>1
  <2>2. raw[k] \in ToSet(raw)
    BY <2>1, IndexOf DEF Types
  <2>3. Known(logged, raw[k])
    BY <2>2 DEF Types
  <2>4. /\ n \in 1 .. MaxLogged /\ n \in 1 .. Len(logged)
        /\ logged[n].ts \in 0 .. MaxNow /\ raw[k].ts = logged[n].ts
        /\ NoticeSize[n] \in Nat \ {0}
    BY <2>3, LogStreamAssumption DEF Known, Records
  <2> DEFINE size == NoticeSize[n]
  <2> HIDE DEF n, size
  <2>5. /\ Genuine(logged, Notice(n, logged[n].ts, size))
        /\ Notice(n, logged[n].ts, size) \in PartSet
        /\ Notice(n, logged[n].ts, size).kind = "notice"
        /\ Notice(n, logged[n].ts, size).n = n
    BY <2>4, NoticeIs DEF size
  <2>6. X(k) = Notice(n, logged[n].ts, size)
    BY <2>4 DEF n, size
  <2> QED BY <2>5, <2>6 DEF n
<1>3. Len(s) = B
  BY <1>1
<1>4. N = [i \in 1 .. B |-> s[(B - i) + 1]]
  <2>1. N = Reverse(s)
    BY DEF Notices, B
  <2> HIDE DEF s, N
  <2> QED BY <1>3, <2>1 DEF Reverse
<1>5. \A i \in 1 .. B : N[i] = X((B - i) + 1) /\ (B - i) + 1 \in 1 .. B
  BY <1>1, <1>4
<1> HIDE DEF N, X, s
<1>6. N \in Seq(PartSet) /\ Len(N) = B /\ DOMAIN N = 1 .. B
  <2>1. \A i \in 1 .. B : N[i] \in PartSet
    BY <1>2, <1>5
  <2>2. N \in [1 .. B -> PartSet] /\ B \in Nat
    BY <1>1, <1>4, <2>1
  <2> QED BY <2>2
<1>7. ASSUME NEW p \in ToSet(N)
      PROVE  \E k \in 1 .. B : p = X(k)
  BY <1>5, <1>6 DEF ToSet
<1>8. ASSUME NEW k \in 1 .. B PROVE X(k) \in ToSet(N)
  <2>1. (B - k) + 1 \in 1 .. B /\ (B - ((B - k) + 1)) + 1 = k
    BY <1>1
  <2>2. N[(B - k) + 1] = X(k)
    BY <1>5, <2>1
  <2> QED BY <1>6, <2>1, <2>2 DEF ToSet
<1>9. AllGenuine(logged, N)
  BY <1>2, <1>6, <1>7 DEF AllGenuine
<1>10. \A p \in ToSet(N) : p.kind = "notice"
  BY <1>2, <1>7
<1>11. Ns(N) = {raw[k].n : k \in 1 .. B}
  <2>1. \A p \in ToSet(N) : \E k \in 1 .. B : p.n = raw[k].n
    BY <1>2, <1>7
  <2>2. \A k \in 1 .. B : \E p \in ToSet(N) : p.n = raw[k].n
    BY <1>2, <1>8
  <2> QED BY <2>1, <2>2 DEF Ns
<1> QED BY <1>9, <1>10, <1>11 DEF N, B

\* An event, and what is left in the queues without it.
Taken(e, left, rest) ==
  /\ e \in PartSet /\ Genuine(logged, e)
  /\ AllGenuine(logged, left)
  /\ rest \in Seq(Records) /\ ToSet(rest) \subseteq ToSet(raw)
  /\ Increasing(left) /\ InOrder(rest)
  /\ AheadOfRecords(Logs(left), ToSet(rest))
  /\ e.kind = "log" => /\ \A q \in Logs(left) : Lt(e, q)
                       /\ \A r \in ToSet(rest) : e.n < r.n
  /\ \A p \in {e} \union ToSet(left) : p \in ToSet(parts) \/ p.n \in Ns(raw)
  /\ {e.n} \union Ns(left) \union Ns(rest) = Ns(parts) \union Ns(raw)

LEMMA TakingAPart ==
  ASSUME Types, Order, parts # <<>>
  PROVE  Taken(Head(parts), Tail(parts), raw)
<1> DEFINE e == Head(parts)
           left == Tail(parts)
<1>1. parts \in Seq(PartSet) /\ \A p \in ToSet(parts) : Genuine(logged, p)
  BY DEF Types, AllGenuine
<1>2. /\ e \in PartSet /\ left \in Seq(PartSet)
      /\ ToSet(parts) = {e} \union ToSet(left)
  BY <1>1, InTail
<1>3. /\ Increasing(left)
      /\ e.kind = "log" => \A q \in Logs(left) : Lt(e, q)
  BY <1>1, IncreasingTail DEF Order
<1> HIDE DEF e, left
<1>4. Genuine(logged, e) /\ AllGenuine(logged, left)
  BY <1>1, <1>2 DEF AllGenuine
<1>5. raw \in Seq(Records) /\ InOrder(raw)
  BY DEF Types, Order
<1>6. \A p \in ToSet(parts), r \in ToSet(raw) : p.kind = "log" => p.n < r.n
  BY DEF Order, AheadOfRecords, Logs
<1>7. AheadOfRecords(Logs(left), ToSet(raw))
  BY <1>2, <1>6 DEF AheadOfRecords, Logs
<1>8. {e.n} \union Ns(left) \union Ns(raw) = Ns(parts) \union Ns(raw)
  BY <1>2 DEF Ns
<1>9. Taken(e, left, raw)
  BY <1>2, <1>3, <1>4, <1>5, <1>6, <1>7, <1>8 DEF Taken
<1> QED BY <1>9 DEF e, left

LEMMA TakingARecord ==
  ASSUME Types, Order, parts = <<>>, BadPrefix # Len(raw)
  PROVE  Taken(Head(Parts(raw[BadPrefix + 1])),
               Notices \o Tail(Parts(raw[BadPrefix + 1])),
               SubSeq(raw, BadPrefix + 2, Len(raw)))
<1> DEFINE B == BadPrefix
           n == Len(raw)
           r == raw[B + 1]
           P == Parts(r)
           e == Head(P)
           N == Notices
           t == Tail(P)
           left == N \o t
           rest == SubSeq(raw, B + 2, n)
<1>1. /\ B \in 0 .. n /\ n \in Nat /\ B < n /\ ~ IsBad(r) /\ B + 1 \in 1 .. n
  <2>1. B \in 0 .. n /\ (B < n => ~ IsBad(r)) /\ n \in Nat
    BY BadPrefixIs DEF Types
  <2> QED BY <2>1
<1>2. /\ raw \in Seq(Records) /\ InOrder(raw)
      /\ \A k \in 1 .. n : raw[k] \in Records /\ raw[k] \in ToSet(raw)
                           /\ raw[k].n \in Nat /\ Known(logged, raw[k])
  <2>1. raw \in Seq(Records) /\ InOrder(raw)
    BY DEF Types, Order
  <2>2. \A k \in 1 .. n : raw[k] \in Records /\ raw[k] \in ToSet(raw)
    BY <2>1, IndexOf
  <2>3. \A k \in 1 .. n : Known(logged, raw[k])
    BY <2>2 DEF Types
  <2>4. \A x \in Records : x.n \in Nat
    BY LogStreamAssumption DEF Records
  <2> QED BY <2>1, <2>2, <2>3, <2>4
<1>3. Known(logged, r) /\ r \in ToSet(raw)
  BY <1>1, <1>2
<1>4. /\ AllGenuine(logged, N) /\ \A p \in ToSet(N) : p.kind = "notice"
      /\ Ns(N) = {raw[k].n : k \in 1 .. B}
  BY NoticesAre
<1> HIDE DEF B, n, r, N
<1>5. /\ AllGenuine(logged, P) /\ P # <<>>
      /\ \A p \in ToSet(P) : p.n = r.n /\ p.kind = "log"
      /\ Increasing(P)
  BY <1>1, <1>3, PartsAre
<1> HIDE DEF P
<1>6. P \in Seq(PartSet) /\ \A p \in ToSet(P) : Genuine(logged, p)
  BY <1>5 DEF AllGenuine
<1>7. e \in PartSet /\ t \in Seq(PartSet) /\ ToSet(P) = {e} \union ToSet(t)
  BY <1>5, <1>6, InTail
<1>8. Increasing(t) /\ (e.kind = "log" => \A q \in Logs(t) : Lt(e, q))
  BY <1>5, <1>6, IncreasingTail
<1> HIDE DEF e, t
<1>9. N \in Seq(PartSet) /\ \A p \in ToSet(N) : Genuine(logged, p)
  BY <1>4 DEF AllGenuine
<1>10. Increasing(N) /\ Logs(N) = {}
  BY <1>4, <1>9, NoLogs
<1>11. left \in Seq(PartSet) /\ ToSet(left) = ToSet(N) \union ToSet(t)
  BY <1>7, <1>9, InConcat
<1>12. Increasing(left)
  <2>1. Ahead(Logs(N), Logs(t))
    BY <1>10 DEF Ahead
  <2> QED BY <1>7, <1>8, <1>9, <1>10, <2>1, IncreasingConcat
<1> HIDE DEF left
<1>13. Logs(left) = Logs(t)
  BY <1>10, <1>11 DEF Logs
<1>14. Genuine(logged, e) /\ AllGenuine(logged, left)
  BY <1>6, <1>7, <1>9, <1>11 DEF AllGenuine
<1>15. /\ rest \in Seq(Records) /\ Len(rest) = n - (B + 1)
       /\ DOMAIN rest = 1 .. n - (B + 1)
       /\ \A i \in 1 .. n - (B + 1) :
            /\ rest[i] = raw[i + (B + 1)] /\ i + (B + 1) \in 1 .. n /\ i + (B + 1) > B + 1
  <2>1. B + 2 \in 1 .. n + 1 /\ n \in Nat /\ raw \in Seq(Records) /\ n = Len(raw)
    BY <1>1, <1>2 DEF n
  <2>2. rest \in Seq(Records) /\ Len(rest) = n - (B + 1)
    BY <1>1, <2>1
  <2>3. \A i \in 1 .. n - (B + 1) : i + (B + 1) \in 1 .. n /\ i + (B + 1) > B + 1
    BY <1>1
  <2>4. \A i \in 1 .. n - (B + 1) : rest[i] = raw[i + (B + 1)]
    BY <1>1, <2>1
  <2>5. DOMAIN rest = 1 .. n - (B + 1)
    BY <2>2
  <2> QED BY <2>2, <2>3, <2>4, <2>5
<1> HIDE DEF rest
<1>16. ToSet(rest) \subseteq ToSet(raw)
  BY <1>2, <1>15 DEF ToSet
<1>17. \A k, l \in 1 .. n : k < l => raw[k].n < raw[l].n
  BY <1>2 DEF InOrder, n
<1>18. InOrder(rest)
  <2>1. ASSUME NEW i \in 1 .. n - (B + 1), NEW j \in 1 .. n - (B + 1), i < j
        PROVE  rest[i].n < rest[j].n
    <3>1. i + (B + 1) < j + (B + 1)
      BY <1>1, <2>1
    <3> QED BY <1>15, <1>17, <3>1
  <2> QED BY <1>15, <2>1 DEF InOrder
<1>19. \A x \in ToSet(rest) : r.n < x.n
  <2>1. ASSUME NEW i \in 1 .. n - (B + 1) PROVE r.n < rest[i].n
    <3>1. i + (B + 1) \in 1 .. n /\ B + 1 < i + (B + 1)
      BY <1>1, <1>15
    <3>2. raw[B + 1].n < raw[i + (B + 1)].n
      BY <1>1, <1>17, <3>1
    <3> QED BY <1>15, <3>2 DEF r
  <2> QED BY <1>15, <2>1 DEF ToSet
<1>20. e.n = r.n /\ \A q \in ToSet(t) : q.n = r.n
  BY <1>5, <1>7
<1>21. AheadOfRecords(Logs(left), ToSet(rest))
  BY <1>13, <1>19, <1>20 DEF AheadOfRecords, Logs
<1>22. {e.n} \union Ns(left) \union Ns(rest) = Ns(parts) \union Ns(raw)
  <2>1. Ns(parts) = {}
    BY DEF Ns, ToSet
  <2>2. Ns(raw) = {raw[k].n : k \in 1 .. n}
    BY <1>2 DEF Ns, ToSet, n
  <2>3. Ns(left) = Ns(N) \union Ns(t)
    BY <1>11 DEF Ns
  <2>4. Ns(t) \subseteq {r.n}
    BY <1>20 DEF Ns
  <2>5. Ns(rest) = {raw[k].n : k \in B + 2 .. n}
    <3>1. ASSUME NEW i \in 1 .. n - (B + 1) PROVE i + (B + 1) \in B + 2 .. n
      BY <1>1
    <3>2. Ns(rest) \subseteq {raw[k].n : k \in B + 2 .. n}
      BY <1>15, <3>1 DEF Ns, ToSet
    <3>3. ASSUME NEW k \in B + 2 .. n PROVE raw[k].n \in Ns(rest)
      <4>1. k - (B + 1) \in 1 .. n - (B + 1) /\ (k - (B + 1)) + (B + 1) = k
        BY <1>1
      <4>2. rest[k - (B + 1)] = raw[k]
        BY <1>15, <4>1
      <4>3. raw[k] \in ToSet(rest)
        BY <1>15, <4>1, <4>2 DEF ToSet
      <4> QED BY <4>3 DEF Ns
    <3> QED BY <3>2, <3>3
  <2>6. \A k \in 1 .. n : k \in 1 .. B \/ k = B + 1 \/ k \in B + 2 .. n
    BY <1>1
  <2>7. Ns(N) \subseteq Ns(raw) /\ Ns(rest) \subseteq Ns(raw) /\ r.n \in Ns(raw)
    <3>1. \A k \in 1 .. B : k \in 1 .. n
      BY <1>1
    <3>2. \A k \in B + 2 .. n : k \in 1 .. n
      BY <1>1
    <3> QED BY <1>1, <1>4, <2>2, <2>5, <3>1, <3>2 DEF r
  <2>8. Ns(raw) \subseteq {e.n} \union Ns(left) \union Ns(rest)
    <3>1. ASSUME NEW k \in 1 .. n PROVE raw[k].n \in {e.n} \union Ns(left) \union Ns(rest)
      <4>1. CASE k \in 1 .. B
        BY <1>4, <2>3, <4>1
      <4>2. CASE k = B + 1
        BY <1>20, <4>2 DEF r
      <4>3. CASE k \in B + 2 .. n
        BY <2>5, <4>3
      <4> QED BY <2>6, <4>1, <4>2, <4>3
    <3> QED BY <2>2, <3>1
  <2> QED BY <1>20, <2>1, <2>3, <2>4, <2>7, <2>8
<1>23. \A p \in {e} \union ToSet(left) : p.n \in Ns(raw)
  <2>1. Ns(parts) = {}
    BY DEF Ns, ToSet
  <2>2. {e.n} \union Ns(left) \subseteq Ns(raw)
    BY <1>22, <2>1
  <2> QED BY <2>2 DEF Ns
<1>24. Taken(e, left, rest)
  <2>1. e.kind = "log" => /\ \A q \in Logs(left) : Lt(e, q)
                          /\ \A x \in ToSet(rest) : e.n < x.n
    BY <1>8, <1>13, <1>19, <1>20
  <2> QED BY <1>7, <1>12, <1>14, <1>15, <1>16, <1>18, <1>21, <1>22, <1>23, <2>1 DEF Taken
<1> QED BY <1>24 DEF e, left, rest, N, t, P, r, B, n

LEMMA Taking ==
  ASSUME Types, Order, ~ NoNext
  PROVE  Taken(NextPart, PartsLeft, RawLeft)
<1>1. CASE parts # <<>>
  <2>1. NextPart = Head(parts) /\ PartsLeft = Tail(parts) /\ RawLeft = raw
    BY <1>1 DEF NextPart, PartsLeft, RawLeft
  <2> QED BY <1>1, <2>1, TakingAPart
<1>2. CASE parts = <<>>
  <2>1. BadPrefix # Len(raw)
    BY <1>2 DEF NoNext
  <2>2. /\ NextPart = Head(Parts(raw[BadPrefix + 1]))
        /\ PartsLeft = Notices \o Tail(Parts(raw[BadPrefix + 1]))
        /\ RawLeft = SubSeq(raw, BadPrefix + 2, Len(raw))
    BY <1>2 DEF NextPart, PartsLeft, RawLeft
  <2> QED BY <1>2, <2>1, <2>2, TakingARecord
<1> QED BY <1>1, <1>2

LEMMA TakenBehind ==
  ASSUME NEW e, NEW left, NEW rest, Taken(e, left, rest),
         NEW P, Ahead(P, Logs(parts)), AheadOfRecords(P, ToSet(raw))
  PROVE  /\ e.kind = "log" => \A p \in P : Lt(p, e)
         /\ Ahead(P, Logs(left))
         /\ AheadOfRecords(P, ToSet(rest))
<1>1. ASSUME NEW p \in P, NEW q \in {e} \union ToSet(left), q.kind = "log"
      PROVE  Lt(p, q)
  <2>1. CASE q \in ToSet(parts)
    BY <1>1, <2>1 DEF Ahead, Logs
  <2>2. CASE q.n \in Ns(raw)
    <3>1. PICK r \in ToSet(raw) : q.n = r.n
      BY <2>2 DEF Ns
    <3> QED BY <3>1 DEF AheadOfRecords, Lt
  <2> QED BY <2>1, <2>2 DEF Taken
<1>2. Ahead(P, Logs(left))
  BY <1>1 DEF Ahead, Logs
<1>3. AheadOfRecords(P, ToSet(rest))
  BY DEF AheadOfRecords, Taken
<1> QED BY <1>1, <1>2, <1>3

LEMMA TakenBefore ==
  ASSUME NEW e, NEW left, NEW rest, Taken(e, left, rest),
         NEW n, Before(parts, n), Before(raw, n)
  PROVE  e.n < n /\ Before(left, n) /\ Before(rest, n)
<1>1. ASSUME NEW q \in {e} \union ToSet(left) PROVE q.n < n
  <2>1. CASE q \in ToSet(parts)
    BY <2>1 DEF Before
  <2>2. CASE q.n \in Ns(raw)
    BY <2>2 DEF Ns, Before
  <2> QED BY <2>1, <2>2 DEF Taken
<1>2. Before(rest, n)
  BY DEF Before, Taken
<1> QED BY <1>1, <1>2 DEF Before

\* The queue when the event, or a notice in its place, is put back first.
LEMMA PutBack ==
  ASSUME NEW e, NEW left, NEW rest, Taken(e, left, rest),
         NEW x, x \in PartSet, Genuine(logged, x), x.n = e.n, x = e \/ x.kind = "notice"
  PROVE  /\ AllGenuine(logged, <<x>> \o left)
         /\ ToSet(<<x>> \o left) = {x} \union ToSet(left)
         /\ Increasing(<<x>> \o left)
         /\ AheadOfRecords(Logs(<<x>> \o left), ToSet(rest))
<1> DEFINE s == <<x>>
           c == s \o left
<1>1. left \in Seq(PartSet) /\ \A p \in ToSet(left) : Genuine(logged, p)
  BY DEF Taken, AllGenuine
<1>2. s \in Seq(PartSet) /\ ToSet(s) = {x} /\ Len(s) = 1
  BY DEF ToSet
<1> HIDE DEF s
<1>3. c \in Seq(PartSet) /\ ToSet(c) = {x} \union ToSet(left)
  BY <1>1, <1>2, InConcat
<1>4. Ahead(Logs(s), Logs(left))
  BY <1>2 DEF Ahead, Logs, Taken
<1>5. Increasing(s)
  BY <1>2 DEF Increasing
<1>6. Increasing(left)
  BY DEF Taken
<1>7. Increasing(c)
  BY <1>1, <1>2, <1>4, <1>5, <1>6, IncreasingConcat
<1> HIDE DEF c
<1>8. AllGenuine(logged, c)
  BY <1>1, <1>3 DEF AllGenuine
<1>9. AheadOfRecords(Logs(c), ToSet(rest))
  BY <1>3 DEF AheadOfRecords, Logs, Taken
<1> QED BY <1>3, <1>7, <1>8, <1>9 DEF c, s

LEMMA FirstIs ==
  ASSUME NEW T, NEW s \in Seq(T), NEW x \in ToSet(s)
  PROVE  /\ FirstIn(s, x) \in 1 .. Len(s)
         /\ s[FirstIn(s, x)] = x
         /\ \A k \in 1 .. Len(s) : s[k] = x => FirstIn(s, x) <= k
<1> DEFINE K == {k \in DOMAIN s : s[k] = x}
<1>1. DOMAIN s = 1 .. Len(s) /\ Len(s) \in Nat
  OBVIOUS
<1>2. K \subseteq Nat /\ K # {}
  BY <1>1 DEF ToSet
<1>3. Min(K) \in K /\ \A k \in K : Min(K) <= k
  <2> HIDE DEF K
  <2> QED BY <1>2, MinIs
<1>4. FirstIn(s, x) = Min(K)
  BY DEF FirstIn
<1> QED BY <1>1, <1>3, <1>4

LEMMA FirstInConcat ==
  ASSUME NEW T, NEW s \in Seq(T), NEW t \in Seq(T), NEW x
  PROVE  /\ x \in ToSet(s) => FirstIn(s \o t, x) = FirstIn(s, x)
         /\ x \in ToSet(t) /\ x \notin ToSet(s) =>
              /\ FirstIn(s \o t, x) > Len(s)
              /\ FirstIn(s \o t, x) - Len(s) \in 1 .. Len(t)
              /\ t[FirstIn(s \o t, x) - Len(s)] = x
              /\ \A k \in 1 .. Len(t) : t[k] = x => FirstIn(s \o t, x) <= Len(s) + k
<1> DEFINE m == Len(s)
           n == Len(t)
           c == s \o t
           f == FirstIn(c, x)
<1>1. /\ m \in Nat /\ n \in Nat /\ Len(c) = m + n
      /\ DOMAIN s = 1 .. m /\ DOMAIN t = 1 .. n
      /\ \A k \in 1 .. m : c[k] = s[k]
      /\ \A k \in m + 1 .. m + n : c[k] = t[k - m]
  OBVIOUS
<1>2. c \in Seq(T) /\ ToSet(c) = ToSet(s) \union ToSet(t)
  BY InConcat
<1> HIDE DEF c
<1>3. ASSUME x \in ToSet(c)
      PROVE  f \in 1 .. m + n /\ c[f] = x /\ \A k \in 1 .. m + n : c[k] = x => f <= k
  BY <1>1, <1>2, <1>3, FirstIs
<1> HIDE DEF m, n, f
<1>4. ASSUME x \in ToSet(s) PROVE f = FirstIn(s, x)
  <2> DEFINE g == FirstIn(s, x)
  <2>1. g \in 1 .. m /\ s[g] = x /\ \A k \in 1 .. m : s[k] = x => g <= k
    BY <1>4, FirstIs DEF m
  <2> HIDE DEF g
  <2>2. g \in 1 .. m + n /\ c[g] = x
    BY <1>1, <2>1
  <2>3. f \in 1 .. m + n /\ c[f] = x /\ f <= g
    BY <1>2, <1>3, <1>4, <2>2
  <2>4. f \in 1 .. m
    BY <1>1, <2>1, <2>3
  <2>5. g <= f
    BY <1>1, <2>1, <2>3, <2>4
  <2>6. f = g
    BY <1>1, <2>1, <2>3, <2>5
  <2> QED BY <2>6 DEF g
<1>5. ASSUME x \in ToSet(t), x \notin ToSet(s)
      PROVE  /\ f > m /\ f - m \in 1 .. n /\ t[f - m] = x
             /\ \A k \in 1 .. n : t[k] = x => f <= m + k
  <2>1. f \in 1 .. m + n /\ c[f] = x /\ \A k \in 1 .. m + n : c[k] = x => f <= k
    BY <1>2, <1>3, <1>5
  <2>2. f \notin 1 .. m
    <3>1. SUFFICES ASSUME f \in 1 .. m PROVE FALSE
      OBVIOUS
    <3>2. s[f] = x
      BY <1>1, <2>1, <3>1
    <3> QED BY <1>1, <1>5, <3>1, <3>2 DEF ToSet
  <2>3. f > m /\ f \in m + 1 .. m + n /\ f - m \in 1 .. n
    BY <1>1, <2>1, <2>2
  <2>4. t[f - m] = x
    BY <1>1, <2>1, <2>3
  <2>5. ASSUME NEW k \in 1 .. n, t[k] = x PROVE f <= m + k
    <3>1. m + k \in m + 1 .. m + n /\ (m + k) - m = k /\ m + k \in 1 .. m + n
      BY <1>1
    <3>2. c[m + k] = x
      BY <1>1, <2>5, <3>1
    <3> QED BY <2>1, <3>1, <3>2
  <2> QED BY <2>3, <2>4, <2>5
<1> QED BY <1>4, <1>5 DEF c, f, m, n

\* A batch that is stored keeps the order, and one that is stored again too.
LEMMA StoringKeeps ==
  ASSUME NEW s \in Seq(PartSet), NEW b \in Seq(PartSet), Kept(s), Stable(b),
         Ahead(Logs(s), Logs(b)) \/ ToSet(b) \subseteq ToSet(s)
  PROVE  Kept(s \o b)
<1> DEFINE c == s \o b
<1>1. c \in Seq(PartSet) /\ ToSet(c) = ToSet(s) \union ToSet(b)
  BY InConcat
<1>2. \A x : /\ x \in ToSet(s) => FirstIn(c, x) = FirstIn(s, x)
             /\ x \in ToSet(b) /\ x \notin ToSet(s) =>
                  /\ FirstIn(c, x) > Len(s)
                  /\ FirstIn(c, x) - Len(s) \in 1 .. Len(b)
                  /\ b[FirstIn(c, x) - Len(s)] = x
                  /\ \A k \in 1 .. Len(b) : b[k] = x => FirstIn(c, x) <= Len(s) + k
  BY FirstInConcat
<1>3. \A x \in ToSet(s) : FirstIn(s, x) \in 1 .. Len(s)
  BY FirstIs
<1>4. \A x \in ToSet(c) : x.n \in Nat /\ x.from \in Nat /\ x.ts \in Nat
  BY <1>1, IndexOf, PartFields
<1> HIDE DEF c
<1>7. \A x \in ToSet(c) : FirstIn(c, x) \in Nat
  BY <1>1, FirstIs
<1>5. ASSUME NEW p \in ToSet(c), NEW q \in ToSet(c), p.kind = "log", q.kind = "log",
             Lt(p, q), p.ts <= q.ts
      PROVE  FirstIn(c, p) < FirstIn(c, q)
  <2>1. CASE p \in ToSet(s) /\ q \in ToSet(s)
    BY <1>2, <1>5, <2>1 DEF Kept, Logs
  <2>2. CASE p \in ToSet(s) /\ q \notin ToSet(s)
    <3>1. FirstIn(c, p) \in 1 .. Len(s)
      BY <1>2, <1>3, <2>2
    <3>2. q \in ToSet(b)
      BY <1>1, <2>2
    <3>3. FirstIn(c, q) > Len(s) /\ FirstIn(c, q) - Len(s) \in 1 .. Len(b)
      BY <1>2, <2>2, <3>2
    <3>4. Len(s) \in Nat /\ Len(b) \in Nat
      OBVIOUS
    <3> QED BY <1>7, <3>1, <3>3, <3>4
  <2>3. CASE p \notin ToSet(s) /\ q \in ToSet(s)
    <3>1. p \in ToSet(b)
      BY <1>1, <2>3
    <3>2. Ahead(Logs(s), Logs(b))
      BY <2>3, <3>1
    <3>3. Lt(q, p)
      BY <1>5, <2>3, <3>1, <3>2 DEF Ahead, Logs
    <3> QED BY <1>4, <1>5, <3>3 DEF Lt
  <2>4. CASE p \notin ToSet(s) /\ q \notin ToSet(s)
    <3> DEFINE i == FirstIn(c, p) - Len(s)
               j == FirstIn(c, q) - Len(s)
    <3>1. p \in ToSet(b) /\ q \in ToSet(b)
      BY <1>1, <2>4
    <3>2. /\ i \in 1 .. Len(b) /\ b[i] = p /\ j \in 1 .. Len(b) /\ b[j] = q
      BY <1>2, <2>4, <3>1
    <3> HIDE DEF i, j
    <3>3. i < j
      BY <1>5, <3>2 DEF Stable
    <3>4. /\ Len(s) \in Nat /\ i \in Nat /\ j \in Nat
          /\ FirstIn(c, p) \in Nat /\ FirstIn(c, q) \in Nat
      BY <1>7, <3>2
    <3>5. FirstIn(c, p) = Len(s) + i /\ FirstIn(c, q) = Len(s) + j
      BY <3>4 DEF i, j
    <3> QED BY <3>3, <3>4, <3>5
  <2> QED BY <2>1, <2>2, <2>3, <2>4
<1>6. Kept(c)
  BY <1>5 DEF Kept, Logs
<1> QED BY <1>6 DEF c

(***************************************************************************)
(* Every step keeps the invariant.                                         *)
(***************************************************************************)
LEMMA AcceptedIs ==
  /\ Accepted = Ns(raw) \union Ns(parts) \union Ns(batch)
  /\ Accepted' = Ns(raw') \union Ns(parts') \union Ns(batch')
  BY DEF Accepted, Ns, ToSet

LEMMA EmptyIs ==
  /\ <<>> \in Seq(PartSet) /\ <<>> \in Seq(Records)
  /\ ToSet(<<>>) = {} /\ Logs(<<>>) = {} /\ Ns(<<>>) = {}
  /\ Increasing(<<>>) /\ InOrder(<<>>) /\ Fits(<<>>) /\ Kept(<<>>)
<1>1. ToSet(<<>>) = {}
  BY DEF ToSet
<1>2. Fits(<<>>)
  BY <1>1, SizeOfNothing, Limits DEF Fits
<1>3. Logs(<<>>) = {} /\ Ns(<<>>) = {}
  BY <1>1 DEF Logs, Ns
<1> QED BY <1>1, <1>2, <1>3 DEF Increasing, InOrder, Kept

LEMMA Starts0 == Init => IInv
<1> SUFFICES ASSUME Init PROVE IInv
  OBVIOUS
<1>1. /\ now \in 0 .. MaxNow /\ ticks = 0 /\ logged = <<>>
      /\ emitting = [t \in Loggers |-> None] /\ Waiting = {}
      /\ raw = <<>> /\ parts = <<>> /\ pc = "run" /\ batch = <<>>
      /\ tries = Retries /\ handler = "open" /\ stored = <<>>
      /\ settled = {} /\ afterStop = {}
  BY DEF Init, Waiting
<1>2. Types
  <2>1. AllGenuine(logged, parts) /\ AllGenuine(logged, batch) /\ AllGenuine(logged, stored)
    BY <1>1, EmptyIs DEF AllGenuine
  <2>2. Cardinality(Waiting) + Len(logged) <= MaxLogged
    BY <1>1, FS_EmptySet, Limits
  <2> QED BY <1>1, <2>1, <2>2, EmptyIs, Limits DEF Types
<1>3. Batches
  BY <1>1 DEF Batches
<1>4. Order
  BY <1>1, EmptyIs DEF Order, Ahead, AheadOfRecords
<1>5. Flow
  BY <1>1 DEF Flow
<1> QED BY <1>2, <1>3, <1>4, <1>5 DEF IInv

LEMMA LogGrows ==
  ASSUME NEW log \in Seq(Records), NEW x \in Records
  PROVE  /\ \A r : Known(log, r) => Known(Append(log, x), r)
         /\ \A s : AllGenuine(log, s) => AllGenuine(Append(log, x), s)
<1> DEFINE new == Append(log, x)
<1>1. /\ Len(log) \in Nat /\ Len(new) = Len(log) + 1
      /\ \A k \in 1 .. Len(log) : new[k] = log[k] /\ k \in 1 .. Len(new)
  OBVIOUS
<1> HIDE DEF new
<1>2. \A r : Known(log, r) => Known(new, r)
  BY <1>1 DEF Known
<1>3. \A p : Genuine(log, p) => Genuine(new, p)
  BY <1>1 DEF Genuine
<1>4. \A s : AllGenuine(log, s) => AllGenuine(new, s)
  BY <1>3 DEF AllGenuine
<1> QED BY <1>2, <1>4 DEF new

LEMMA KnownBefore ==
  ASSUME Types
  PROVE  /\ Before(raw, Len(logged) + 1) /\ Before(parts, Len(logged) + 1)
         /\ Before(batch, Len(logged) + 1) /\ Before(stored, Len(logged) + 1)
<1>1. Len(logged) \in Nat
  BY DEF Types
<1>2. \A r \in ToSet(raw) : r.n \in 1 .. Len(logged)
  BY DEF Types, Known
<1>3. \A s : AllGenuine(logged, s) => \A p \in ToSet(s) : p.n \in 1 .. Len(logged)
  BY DEF AllGenuine, Genuine
<1>4. \A s : AllGenuine(logged, s) => Before(s, Len(logged) + 1)
  BY <1>1, <1>3 DEF Before
<1> QED BY <1>1, <1>2, <1>4 DEF Before, Types

\* How many threads are about to append, of the bound on all records.
LEMMA WaitingIs ==
  /\ IsFiniteSet(Waiting) /\ Cardinality(Waiting) \in Nat
  /\ \A t \in Loggers : /\ IsFiniteSet(Waiting \union {t})
                        /\ Cardinality(Waiting \union {t}) <= Cardinality(Waiting) + 1
                        /\ t \in Waiting =>
                             Cardinality(Waiting \ {t}) = Cardinality(Waiting) - 1
<1>1. IsFiniteSet(Waiting)
  BY FS_Subset, LogStreamAssumption DEF Waiting
<1>2. Cardinality(Waiting) \in Nat
  BY <1>1, FS_CardinalityType
<1>3. ASSUME NEW t \in Loggers
      PROVE  /\ IsFiniteSet(Waiting \union {t})
             /\ Cardinality(Waiting \union {t}) <= Cardinality(Waiting) + 1
             /\ t \in Waiting => Cardinality(Waiting \ {t}) = Cardinality(Waiting) - 1
  <2>1. /\ IsFiniteSet(Waiting \union {t})
        /\ \/ Cardinality(Waiting \union {t}) = Cardinality(Waiting)
           \/ Cardinality(Waiting \union {t}) = Cardinality(Waiting) + 1
    BY <1>1, FS_AddElement
  <2>2. t \in Waiting => Cardinality(Waiting \ {t}) = Cardinality(Waiting) - 1
    BY <1>1, FS_RemoveElement
  <2> QED BY <1>2, <2>1, <2>2
<1> QED BY <1>1, <1>2, <1>3

LEMMA RecordKeeps ==
  ASSUME IInv, NEW t \in Loggers, Record(t)
  PROVE  IInv'
<1>1. /\ Cardinality(Waiting) + Len(logged) < MaxLogged
      /\ logged' = logged
      /\ now' = now /\ ticks' = ticks /\ raw' = raw /\ parts' = parts /\ pc' = pc
      /\ batch' = batch /\ tries' = tries /\ handler' = handler /\ stored' = stored
      /\ settled' = settled /\ afterStop' = afterStop
  BY DEF Record
<1>2. Types /\ Batches /\ Order /\ Flow /\ Len(logged) \in Nat
  BY DEF IInv, Types
<1>3. PICK m \in Messages :
        emitting' = [emitting EXCEPT ![t] =
                      [ts |-> now, text |-> IF m = Malformed THEN m ELSE Padded(m)]]
  BY DEF Record
<1> DEFINE x == [ts |-> now, text |-> IF m = Malformed THEN m ELSE Padded(m)]
<1>4. x \in Contents
  <2>1. (IF m = Malformed THEN m ELSE Padded(m)) \in Texts \union {Malformed}
    BY DEF Texts
  <2>2. now \in 0 .. MaxNow
    BY <1>2 DEF Types
  <2> QED BY <2>1, <2>2 DEF Contents
<1>5. emitting' = [emitting EXCEPT ![t] = x]
  BY <1>3
<1> HIDE DEF x
<1>6. emitting' \in [Loggers -> Contents \union {None}]
  BY <1>2, <1>4, <1>5 DEF Types
<1>7. Cardinality(Waiting') + Len(logged') <= MaxLogged
  <2>1. Waiting' \subseteq Waiting \union {t}
    BY <1>2, <1>5 DEF Waiting, Types
  <2>2. Cardinality(Waiting') <= Cardinality(Waiting \union {t})
        /\ Cardinality(Waiting') \in Nat /\ Cardinality(Waiting \union {t}) \in Nat
    <3> DEFINE S == Waiting \union {t}
               T == Waiting'
    <3>1. IsFiniteSet(S) /\ T \subseteq S
      BY <2>1, WaitingIs
    <3> HIDE DEF S, T
    <3>2. Cardinality(T) <= Cardinality(S) /\ IsFiniteSet(T)
      BY <3>1, FS_Subset
    <3>3. Cardinality(T) \in Nat /\ Cardinality(S) \in Nat
      BY <3>1, <3>2, FS_CardinalityType
    <3> QED BY <3>2, <3>3 DEF S, T
  <2>3. Cardinality(Waiting \union {t}) <= Cardinality(Waiting) + 1
        /\ Cardinality(Waiting) \in Nat
    BY WaitingIs
  <2> QED BY <1>1, <1>2, <2>2, <2>3, Limits
<1>8. Types'
  BY <1>1, <1>2, <1>6, <1>7 DEF Types
<1>9. Batches' /\ Order'
  BY <1>1, <1>2 DEF Batches, Order
<1>10. Flow'
  BY <1>1, <1>2, AcceptedIs DEF Flow, Stopping
<1> QED BY <1>8, <1>9, <1>10 DEF IInv

\* A record is numbered, and appended to both logs.
LEMMA Emitted ==
  ASSUME IInv, NEW t \in Loggers, Emit(t)
  PROVE  \E x \in Records :
           /\ x.n = Len(logged) + 1
           /\ logged' = Append(logged, x) /\ raw' = Append(raw, x)
           /\ afterStop' = afterStop \union (IF Stopping THEN {x.n} ELSE {})
           /\ emitting' = [emitting EXCEPT ![t] = None]
           /\ Cardinality(Waiting') + Len(logged') <= MaxLogged
           /\ now' = now /\ ticks' = ticks /\ parts' = parts /\ pc' = pc
           /\ batch' = batch /\ tries' = tries /\ handler' = handler /\ stored' = stored
           /\ settled' = settled
<1> DEFINE L == Len(logged)
           x == [n |-> L + 1, ts |-> emitting[t].ts, text |-> emitting[t].text]
<1>1. Types /\ L \in Nat /\ emitting \in [Loggers -> Contents \union {None}]
      /\ logged \in Seq(Records)
  BY DEF IInv, Types
<1>2. /\ emitting[t] # None /\ emitting' = [emitting EXCEPT ![t] = None]
      /\ logged' = Append(logged, x) /\ raw' = Append(raw, x)
      /\ afterStop' = afterStop \union (IF Stopping THEN {x.n} ELSE {})
      /\ now' = now /\ ticks' = ticks /\ parts' = parts /\ pc' = pc
      /\ batch' = batch /\ tries' = tries /\ handler' = handler /\ stored' = stored
      /\ settled' = settled
  BY DEF Emit
<1>3. Waiting' = Waiting \ {t} /\ t \in Waiting
  BY <1>1, <1>2 DEF Waiting
<1>4. /\ Cardinality(Waiting') = Cardinality(Waiting) - 1
      /\ Cardinality(Waiting) \in Nat
  BY <1>3, WaitingIs
<1>5. Cardinality(Waiting') \in Nat
  <2>1. IsFiniteSet(Waiting \ {t})
    BY WaitingIs, FS_Subset
  <2> QED BY <1>3, <2>1, FS_CardinalityType
<1>6. Cardinality(Waiting) + L <= MaxLogged
  BY <1>1 DEF Types
<1>7. L + 1 \in 1 .. MaxLogged
  BY <1>1, <1>4, <1>5, <1>6, Limits
<1>8. emitting[t] \in Contents
  BY <1>1, <1>2
<1> HIDE DEF L
<1>9. x \in Records /\ x.n = L + 1
  BY <1>7, <1>8 DEF Contents, Records
<1> HIDE DEF x
<1>10. Len(logged') = L + 1
  BY <1>1, <1>2, <1>9 DEF L
<1>11. Cardinality(Waiting') + Len(logged') <= MaxLogged
  BY <1>1, <1>4, <1>5, <1>6, <1>10, Limits
<1> QED BY <1>2, <1>9, <1>11 DEF L

LEMMA EmitKeeps ==
  ASSUME IInv, NEW t \in Loggers, Emit(t)
  PROVE  IInv'
<1> DEFINE L == Len(logged)
<1>1. PICK x \in Records :
        /\ x.n = L + 1
        /\ logged' = Append(logged, x) /\ raw' = Append(raw, x)
        /\ afterStop' = afterStop \union (IF Stopping THEN {x.n} ELSE {})
        /\ emitting' = [emitting EXCEPT ![t] = None]
        /\ Cardinality(Waiting') + Len(logged') <= MaxLogged
        /\ now' = now /\ ticks' = ticks /\ parts' = parts /\ pc' = pc
        /\ batch' = batch /\ tries' = tries /\ handler' = handler /\ stored' = stored
        /\ settled' = settled
  BY Emitted
<1>2. /\ Types /\ Batches /\ Order /\ Flow /\ logged \in Seq(Records) /\ L \in Nat
      /\ raw \in Seq(Records)
  BY DEF IInv, Types
<1>3. /\ logged' \in Seq(Records) /\ Len(logged') = L + 1 /\ logged'[L + 1] = x
      /\ \A k \in 1 .. L : logged'[k] = logged[k]
  BY <1>1, <1>2
<1>4. /\ \A r : Known(logged, r) => Known(logged', r)
      /\ \A s : AllGenuine(logged, s) => AllGenuine(logged', s)
  <2> HIDE DEF L
  <2> QED BY <1>1, <1>2, LogGrows
<1>5. /\ Before(raw, L + 1) /\ Before(parts, L + 1) /\ Before(batch, L + 1)
      /\ Before(stored, L + 1)
  BY <1>2, KnownBefore
<1> HIDE DEF L
<1>6. raw' \in Seq(Records) /\ ToSet(raw') = ToSet(raw) \union {x}
  BY <1>1, <1>2, InAppend
<1>7. /\ Len(raw) \in Nat /\ Len(raw') = Len(raw) + 1
      /\ \A k \in 1 .. Len(raw) : raw'[k] = raw[k] /\ raw[k] \in ToSet(raw)
      /\ raw'[Len(raw) + 1] = x
  BY <1>1, <1>2, IndexOf
<1>8. Types'
  <2>1. \A r \in ToSet(raw') : Known(logged', r)
    <3>1. Known(logged', x)
      BY <1>1, <1>2, <1>3 DEF Known
    <3>2. \A r \in ToSet(raw) : Known(logged', r)
      BY <1>2, <1>4 DEF Types
    <3> QED BY <1>6, <3>1, <3>2
  <2>2. \A k \in 1 .. Len(logged') : logged'[k].n = k
    <3>1. \A k \in 1 .. L : logged[k].n = k
      BY <1>2 DEF Types, L
    <3> QED BY <1>1, <1>2, <1>3, <3>1
  <2>3. settled' \union afterStop' \subseteq 1 .. Len(logged')
    <3>1. settled \union afterStop \subseteq 1 .. L
      BY <1>2 DEF Types, L
    <3> QED BY <1>1, <1>2, <1>3, <3>1
  <2>4. /\ AllGenuine(logged', parts') /\ AllGenuine(logged', batch')
        /\ AllGenuine(logged', stored')
    BY <1>1, <1>2, <1>4 DEF Types
  <2>5. emitting' \in [Loggers -> Contents \union {None}]
    BY <1>1, <1>2 DEF Types
  <2> QED BY <1>1, <1>2, <1>3, <1>6, <2>1, <2>2, <2>3, <2>4, <2>5 DEF Types
<1>9. Batches'
  BY <1>1, <1>2 DEF Batches
<1>10. Order'
  <2>1. InOrder(raw')
    <3>1. ASSUME NEW i \in 1 .. Len(raw) + 1, NEW j \in 1 .. Len(raw) + 1, i < j
          PROVE  raw'[i].n < raw'[j].n
      <4>1. i \in 1 .. Len(raw)
        BY <1>7, <3>1
      <4>2. CASE j \in 1 .. Len(raw)
        BY <1>2, <1>7, <3>1, <4>1, <4>2 DEF Order, InOrder
      <4>3. CASE j \notin 1 .. Len(raw)
        <5>1. j = Len(raw) + 1
          BY <1>7, <4>3
        <5> QED BY <1>1, <1>5, <1>7, <4>1, <5>1 DEF Before
      <4> QED BY <4>2, <4>3
    <3> QED BY <1>7, <3>1 DEF InOrder
  <2>2. \A s : Before(s, L + 1) /\ AheadOfRecords(Logs(s), ToSet(raw))
                 => AheadOfRecords(Logs(s), ToSet(raw'))
    BY <1>1, <1>6 DEF Before, AheadOfRecords, Logs
  <2> QED BY <1>1, <1>2, <1>5, <2>1, <2>2 DEF Order
<1>11. Flow'
  <2>1. ASSUME pc' = "ended"
        PROVE  Stopping' /\ Accepted' \subseteq settled' \union afterStop'
    <3>1. Stopping /\ Accepted \subseteq settled \union afterStop
      BY <1>1, <1>2, <2>1 DEF Flow
    <3>2. x.n \in afterStop'
      BY <1>1, <3>1
    <3>3. Accepted' \subseteq Accepted \union {x.n}
      BY <1>1, <1>6, AcceptedIs DEF Ns
    <3> QED BY <1>1, <3>1, <3>2, <3>3 DEF Stopping
  <2> QED BY <2>1 DEF Flow
<1> QED BY <1>8, <1>9, <1>10, <1>11 DEF IInv

LEMMA RunKeeps ==
  ASSUME IInv, Run
  PROVE  IInv'
<1>1. /\ pc = "run" /\ pc' = (IF IsRunning THEN "collect" ELSE "ended") /\ batch' = <<>>
      /\ now' = now /\ ticks' = ticks /\ logged' = logged /\ emitting' = emitting
      /\ Waiting' = Waiting
      /\ raw' = raw /\ parts' = parts /\ tries' = tries /\ handler' = handler
      /\ stored' = stored /\ settled' = settled /\ afterStop' = afterStop
  BY DEF Run, Waiting
<1>2. Types /\ Batches /\ Order /\ Flow /\ batch = <<>>
  BY <1>1 DEF IInv, Batches
<1>3. Types'
  BY <1>1, <1>2 DEF Types
<1>4. Batches'
  BY <1>1, <1>2, EmptyIs DEF Batches
<1>5. Order'
  BY <1>1, <1>2, EmptyIs DEF Order, Ahead
<1>6. Flow'
  <2>1. ASSUME pc' = "ended" PROVE Stopping' /\ Accepted' = {}
    <3>1. Stopping /\ raw = <<>> /\ parts = <<>>
      BY <1>1, <2>1 DEF IsRunning, HasItems
    <3>2. Accepted' = {}
      BY <1>1, <3>1, AcceptedIs, EmptyIs
    <3> QED BY <1>1, <3>1, <3>2 DEF Stopping
  <2> QED BY <1>1, <1>2, <2>1 DEF Flow
<1> QED BY <1>3, <1>4, <1>5, <1>6 DEF IInv

LEMMA FitsSorted ==
  ASSUME NEW b \in Seq(PartSet), Fits(b)
  PROVE  Fits(ByTime(b)) /\ (ByTime(b) = <<>> <=> b = <<>>)
<1> DEFINE s == ByTime(b)
<1>1. s \in Seq(PartSet) /\ Len(s) = Len(b) /\ ToSet(s) = ToSet(b) /\ SizeOf(s) = SizeOf(b)
  BY InSorted
<1> HIDE DEF s
<1>2. Fits(s)
  BY <1>1 DEF Fits
<1>3. s = <<>> <=> b = <<>>
  BY <1>1
<1> QED BY <1>2, <1>3 DEF s

\* The batch with another event.
LEMMA FitsAppended ==
  ASSUME Types, NEW b \in Seq(PartSet), NEW e \in PartSet, Fits(b),
         ~ Full(b, e), ~ Rejected(b, e)
  PROVE  Fits(Append(b, e))
<1> DEFINE s == Append(b, e)
           T == Times(b) \union {e.ts}
<1>1. s \in Seq(PartSet) /\ ToSet(s) = ToSet(b) \union {e} /\ Len(s) = Len(b) + 1
  BY InAppend
<1>2. SizeOf(b) \in Nat /\ SizeOf(s) = SizeOf(b) + e.size + Padding
  <2>1. \A x \in PartSet : x.size \in Nat
    BY PartFields
  <2> HIDE DEF s
  <2> QED BY <2>1, SizeOfAppend DEF s
<1> HIDE DEF s
<1>3. Len(s) <= MaxEvents /\ SizeOf(s) <= MaxBytes
  <2>1. ~ (Len(b) + 1 > MaxEvents) /\ ~ (SizeOf(b) + e.size + Padding > MaxBytes)
    BY DEF Full
  <2>2. e.size \in Nat
    BY PartFields
  <2> QED BY <1>1, <1>2, <2>1, <2>2, Limits
<1>4. \A p \in ToSet(s) : p.ts \in T
  BY <1>1 DEF ToSet, Times
<1>5. T \subseteq 0 .. MaxNow /\ T # {}
  <2>1. \A p \in PartSet : p.ts \in 0 .. MaxNow
    BY DEF PartSet
  <2>2. \A k \in DOMAIN b : b[k] \in PartSet
    OBVIOUS
  <2> QED BY <2>1, <2>2 DEF Times
<1>6. ~ (Max(T) - Min(T) > Span)
  BY DEF Rejected
<1> HIDE DEF T
<1>7. /\ Max(T) \in T /\ \A y \in T : y <= Max(T)
      /\ Min(T) \in T /\ \A y \in T : Min(T) <= y
  <2>1. T \subseteq Nat /\ MaxNow \in Nat
    BY <1>5, Limits
  <2> QED BY <1>5, <2>1, MinIs, MaxIs
<1>8. \A x, y \in T : x - y <= Span
  <2>1. ASSUME NEW x \in T, NEW y \in T PROVE x - y <= Span
    <3>1. \A z \in T : z \in Nat
      BY <1>5
    <3>2. x \in Nat /\ y \in Nat /\ Max(T) \in Nat /\ Min(T) \in Nat
      BY <1>7, <3>1
    <3>3. x <= Max(T) /\ Min(T) <= y
      BY <1>7
    <3> QED BY <1>6, <3>2, <3>3, Limits
  <2> QED BY <2>1
<1>9. Fits(s)
  BY <1>3, <1>4, <1>8 DEF Fits
<1> QED BY <1>9 DEF s

LEMMA CollectKeeps ==
  ASSUME IInv, Collect
  PROVE  IInv'
<1>1. /\ pc = "collect" /\ ~ NoNext
      /\ now' = now /\ ticks' = ticks /\ logged' = logged /\ emitting' = emitting
      /\ Waiting' = Waiting
      /\ tries' = tries /\ handler' = handler /\ stored' = stored
      /\ settled' = settled /\ afterStop' = afterStop
  BY DEF Collect, Waiting
<1>2. Types /\ Batches /\ Order /\ Flow
  BY DEF IInv
<1>3. PICK e, left, rest :
        /\ Taken(e, left, rest)
        /\ raw' = rest
        /\ \/ /\ Full(batch, e)
              /\ parts' = <<e>> \o left /\ batch' = ByTime(batch)
              /\ pc' = (IF batch = <<>> THEN "run" ELSE "upload")
           \/ /\ Rejected(batch, e)
              /\ parts' = <<Rejection(e)>> \o left /\ batch' = batch /\ pc' = pc
           \/ /\ ~ Full(batch, e) /\ ~ Rejected(batch, e)
              /\ parts' = left /\ batch' = Append(batch, e) /\ pc' = pc
  <2>1. Taken(NextPart, PartsLeft, RawLeft)
    BY <1>1, <1>2, Taking
  <2> QED BY <2>1 DEF Collect, KeptFirst
<1>4. /\ batch \in Seq(PartSet) /\ \A p \in ToSet(batch) : Genuine(logged, p)
      /\ stored \in Seq(PartSet)
      /\ Fits(batch) /\ Increasing(batch) /\ Ahead(Logs(stored), Logs(batch))
  BY <1>1, <1>2 DEF Types, AllGenuine, Batches, Order
<1>5. /\ e \in PartSet /\ Genuine(logged, e) /\ AllGenuine(logged, left)
      /\ rest \in Seq(Records) /\ ToSet(rest) \subseteq ToSet(raw)
      /\ Increasing(left) /\ InOrder(rest) /\ AheadOfRecords(Logs(left), ToSet(rest))
      /\ e.kind = "log" => /\ \A q \in Logs(left) : Lt(e, q)
                           /\ \A r \in ToSet(rest) : e.n < r.n
  BY <1>3 DEF Taken
<1>6. /\ e.kind = "log" => \A p \in Logs(batch) : Lt(p, e)
      /\ Ahead(Logs(batch), Logs(left)) /\ AheadOfRecords(Logs(batch), ToSet(rest))
  BY <1>2, <1>3, TakenBehind DEF Order
<1>7. /\ e.kind = "log" => \A p \in Logs(stored) : Lt(p, e)
      /\ Ahead(Logs(stored), Logs(left)) /\ AheadOfRecords(Logs(stored), ToSet(rest))
  BY <1>2, <1>3, TakenBehind DEF Order
<1>9. \A r \in ToSet(raw') : Known(logged', r)
  BY <1>1, <1>2, <1>3, <1>5 DEF Types
\* What every case leaves in the queue: x put back first, or nothing put back.
<1>10. ASSUME NEW x, x \in PartSet, Genuine(logged, x), x.n = e.n,
              x = e \/ x.kind = "notice", parts' = <<x>> \o left
       PROVE  /\ AllGenuine(logged', parts')
              /\ Increasing(parts') /\ AheadOfRecords(Logs(parts'), ToSet(raw'))
              /\ Ahead(Logs(batch), Logs(parts')) /\ Ahead(Logs(stored), Logs(parts'))
  <2>1. /\ AllGenuine(logged, parts') /\ ToSet(parts') = {x} \union ToSet(left)
        /\ Increasing(parts') /\ AheadOfRecords(Logs(parts'), ToSet(rest))
    BY <1>3, <1>10, PutBack
  <2>2. Ahead(Logs(batch), Logs(parts'))
    BY <1>6, <1>10, <2>1 DEF Ahead, Logs
  <2>3. Ahead(Logs(stored), Logs(parts'))
    BY <1>7, <1>10, <2>1 DEF Ahead, Logs
  <2> QED BY <1>1, <1>3, <2>1, <2>2, <2>3
<1>11. CASE /\ Full(batch, e)
            /\ parts' = <<e>> \o left /\ batch' = ByTime(batch)
            /\ pc' = (IF batch = <<>> THEN "run" ELSE "upload")
  <2>1. /\ AllGenuine(logged', parts')
        /\ Increasing(parts') /\ AheadOfRecords(Logs(parts'), ToSet(raw'))
        /\ Ahead(Logs(batch), Logs(parts')) /\ Ahead(Logs(stored), Logs(parts'))
    BY <1>5, <1>10, <1>11
  <2>2. /\ batch' \in Seq(PartSet) /\ ToSet(batch') = ToSet(batch)
        /\ InTime(batch') /\ Stable(batch')
    BY <1>4, <1>11, InSorted
  <2>3. Fits(batch') /\ (batch' = <<>> <=> batch = <<>>)
    BY <1>4, <1>11, FitsSorted
  <2>4. Logs(batch') = Logs(batch)
    BY <2>2 DEF Logs
  <2>5. Types'
    <3>1. AllGenuine(logged', batch')
      BY <1>1, <1>4, <2>2 DEF AllGenuine
    <3>2. AllGenuine(logged', stored')
      BY <1>1, <1>2 DEF Types
    <3> QED BY <1>1, <1>2, <1>3, <1>5, <1>9, <1>11, <2>1, <3>1, <3>2 DEF Types
  <2>6. Batches'
    BY <1>11, <2>2, <2>3 DEF Batches
  <2>7. Order'
    <3>1. pc' # "collect"
      BY <1>11
    <3>2. pc' = "upload" => Stable(batch') /\ Ahead(Logs(stored'), Logs(batch'))
      BY <1>1, <1>4, <2>2, <2>4
    <3>3. Kept(stored')
      BY <1>1, <1>2 DEF Order
    <3>4. InOrder(raw') /\ AheadOfRecords(Logs(batch'), ToSet(raw'))
          /\ AheadOfRecords(Logs(stored'), ToSet(raw'))
      BY <1>1, <1>3, <1>5, <1>6, <1>7, <2>4
    <3>5. Ahead(Logs(batch'), Logs(parts')) /\ Ahead(Logs(stored'), Logs(parts'))
      BY <1>1, <2>1, <2>4
    <3> QED BY <2>1, <3>1, <3>2, <3>3, <3>4, <3>5 DEF Order
  <2>8. Flow'
    BY <1>11 DEF Flow
  <2> QED BY <2>5, <2>6, <2>7, <2>8 DEF IInv
<1>12. CASE /\ Rejected(batch, e)
            /\ parts' = <<Rejection(e)>> \o left /\ batch' = batch /\ pc' = pc
  <2> DEFINE x == Rejection(e)
  <2>1. /\ x \in PartSet /\ Genuine(logged, x) /\ x.n = e.n /\ x.kind = "notice"
    <3>1. /\ e.n \in 1 .. MaxLogged /\ e.n \in 1 .. Len(logged)
          /\ e.ts = logged[e.n].ts /\ e.ts \in 0 .. MaxNow
      BY <1>5 DEF Genuine, PartSet
    <3> DEFINE n == e.n
    <3>2. /\ n \in 1 .. MaxLogged /\ n \in 1 .. Len(logged) /\ logged[n].ts \in 0 .. MaxNow
      BY <3>1
    <3> HIDE DEF n
    <3>3. /\ Genuine(logged, Notice(n, logged[n].ts, 1))
          /\ Notice(n, logged[n].ts, 1) \in PartSet
          /\ Notice(n, logged[n].ts, 1).kind = "notice"
          /\ Notice(n, logged[n].ts, 1).n = n
      <4>1. 1 \in Nat \ {0}
        OBVIOUS
      <4> QED BY <3>2, <4>1, NoticeIs
    <3>4. x = Notice(n, logged[n].ts, 1)
      BY <3>1 DEF n, Rejection
    <3> QED BY <3>3, <3>4 DEF n
  <2> HIDE DEF x
  <2>2. /\ AllGenuine(logged', parts')
        /\ Increasing(parts') /\ AheadOfRecords(Logs(parts'), ToSet(raw'))
        /\ Ahead(Logs(batch), Logs(parts')) /\ Ahead(Logs(stored), Logs(parts'))
    <3>1. parts' = <<x>> \o left
      BY <1>12 DEF x
    <3> QED BY <1>10, <2>1, <3>1
  <2>3. Types'
    <3>1. AllGenuine(logged', batch') /\ AllGenuine(logged', stored')
      BY <1>1, <1>2, <1>12 DEF Types
    <3> QED BY <1>1, <1>2, <1>3, <1>5, <1>9, <1>12, <2>2, <3>1 DEF Types
  <2>4. Batches'
    BY <1>1, <1>2, <1>12 DEF Batches
  <2>5. Order'
    <3>1. pc' = "collect" /\ Increasing(batch') /\ Ahead(Logs(stored'), Logs(batch'))
      BY <1>1, <1>4, <1>12
    <3>2. Kept(stored')
      BY <1>1, <1>2 DEF Order
    <3>3. InOrder(raw') /\ AheadOfRecords(Logs(batch'), ToSet(raw'))
          /\ AheadOfRecords(Logs(stored'), ToSet(raw'))
      BY <1>1, <1>3, <1>5, <1>6, <1>7, <1>12
    <3>4. Ahead(Logs(batch'), Logs(parts')) /\ Ahead(Logs(stored'), Logs(parts'))
      BY <1>1, <1>12, <2>2
    <3> QED BY <2>2, <3>1, <3>2, <3>3, <3>4 DEF Order
  <2>6. Flow'
    BY <1>1, <1>12 DEF Flow
  <2> QED BY <2>3, <2>4, <2>5, <2>6 DEF IInv
<1>13. CASE /\ ~ Full(batch, e) /\ ~ Rejected(batch, e)
            /\ parts' = left /\ batch' = Append(batch, e) /\ pc' = pc
  <2>1. batch' \in Seq(PartSet) /\ ToSet(batch') = ToSet(batch) \union {e}
    BY <1>4, <1>5, <1>13, InAppend
  <2>2. Fits(batch')
    BY <1>2, <1>4, <1>5, <1>13, FitsAppended
  <2>3. Increasing(batch')
    <3>1. /\ Len(batch) \in Nat /\ Len(batch') = Len(batch) + 1
          /\ \A k \in 1 .. Len(batch) : batch'[k] = batch[k] /\ batch[k] \in ToSet(batch)
          /\ batch'[Len(batch) + 1] = e
      BY <1>4, <1>13, IndexOf
    <3>2. ASSUME NEW i \in 1 .. Len(batch) + 1, NEW j \in 1 .. Len(batch) + 1, i < j,
                 batch'[i].kind = "log", batch'[j].kind = "log"
          PROVE  Lt(batch'[i], batch'[j])
      <4>1. i \in 1 .. Len(batch)
        BY <3>1, <3>2
      <4>2. CASE j \in 1 .. Len(batch)
        BY <1>4, <3>1, <3>2, <4>1, <4>2 DEF Increasing
      <4>3. CASE j \notin 1 .. Len(batch)
        <5>1. batch'[j] = e
          BY <3>1, <4>3
        <5>2. batch'[i] \in Logs(batch)
          BY <3>1, <3>2, <4>1 DEF Logs
        <5> QED BY <1>6, <3>2, <5>1, <5>2
      <4> QED BY <4>2, <4>3
    <3> QED BY <3>1, <3>2 DEF Increasing
  <2>4. \A p \in Logs(batch') : p \in Logs(batch) \/ (p = e /\ e.kind = "log")
    BY <2>1 DEF Logs
  <2>5. Types'
    <3>1. AllGenuine(logged', batch')
      BY <1>1, <1>4, <1>5, <2>1 DEF AllGenuine
    <3>2. AllGenuine(logged', stored') /\ AllGenuine(logged', parts')
      BY <1>1, <1>2, <1>5, <1>13 DEF Types
    <3> QED BY <1>1, <1>2, <1>3, <1>5, <1>9, <1>13, <3>1, <3>2 DEF Types
  <2>6. Batches'
    BY <1>1, <1>13, <2>2 DEF Batches
  <2>7. Order'
    <3>1. Ahead(Logs(stored'), Logs(batch'))
      BY <1>1, <1>4, <1>7, <2>4 DEF Ahead
    <3>2. Kept(stored')
      BY <1>1, <1>2 DEF Order
    <3>3. Ahead(Logs(batch'), Logs(parts'))
      BY <1>5, <1>6, <1>13, <2>4 DEF Ahead
    <3>4. AheadOfRecords(Logs(batch'), ToSet(raw'))
      BY <1>3, <1>5, <1>6, <2>4 DEF AheadOfRecords
    <3>5. /\ Increasing(parts') /\ InOrder(raw')
          /\ AheadOfRecords(Logs(parts'), ToSet(raw'))
          /\ Ahead(Logs(stored'), Logs(parts'))
          /\ AheadOfRecords(Logs(stored'), ToSet(raw'))
      BY <1>1, <1>3, <1>5, <1>7, <1>13
    <3>6. pc' = "collect"
      BY <1>1, <1>13
    <3> QED BY <2>3, <3>1, <3>2, <3>3, <3>4, <3>5, <3>6 DEF Order
  <2>8. Flow'
    BY <1>1, <1>13 DEF Flow
  <2> QED BY <2>5, <2>6, <2>7, <2>8 DEF IInv
<1> QED BY <1>3, <1>11, <1>12, <1>13

LEMMA CollectedKeeps ==
  ASSUME IInv, Collected
  PROVE  IInv'
<1>1. /\ pc = "collect" /\ NoNext /\ parts' = Notices /\ raw' = <<>>
      /\ batch' = ByTime(batch)
      /\ pc' = (IF batch = <<>> THEN "run" ELSE "upload")
      /\ now' = now /\ ticks' = ticks /\ logged' = logged /\ emitting' = emitting
      /\ Waiting' = Waiting
      /\ tries' = tries /\ handler' = handler /\ stored' = stored
      /\ settled' = settled /\ afterStop' = afterStop
  BY DEF Collected, Waiting
<1>2. Types /\ Batches /\ Order /\ Flow
  BY DEF IInv
<1>3. /\ batch \in Seq(PartSet) /\ \A p \in ToSet(batch) : Genuine(logged, p)
      /\ Fits(batch) /\ Increasing(batch) /\ Ahead(Logs(stored), Logs(batch))
  BY <1>1, <1>2 DEF Types, AllGenuine, Batches, Order
<1>4. /\ AllGenuine(logged', parts') /\ parts' \in Seq(PartSet)
      /\ \A p \in ToSet(parts') : p.kind = "notice"
      /\ Ns(parts') = {raw[k].n : k \in 1 .. BadPrefix}
  BY <1>1, <1>2, NoticesAre DEF AllGenuine
<1>5. Increasing(parts') /\ Logs(parts') = {}
  BY <1>4, NoLogs
<1>6. /\ batch' \in Seq(PartSet) /\ ToSet(batch') = ToSet(batch)
      /\ InTime(batch') /\ Stable(batch')
  BY <1>1, <1>3, InSorted
<1>7. Fits(batch') /\ (batch' = <<>> <=> batch = <<>>)
  BY <1>1, <1>3, FitsSorted
<1>8. Logs(batch') = Logs(batch)
  BY <1>6 DEF Logs
<1>9. Types'
  <2>1. AllGenuine(logged', batch')
    BY <1>1, <1>3, <1>6 DEF AllGenuine
  <2>2. AllGenuine(logged', stored')
    BY <1>1, <1>2 DEF Types
  <2> QED BY <1>1, <1>2, <1>4, <2>1, <2>2, EmptyIs DEF Types
<1>10. Batches'
  BY <1>1, <1>6, <1>7 DEF Batches
<1>11. Order'
  <2>1. pc' # "collect"
    BY <1>1
  <2>2. pc' = "upload" => Stable(batch') /\ Ahead(Logs(stored'), Logs(batch'))
    BY <1>1, <1>3, <1>6, <1>8
  <2>3. Kept(stored')
    BY <1>1, <1>2 DEF Order
  <2>4. \A P : Ahead(P, Logs(parts')) /\ AheadOfRecords(P, ToSet(raw'))
    BY <1>1, <1>5, EmptyIs DEF Ahead, AheadOfRecords
  <2> QED BY <1>1, <1>5, <2>1, <2>2, <2>3, <2>4, EmptyIs DEF Order
<1>12. Flow'
  BY <1>1 DEF Flow
<1> QED BY <1>9, <1>10, <1>11, <1>12 DEF IInv

\* The log stream with the batch.
LEMMA StoredWith ==
  ASSUME IInv, pc = "upload"
  PROVE  LET c == stored \o batch IN
         /\ AllGenuine(logged, c) /\ Kept(c)
         /\ ToSet(batch) \subseteq ToSet(c)
         /\ Ahead(Logs(c), Logs(parts)) /\ AheadOfRecords(Logs(c), ToSet(raw))
<1> DEFINE c == stored \o batch
<1>1. Types /\ Order /\ Flow
  BY DEF IInv
<1>2. /\ stored \in Seq(PartSet) /\ \A p \in ToSet(stored) : Genuine(logged, p)
      /\ batch \in Seq(PartSet) /\ \A p \in ToSet(batch) : Genuine(logged, p)
  BY <1>1 DEF Types, AllGenuine
<1>3. c \in Seq(PartSet) /\ ToSet(c) = ToSet(stored) \union ToSet(batch)
  BY <1>2, InConcat
<1>4. /\ Stable(batch) /\ Kept(stored)
      /\ Ahead(Logs(stored), Logs(batch)) \/ ToSet(batch) \subseteq ToSet(stored)
  BY <1>1 DEF Order
<1>5. Kept(c)
  BY <1>2, <1>4, StoringKeeps
<1> HIDE DEF c
<1>6. AllGenuine(logged, c)
  BY <1>2, <1>3 DEF AllGenuine
<1>7. \A p \in Logs(c) : p \in Logs(stored) \/ p \in Logs(batch)
  BY <1>3 DEF Logs
<1>8. Ahead(Logs(c), Logs(parts))
  BY <1>1, <1>7 DEF Order, Ahead
<1>9. AheadOfRecords(Logs(c), ToSet(raw))
  BY <1>1, <1>7 DEF Order, AheadOfRecords
<1> QED BY <1>3, <1>5, <1>6, <1>8, <1>9 DEF c

\* What is settled with the batch.
LEMMA GoneIs ==
  ASSUME IInv
  PROVE  /\ Gone = Ns(batch) \ (Ns(raw) \union Ns(parts))
         /\ Gone \subseteq 1 .. Len(logged)
<1>1. Gone = Ns(batch) \ (Ns(raw) \union Ns(parts))
  BY DEF Gone, Held, Ns, ToSet
<1>2. \A p \in ToSet(batch) : p.n \in 1 .. Len(logged)
  BY DEF IInv, Types, AllGenuine, Genuine
<1>3. Ns(batch) \subseteq 1 .. Len(logged)
  BY <1>2 DEF Ns
<1> QED BY <1>1, <1>3

\* The thread is done with the batch.
LEMMA DoneKeeps ==
  ASSUME IInv, pc = "upload", stored' = stored \/ stored' = stored \o batch,
         settled' = settled \union Gone, pc' = "run", tries' = Retries, batch' = <<>>,
         UNCHANGED <<now, ticks, emitting, logged, raw, parts, handler, afterStop>>
  PROVE  IInv'
<1>1. Types /\ Batches /\ Order /\ Flow
  BY DEF IInv
<1>2. /\ now' = now /\ ticks' = ticks /\ logged' = logged /\ emitting' = emitting
      /\ Waiting' = Waiting
      /\ raw' = raw /\ parts' = parts /\ handler' = handler /\ afterStop' = afterStop
  BY DEF Waiting
<1>3. /\ AllGenuine(logged, stored') /\ Kept(stored')
      /\ Ahead(Logs(stored'), Logs(parts)) /\ AheadOfRecords(Logs(stored'), ToSet(raw))
  <2>1. CASE stored' = stored
    BY <1>1, <2>1 DEF Types, Order, Flow
  <2>2. CASE stored' = stored \o batch
    BY <2>2, StoredWith
  <2> QED BY <2>1, <2>2
<1>4. Gone \subseteq 1 .. Len(logged)
  BY GoneIs
<1>5. Types'
  <2>1. settled' \union afterStop' \subseteq 1 .. Len(logged')
    BY <1>1, <1>2, <1>4 DEF Types
  <2>2. AllGenuine(logged', batch')
    BY EmptyIs DEF AllGenuine
  <2> QED BY <1>1, <1>2, <1>3, <2>1, <2>2, Limits DEF Types
<1>6. Batches'
  BY DEF Batches
<1>7. Order'
  BY <1>1, <1>2, <1>3, EmptyIs DEF Order, Ahead, AheadOfRecords
<1>8. Flow'
  BY DEF Flow
<1> QED BY <1>5, <1>6, <1>7, <1>8 DEF IInv

LEMMA UploadedKeeps ==
  ASSUME IInv, Uploaded
  PROVE  IInv'
  BY DoneKeeps DEF Uploaded

LEMMA UploadFailsKeeps ==
  ASSUME IInv, UploadFails
  PROVE  IInv'
<1>1. /\ pc = "upload"
      /\ stored' = stored \/ stored' = stored \o batch
      /\ now' = now /\ ticks' = ticks /\ logged' = logged /\ emitting' = emitting
      /\ Waiting' = Waiting
      /\ raw' = raw /\ parts' = parts /\ handler' = handler /\ afterStop' = afterStop
  BY DEF UploadFails, Waiting
<1>2. CASE TriesLeft = 0
  <2>1. settled' = settled \union Gone /\ pc' = "run" /\ tries' = Retries /\ batch' = <<>>
    BY <1>2 DEF UploadFails
  <2>2. UNCHANGED <<now, ticks, emitting, logged, raw, parts, handler, afterStop>>
    BY <1>1
  <2> QED BY <1>1, <2>1, <2>2, DoneKeeps
<1>3. CASE TriesLeft # 0
  <2>1. Types /\ Batches /\ Order /\ Flow
    BY DEF IInv
  <2>2. tries' = TriesLeft /\ pc' = pc /\ settled' = settled /\ batch' = batch
    BY <1>3 DEF UploadFails
  <2>3. tries' \in 1 .. Retries
    BY <1>3, <2>1, <2>2, Limits DEF TriesLeft, Types
  <2>4. /\ AllGenuine(logged, stored') /\ Kept(stored')
        /\ Ahead(Logs(stored'), Logs(parts)) /\ AheadOfRecords(Logs(stored'), ToSet(raw))
        /\ Ahead(Logs(stored'), Logs(batch)) \/ ToSet(batch) \subseteq ToSet(stored')
    <3>1. CASE stored' = stored
      BY <1>1, <2>1, <3>1 DEF Types, Order, Flow
    <3>2. CASE stored' = stored \o batch
      BY <1>1, <3>2, StoredWith
    <3> QED BY <1>1, <3>1, <3>2
  <2>5. Types'
    BY <1>1, <2>1, <2>2, <2>3, <2>4 DEF Types
  <2>6. Batches'
    BY <1>1, <2>1, <2>2 DEF Batches
  <2>7. Order'
    BY <1>1, <2>1, <2>2, <2>4 DEF Order
  <2>8. Flow'
    BY <1>1, <2>1, <2>2, <2>4 DEF Flow
  <2> QED BY <2>5, <2>6, <2>7, <2>8 DEF IInv
<1> QED BY <1>2, <1>3

LEMMA ClosingKeeps ==
  ASSUME IInv, Close \/ Join
  PROVE  IInv'
<1>1. /\ handler' \in {"closing", "closed"}
      /\ now' = now /\ ticks' = ticks /\ logged' = logged /\ emitting' = emitting
      /\ Waiting' = Waiting
      /\ raw' = raw /\ parts' = parts /\ pc' = pc /\ batch' = batch /\ tries' = tries
      /\ stored' = stored /\ settled' = settled /\ afterStop' = afterStop
  BY DEF Close, Join, Waiting
<1>2. Types /\ Batches /\ Order /\ Flow
  BY DEF IInv
<1>3. Types' /\ Batches' /\ Order'
  BY <1>1, <1>2 DEF Types, Batches, Order
<1>4. Flow'
  <2>1. Accepted' = Accepted
    BY <1>1, AcceptedIs
  <2>2. Stopping'
    BY <1>1 DEF Stopping
  <2> QED BY <1>1, <1>2, <2>1, <2>2 DEF Flow
<1> QED BY <1>2, <1>3, <1>4 DEF IInv

LEMMA ClockKeeps ==
  ASSUME IInv, Clock \/ UNCHANGED vars
  PROVE  IInv'
<1>1. /\ logged' = logged /\ emitting' = emitting /\ Waiting' = Waiting
      /\ raw' = raw /\ parts' = parts /\ pc' = pc /\ batch' = batch /\ tries' = tries
      /\ handler' = handler /\ stored' = stored /\ settled' = settled
      /\ afterStop' = afterStop
  BY DEF Clock, vars, Waiting
<1>2. Types /\ Batches /\ Order /\ Flow
  BY DEF IInv
<1>3. now' \in 0 .. MaxNow /\ ticks' \in 0 .. MaxTicks
  BY <1>2, Limits DEF Clock, vars, Types
<1>4. Types' /\ Batches' /\ Order'
  BY <1>1, <1>2, <1>3 DEF Types, Batches, Order
<1>5. Flow'
  BY <1>1, <1>2, AcceptedIs DEF Flow, Stopping
<1> QED BY <1>2, <1>4, <1>5 DEF IInv

LEMMA StepKeeps == IInv /\ [Next]_vars => IInv'
<1> SUFFICES ASSUME IInv, [Next]_vars PROVE IInv'
  OBVIOUS
<1>1. CASE \E t \in Loggers : Record(t)
  BY <1>1, RecordKeeps
<1>2. CASE \E t \in Loggers : Emit(t)
  BY <1>2, EmitKeeps
<1>3. CASE Run
  BY <1>3, RunKeeps
<1>4. CASE Collect
  BY <1>4, CollectKeeps
<1>5. CASE Collected
  BY <1>5, CollectedKeeps
<1>6. CASE Uploaded
  BY <1>6, UploadedKeeps
<1>7. CASE UploadFails
  BY <1>7, UploadFailsKeeps
<1>8. CASE Close \/ Join
  BY <1>8, ClosingKeeps
<1>9. CASE Clock \/ UNCHANGED vars
  BY <1>9, ClockKeeps
<1> QED BY <1>1, <1>2, <1>3, <1>4, <1>5, <1>6, <1>7, <1>8, <1>9 DEF Next, Thread

LEMMA Invariant == Spec => []IInv
<1>1. Init => IInv
  BY Starts0
<1>2. IInv /\ [Next]_vars => IInv'
  BY StepKeeps
<1> QED BY <1>1, <1>2, PTL DEF Spec

(***************************************************************************)
(* The theorems.                                                           *)
(***************************************************************************)
\* The handler's queues, batches and records are of the types that
\* cloudwatch.py gives them: every record held is one that was logged, and
\* every chunk is of at least one byte and at most max_log_event_size.
THEOREM TypeCorrect == Spec => []TypeOK
<1>1. ASSUME IInv PROVE TypeOK
  <2>1. Types
    BY <1>1 DEF IInv
  <2>2. DOMAIN logged = 1 .. Len(logged) /\ Len(logged) \in Nat /\ Len(logged) <= MaxLogged
    BY <2>1, WaitingIs, Limits DEF Types
  <2>3. \A r : Known(logged, r) => r \in ToSet(logged)
    BY <2>2 DEF Known, ToSet
  <2>4. \A p \in ToSet(parts) \union ToSet(batch) \union ToSet(stored) :
          p.kind = "log" => p.size <= MaxEventSize
    BY <2>1 DEF Types, AllGenuine, Genuine
  <2>5. ToSet(raw) \subseteq ToSet(logged)
    BY <2>1, <2>3 DEF Types
  <2>6. ToSet(parts) \union ToSet(batch) \union ToSet(stored) \subseteq PartSet
    BY <2>1 DEF Types, AllGenuine, Genuine
  <2>7. settled \union afterStop \subseteq 1 .. MaxLogged
    BY <2>1, <2>2, Limits DEF Types
  <2> QED BY <2>1, <2>2, <2>4, <2>5, <2>6, <2>7 DEF TypeOK, Types
<1> QED BY <1>1, Invariant, PTL

\* Every batch that put_log_events is called with is one that PutLogEvents
\* accepts: not empty, no more events and bytes than its limits, one day at
\* most from its oldest to its newest event, and in the order of time.
THEOREM BatchesAreAccepted == Spec => []BatchAccepted
<1>1. ASSUME IInv PROVE BatchAccepted
  <2> SUFFICES ASSUME pc = "upload"
               PROVE  /\ Len(batch) \in 1 .. MaxEvents
                      /\ SizeOf(batch) <= MaxBytes
                      /\ Max(Times(batch)) - Min(Times(batch)) <= Span
                      /\ \A i, j \in DOMAIN batch : i < j => batch[i].ts <= batch[j].ts
    BY DEF BatchAccepted
  <2>1. /\ batch \in Seq(PartSet) /\ batch # <<>> /\ Fits(batch) /\ InTime(batch)
        /\ DOMAIN batch = 1 .. Len(batch) /\ Len(batch) \in Nat
    BY <1>1 DEF IInv, Types, Batches, AllGenuine
  <2>2. Len(batch) \in 1 .. MaxEvents
    BY <2>1, Limits DEF Fits
  <2>3. Max(Times(batch)) - Min(Times(batch)) <= Span
    <3> DEFINE T == Times(batch)
    <3>7. \A p \in PartSet : p.ts \in 0 .. MaxNow
      BY DEF PartSet
    <3>1. \A k \in 1 .. Len(batch) : batch[k].ts \in 0 .. MaxNow
      BY <2>1, <3>7
    <3>2. T \subseteq 0 .. MaxNow /\ T \subseteq Nat
      BY <2>1, <3>1 DEF Times
    <3>3. T # {}
      <4>1. 1 \in DOMAIN batch
        BY <2>1, <2>2
      <4> QED BY <4>1 DEF Times
    <3>4. \A t \in T : \E p \in ToSet(batch) : t = p.ts
      BY DEF Times, ToSet
    <3> HIDE DEF T
    <3>5. Max(T) \in T /\ Min(T) \in T
      BY <3>2, <3>3, MinIs, MaxIs, Limits
    <3>6. \A t, u \in T : t - u <= Span
      BY <2>1, <3>4 DEF Fits
    <3> QED BY <3>5, <3>6 DEF T
  <2> QED BY <2>1, <2>2, <2>3 DEF Fits, InTime
<1> QED BY <1>1, Invariant, PTL

\* _chunk_string cuts no character in two, whatever the widths of the
\* characters of a message and wherever the limit on the size of an event
\* falls among them.
THEOREM NoCharacterIsCut == Spec => []CharactersWhole
<1>1. ASSUME IInv PROVE CharactersWhole
  <2>1. \A p \in ToSet(stored) : Genuine(logged, p)
    BY <1>1 DEF IInv, Types, AllGenuine
  <2> QED BY <2>1 DEF CharactersWhole, Genuine, ChunkOf
<1> QED BY <1>1, Invariant, PTL

\* The log stream holds a record before the ones that the handler was given after
\* it and that are not older, and the chunks of a record one after the other,
\* whatever was kept back for a later batch, rejected, sorted, or sent again when
\* an answer was lost.  Nothing is said of the order in which two threads have
\* created their records: it is that of emit().
THEOREM TheStreamIsInOrder == Spec => []OrderKept
<1>1. ASSUME IInv PROVE OrderKept
  <2>1. stored \in Seq(PartSet) /\ \A p \in ToSet(stored) : Genuine(logged, p)
    BY <1>1 DEF IInv, Types, AllGenuine
  <2>2. Kept(stored)
    BY <1>1 DEF IInv, Order
  <2>3. \A p \in ToSet(stored) : p.ts = logged[p.n].ts /\ p.ts \in Nat
    BY <2>1, PartFields DEF Genuine
  <2>4. \A p : First(p) = FirstIn(stored, p)
    BY DEF First, FirstIn
  <2>5. ASSUME NEW p \in ToSet(stored), NEW q \in ToSet(stored),
               p.kind = "log", q.kind = "log",
               (p.n < q.n /\ p.ts <= q.ts) \/ (p.n = q.n /\ p.from < q.from)
        PROVE  First(p) < First(q)
    <3>1. Lt(p, q) /\ p.ts <= q.ts
      BY <2>3, <2>5 DEF Lt
    <3>2. FirstIn(stored, p) < FirstIn(stored, q)
      BY <2>2, <2>5, <3>1 DEF Kept, Logs
    <3> QED BY <2>4, <3>2
  <2> QED BY <2>5 DEF OrderKept
<1> QED BY <1>1, Invariant, PTL

(***************************************************************************)
(* The handler is a log channel.                                           *)
(***************************************************************************)
owed == Accepted \ (settled \union afterStop)
late == afterStop \ settled

LEMMA ChannelKept ==
  ASSUME Accepted' = Accepted, settled' = settled, afterStop' = afterStop,
         handler' = handler \/ (handler = "open" /\ handler' = "closing")
  PROVE  UNCHANGED <<owed, settled, late, handler = "closed">>
  BY DEF owed, late

\* A record is owed, or late, when it is appended.
LEMMA EmitAccepts ==
  ASSUME IInv, NEW t \in Loggers, Emit(t)
  PROVE  \E n \in 1 .. MaxLogged : Channel!Accept(n) \/ Channel!AcceptTooLate(n)
<1>1. PICK x \in Records :
        /\ x.n = Len(logged) + 1 /\ raw' = Append(raw, x)
        /\ afterStop' = afterStop \union (IF Stopping THEN {x.n} ELSE {})
        /\ parts' = parts /\ batch' = batch /\ handler' = handler /\ settled' = settled
  BY Emitted
<1> DEFINE n == x.n
<1>2. Types /\ Flow
  BY DEF IInv
<1>3. /\ raw \in Seq(Records) /\ n = Len(logged) + 1 /\ Len(logged) \in Nat
      /\ Before(raw, n) /\ Before(parts, n) /\ Before(batch, n)
      /\ n \notin settled \union afterStop
  BY <1>1, <1>2, KnownBefore DEF Types
<1>4. n \in 1 .. MaxLogged /\ n \in Nat
  BY <1>3, Limits DEF Records
<1>5. ToSet(raw') = ToSet(raw) \union {x}
  BY <1>1, <1>3, InAppend
<1>6. n \notin Accepted
  <2>1. \A y \in ToSet(raw) \union ToSet(parts) \union ToSet(batch) : y.n # n
    BY <1>3, <1>4 DEF Before
  <2> QED BY <2>1, AcceptedIs DEF Ns
<1>7. Accepted' = Accepted \union {n}
  BY <1>1, <1>5, AcceptedIs DEF Ns
<1> HIDE DEF n
<1>8. CASE handler = "open"
  <2>1. afterStop' = afterStop
    BY <1>1, <1>8 DEF Stopping
  <2>2. owed' = owed \union {n} /\ late' = late
    BY <1>1, <1>3, <1>7, <2>1 DEF owed, late
  <2>3. Channel!Accept(n)
    BY <1>1, <1>3, <1>6, <1>8, <2>2 DEF Channel!Accept, owed, late
  <2> QED BY <1>4, <2>3
<1>9. CASE handler \in {"closing", "closed"}
  <2>1. afterStop' = afterStop \union {n}
    BY <1>1, <1>9 DEF Stopping, n
  <2>2. owed' = owed /\ late' = late \union {n}
    BY <1>1, <1>3, <1>6, <1>7, <2>1 DEF owed, late
  <2>3. CASE handler = "closing"
    <3>1. Channel!Accept(n)
      BY <1>1, <1>3, <1>6, <2>2, <2>3 DEF Channel!Accept, owed, late
    <3> QED BY <1>4, <3>1
  <2>4. CASE handler = "closed"
    <3>1. Channel!AcceptTooLate(n)
      BY <1>1, <1>3, <1>6, <2>2, <2>4 DEF Channel!AcceptTooLate, owed, late
    <3> QED BY <1>4, <3>1
  <2> QED BY <1>9, <2>3, <2>4
<1> QED BY <1>2, <1>8, <1>9 DEF Types

\* What leaves the handler with a batch is settled, if it was not yet.
LEMMA DoneSettles ==
  ASSUME IInv, settled' = settled \union Gone, batch' = <<>>,
         raw' = raw, parts' = parts, handler' = handler, afterStop' = afterStop
  PROVE  \/ \E S \in SUBSET (1 .. MaxLogged) : Channel!Settle(S)
         \/ UNCHANGED <<owed, settled, late, handler = "closed">>
<1> DEFINE S == Gone \ settled
<1>1. /\ Gone = Ns(batch) \ (Ns(raw) \union Ns(parts))
      /\ Gone \subseteq 1 .. Len(logged)
  BY GoneIs
<1>2. S \subseteq 1 .. MaxLogged
  <2>1. Len(logged) \in Nat /\ Cardinality(Waiting) + Len(logged) <= MaxLogged
    BY DEF IInv, Types
  <2> QED BY <1>1, <2>1, WaitingIs, Limits
<1>3. Accepted = Ns(raw) \union Ns(parts) \union Ns(batch)
  BY AcceptedIs
<1>4. Accepted' = Ns(raw) \union Ns(parts)
  BY AcceptedIs, EmptyIs
<1>5. Accepted' = Accepted \ Gone
  BY <1>1, <1>3, <1>4
<1>6. owed' = owed \ S /\ late' = late \ S /\ settled' = settled \union S
  BY <1>5 DEF owed, late
<1>7. S \subseteq owed \union late
  BY <1>1, <1>3 DEF owed, late
<1> HIDE DEF S
<1>8. CASE S = {}
  BY <1>6, <1>8
<1>9. CASE S # {}
  <2>1. Channel!Settle(S)
    BY <1>6, <1>7, <1>9 DEF Channel!Settle, owed, late
  <2> QED BY <1>2, <2>1
<1> QED BY <1>8, <1>9

\* What the thread takes it keeps, as an event of the batch, a notice or a part.
LEMMA CollectAccepts ==
  ASSUME IInv, Collect \/ Collected
  PROVE  Accepted' = Accepted
<1>1. Types /\ Order /\ batch \in Seq(PartSet)
  BY DEF IInv, Types, AllGenuine
<1>2. ToSet(ByTime(batch)) = ToSet(batch)
  BY <1>1, InSorted
<1>3. CASE Collect
  <2>1. PICK e, left, rest :
          /\ Taken(e, left, rest)
          /\ raw' = rest
          /\ \/ /\ parts' = <<e>> \o left /\ batch' = ByTime(batch)
             \/ /\ parts' = <<Rejection(e)>> \o left /\ batch' = batch
             \/ /\ parts' = left /\ batch' = Append(batch, e)
    <3>1. Taken(NextPart, PartsLeft, RawLeft)
      BY <1>1, <1>3, Taking DEF Collect
    <3> QED BY <1>3, <3>1 DEF Collect, KeptFirst
  <2>2. /\ e \in PartSet /\ left \in Seq(PartSet)
        /\ {e.n} \union Ns(left) \union Ns(rest) = Ns(parts) \union Ns(raw)
    BY <2>1 DEF Taken, AllGenuine
  <2>3. \A T, x : x \in T /\ left \in Seq(T) => Ns(<<x>> \o left) = {x.n} \union Ns(left)
    <3>1. ASSUME NEW T, NEW x \in T, left \in Seq(T)
          PROVE  Ns(<<x>> \o left) = {x.n} \union Ns(left)
      <4> DEFINE s == <<x>>
      <4>1. s \in Seq(T) /\ ToSet(s) = {x}
        BY DEF ToSet
      <4> HIDE DEF s
      <4>2. ToSet(s \o left) = {x} \union ToSet(left)
        BY <3>1, <4>1, InConcat
      <4>3. Ns(s \o left) = {x.n} \union Ns(left)
        BY <4>2 DEF Ns
      <4> QED BY <4>3 DEF s
    <3> QED BY <3>1
  <2>4. CASE parts' = <<e>> \o left /\ batch' = ByTime(batch)
    <3>1. Ns(parts') = {e.n} \union Ns(left)
      BY <2>2, <2>3, <2>4
    <3>2. Ns(batch') = Ns(batch)
      BY <1>2, <2>4 DEF Ns
    <3> QED BY <2>1, <2>2, <3>1, <3>2, AcceptedIs
  <2>5. CASE parts' = <<Rejection(e)>> \o left /\ batch' = batch
    <3> DEFINE x == Rejection(e)
               T == PartSet \union {x}
    <3>1. x.n = e.n
      BY DEF Rejection, Notice
    <3> HIDE DEF x
    <3>2. x \in T /\ left \in Seq(T)
      BY <2>2
    <3> HIDE DEF T
    <3>3. Ns(parts') = {x.n} \union Ns(left)
      <4>1. parts' = <<x>> \o left
        BY <2>5 DEF x
      <4> QED BY <2>3, <3>2, <4>1
    <3> QED BY <2>1, <2>2, <2>5, <3>1, <3>3, AcceptedIs
  <2>6. CASE parts' = left /\ batch' = Append(batch, e)
    <3>1. ToSet(batch') = ToSet(batch) \union {e}
      BY <1>1, <2>2, <2>6, InAppend
    <3>2. Ns(batch') = Ns(batch) \union {e.n}
      BY <3>1 DEF Ns
    <3> QED BY <2>1, <2>2, <2>6, <3>2, AcceptedIs
  <2> QED BY <2>1, <2>4, <2>5, <2>6
<1>4. CASE Collected
  <2>1. /\ parts' = Notices /\ raw' = <<>> /\ batch' = ByTime(batch)
        /\ parts = <<>> /\ BadPrefix = Len(raw)
    BY <1>4 DEF Collected, NoNext
  <2>2. Ns(parts') = {raw[k].n : k \in 1 .. Len(raw)}
    BY <1>1, <2>1, NoticesAre
  <2>3. Ns(raw) = {raw[k].n : k \in 1 .. Len(raw)}
    <3>1. DOMAIN raw = 1 .. Len(raw)
      BY <1>1 DEF Types
    <3> QED BY <3>1 DEF Ns, ToSet
  <2>4. Ns(parts) = {} /\ Ns(raw') = {}
    BY <2>1, EmptyIs
  <2>5. Ns(batch') = Ns(batch)
    BY <1>2, <2>1 DEF Ns
  <2> QED BY <2>2, <2>3, <2>4, <2>5, AcceptedIs
<1> QED BY <1>3, <1>4

LEMMA StepImplements ==
  ASSUME IInv, [Next]_vars
  PROVE  Channel!Next \/ UNCHANGED <<owed, settled, late, handler = "closed">>
<1>1. CASE (\E t \in Loggers : Record(t)) \/ Clock \/ Close \/ UNCHANGED vars
  <2>1. /\ raw' = raw /\ parts' = parts /\ batch' = batch
        /\ settled' = settled /\ afterStop' = afterStop
        /\ handler' = handler \/ (handler = "open" /\ handler' = "closing")
    BY <1>1 DEF Record, Clock, Close, vars
  <2> QED BY <2>1, AcceptedIs, ChannelKept
<1>2. CASE \E t \in Loggers : Emit(t)
  BY <1>2, EmitAccepts DEF Channel!Next
<1>3. CASE Run
  <2>1. batch = <<>>
    BY <1>3 DEF Run, IInv, Batches
  <2>2. /\ raw' = raw /\ parts' = parts /\ batch' = batch
        /\ settled' = settled /\ afterStop' = afterStop /\ handler' = handler
    BY <1>3, <2>1 DEF Run
  <2> QED BY <2>2, AcceptedIs, ChannelKept
<1>4. CASE Collect \/ Collected
  <2>1. Accepted' = Accepted
    BY <1>4, CollectAccepts
  <2>2. settled' = settled /\ afterStop' = afterStop /\ handler' = handler
    BY <1>4 DEF Collect, Collected
  <2> QED BY <2>1, <2>2, ChannelKept
<1>5. CASE Uploaded
  <2>1. /\ settled' = settled \union Gone /\ batch' = <<>>
        /\ raw' = raw /\ parts' = parts /\ handler' = handler /\ afterStop' = afterStop
    BY <1>5 DEF Uploaded
  <2> QED BY <2>1, DoneSettles DEF Channel!Next
<1>6. CASE UploadFails
  <2>1. raw' = raw /\ parts' = parts /\ handler' = handler /\ afterStop' = afterStop
    BY <1>6 DEF UploadFails
  <2>2. CASE TriesLeft = 0
    <3>1. settled' = settled \union Gone /\ batch' = <<>>
      BY <1>6, <2>2 DEF UploadFails
    <3> QED BY <2>1, <3>1, DoneSettles DEF Channel!Next
  <2>3. CASE TriesLeft # 0
    <3>1. settled' = settled /\ batch' = batch
      BY <1>6, <2>3 DEF UploadFails
    <3> QED BY <2>1, <3>1, AcceptedIs, ChannelKept
  <2> QED BY <2>2, <2>3
<1>7. CASE Join
  <2>1. /\ handler = "closing" /\ pc = "ended" /\ handler' = "closed"
        /\ raw' = raw /\ parts' = parts /\ batch' = batch
        /\ settled' = settled /\ afterStop' = afterStop
    BY <1>7 DEF Join
  <2>2. Accepted \subseteq settled \union afterStop
    BY <2>1 DEF IInv, Flow
  <2>3. owed = {} /\ owed' = owed /\ late' = late
    BY <2>1, <2>2, AcceptedIs DEF owed, late
  <2>4. Channel!Close
    BY <2>1, <2>3 DEF Channel!Close, owed, late
  <2> QED BY <2>4 DEF Channel!Next
<1> QED BY <1>1, <1>2, <1>3, <1>4, <1>5, <1>6, <1>7 DEF Next, Thread

\* A CloudWatchHandler keeps the promise of a log channel: what it takes is owed
\* until it is stored or given up, nothing is settled that it was not given, and
\* close() waits until nothing is owed but what came after its call.
THEOREM TheHandlerIsAChannel == Spec => ChannelSpec
<1>1. Init => Channel!Init
  <2> SUFFICES ASSUME Init PROVE Channel!Init
    OBVIOUS
  <2>1. Accepted = {}
    BY AcceptedIs, EmptyIs DEF Init
  <2> QED BY <2>1 DEF Init, Channel!Init
<1>2. IInv /\ [Next]_vars => [Channel!Next]_(Channel!vars)
  BY StepImplements DEF Channel!vars, owed, late
<1>3. QED
  BY <1>1, <1>2, Invariant, PTL DEF Spec, ChannelSpec, Channel!Spec

=================================================================================
