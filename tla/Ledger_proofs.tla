---------------------------- MODULE Ledger_proofs ----------------------------
(* What changing one value of a function does to its total, and what the    *)
(* calls on a StrictBank, and the payment of an execution fee, do to its    *)
(* type and to its recorded balances.                                       *)
EXTENDS Requests, FiniteSetTheorems, TLAPS

Slice(f, k) == {k} \X (1..f[k])

(* The units of one key are counted by its value.                           *)
LEMMA SliceCardinality ==
  ASSUME NEW f, NEW k, f[k] \in Nat
  PROVE  IsFiniteSet(Slice(f, k)) /\ Cardinality(Slice(f, k)) = f[k]
<1>1. IsFiniteSet(1..f[k]) /\ Cardinality(1..f[k]) = f[k]
  BY FS_Interval
<1> DEFINE pair == [i \in 1..f[k] |-> <<k, i>>]
<1>2. pair \in Bijection(1..f[k], Slice(f, k))
  <2>1. pair \in [1..f[k] -> Slice(f, k)]
    BY DEF Slice
  <2>2. \A i, j \in 1..f[k] : pair[i] = pair[j] => i = j
    OBVIOUS
  <2>3. \A u \in Slice(f, k) : \E i \in 1..f[k] : pair[i] = u
    BY DEF Slice
  <2> QED
    BY <2>1, <2>2, <2>3 DEF Bijection, Injection, Surjection, IsInjective
<1>3. ExistsBijection(1..f[k], Slice(f, k))
  BY <1>2 DEF ExistsBijection
<1> QED
  BY <1>1, <1>3, FS_Bijection

LEMMA SlicesUnion ==
  ASSUME NEW f
  PROVE  Units(f) = UNION {Slice(f, k) : k \in DOMAIN f}
BY DEF Units, Slice

(* A function of naturals with a finite domain has finitely many units, so  *)
(* its total is a natural number.                                           *)
LEMMA UnitsFinite ==
  ASSUME NEW S, IsFiniteSet(S), NEW f \in [S -> Nat]
  PROVE  IsFiniteSet(Units(f)) /\ Total(f) \in Nat
<1> DEFINE slices == {Slice(f, k) : k \in S}
<1> DEFINE slice == [k \in S |-> Slice(f, k)]
<1>1. IsFiniteSet(slices)
  <2>1. slice \in Surjection(S, slices)
    BY DEF Surjection
  <2> QED
    BY <2>1, FS_Surjection
<1>2. \A T \in slices : IsFiniteSet(T)
  BY SliceCardinality
<1>3. IsFiniteSet(UNION slices)
  BY <1>1, <1>2, FS_UNION
<1> QED
  BY <1>3, SlicesUnion, FS_CardinalityType DEF Total

(* Changing f at k replaces the units of k and no others.                   *)
LEMMA TotalUpdate ==
  ASSUME NEW S, IsFiniteSet(S), NEW f \in [S -> Nat], NEW g \in [S -> Nat],
         NEW k \in S, \A j \in S \ {k} : g[j] = f[j]
  PROVE  Total(g) = Total(f) - f[k] + g[k]
<1> DEFINE Rest(h) == UNION {Slice(h, j) : j \in S \ {k}}
<1>1. Rest(g) = Rest(f)
  BY DEF Slice
<1>2. ASSUME NEW h \in [S -> Nat]
      PROVE  IsFiniteSet(Rest(h)) /\ Total(h) = Cardinality(Rest(h)) + h[k]
  <2>1. Units(h) = Rest(h) \cup Slice(h, k)
    BY SlicesUnion
  <2>2. Rest(h) \cap Slice(h, k) = {}
    BY DEF Slice
  <2>3. IsFiniteSet(Units(h))
    BY UnitsFinite
  <2>4. IsFiniteSet(Rest(h))
    BY <2>1, <2>3, FS_Subset
  <2>5. IsFiniteSet(Slice(h, k)) /\ Cardinality(Slice(h, k)) = h[k]
    BY SliceCardinality
  <2>6. Cardinality(Rest(h)) \in Nat
    BY <2>4, FS_CardinalityType
  <2>7. Cardinality(Units(h)) = Cardinality(Rest(h)) + h[k] - Cardinality({})
    <3> HIDE DEF Rest
    <3> QED
      BY <2>1, <2>2, <2>4, <2>5, FS_Union
  <2> QED
    BY <2>4, <2>6, <2>7, FS_EmptySet DEF Total
<1>3. Cardinality(Rest(f)) \in Nat
  BY <1>2, FS_CardinalityType
<1>4. Total(f) = Cardinality(Rest(f)) + f[k] /\ Total(g) = Cardinality(Rest(f)) + g[k]
  BY <1>1, <1>2
<1> HIDE DEF Rest
<1> QED
  BY <1>3, <1>4

(* A balance that covers a total still covers it after one summand changed  *)
(* and the balance moved at least as far.                                   *)
LEMMA TotalCovered ==
  ASSUME NEW S, IsFiniteSet(S), NEW f \in [S -> Nat], NEW g \in [S -> Nat],
         NEW k \in S, \A j \in S \ {k} : g[j] = f[j],
         NEW b \in Nat, NEW c \in Nat, Total(f) <= b, c - b >= g[k] - f[k]
  PROVE  Total(g) <= c
<1>1. Total(f) \in Nat
  BY UnitsFinite
<1>2. Total(g) = Total(f) - f[k] + g[k]
  BY TotalUpdate
<1> QED
  BY <1>1, <1>2

(* Nothing is owed in total when nothing is owed to anybody.                *)
LEMMA TotalZero ==
  ASSUME NEW S, NEW f \in [S -> Nat], \A k \in S : f[k] = 0
  PROVE  Total(f) = 0
<1>1. Units(f) = {}
  BY DEF Units
<1> QED
  BY <1>1, FS_EmptySet DEF Total
-----------------------------------------------------------------------------
(* Totals of sums, of parts and of multiples.  A total counts the units of   *)
(* its summands, so each is a bijection or an inclusion of sets of units.   *)

(* A unit is numbered, and counted where it lies.                           *)
LEMMA UnitIn ==
  ASSUME NEW S, NEW f \in [S -> Nat], NEW k, NEW i
  PROVE  <<k, i>> \in Units(f) <=> k \in S /\ i \in 1..f[k]
BY DEF Units

(* A unit is a key and a number.                                            *)
LEMMA UnitsPairs ==
  ASSUME NEW S, NEW f \in [S -> Nat], NEW u \in Units(f)
  PROVE  u = <<u[1], u[2]>> /\ u[1] \in S /\ u[2] \in 1..f[u[1]]
BY DEF Units

(* A total grows with its summands.                                         *)
LEMMA TotalAtMost ==
  ASSUME NEW S, IsFiniteSet(S), NEW f \in [S -> Nat], NEW g \in [S -> Nat], \A k \in S : f[k] <= g[k]
  PROVE  Total(f) <= Total(g)
<1>1. Units(f) \subseteq Units(g)
  <2>1. ASSUME NEW u \in Units(f) PROVE u \in Units(g)
    <3>1. u = <<u[1], u[2]>> /\ u[1] \in S /\ u[2] \in 1..f[u[1]]
      BY UnitsPairs
    <3>2. u[2] \in 1..g[u[1]]
      BY <3>1
    <3> QED
      BY <3>1, <3>2, UnitIn
  <2> QED
    BY <2>1
<1> QED
  BY <1>1, UnitsFinite, FS_Subset DEF Total

(* The total over two parts is the sum of theirs.                           *)
LEMMA TotalParts ==
  ASSUME NEW A, IsFiniteSet(A), NEW B, IsFiniteSet(B), A \cap B = {}, NEW S, S = A \cup B,
         NEW f \in [S -> Nat], NEW a \in [A -> Nat], NEW b \in [B -> Nat],
         \A k \in A : f[k] = a[k], \A k \in B : f[k] = b[k]
  PROVE  Total(f) = Total(a) + Total(b)
<1>1. Units(f) = Units(a) \cup Units(b)
  <2>1. ASSUME NEW u \in Units(f) PROVE u \in Units(a) \cup Units(b)
    <3>1. u = <<u[1], u[2]>> /\ u[1] \in S /\ u[2] \in 1..f[u[1]]
      BY UnitsPairs
    <3> QED
      BY <3>1, UnitIn
  <2>2. ASSUME NEW u \in Units(a) PROVE u \in Units(f)
    <3>1. u = <<u[1], u[2]>> /\ u[1] \in A /\ u[2] \in 1..a[u[1]]
      BY UnitsPairs
    <3> QED
      BY <3>1, UnitIn
  <2>3. ASSUME NEW u \in Units(b) PROVE u \in Units(f)
    <3>1. u = <<u[1], u[2]>> /\ u[1] \in B /\ u[2] \in 1..b[u[1]]
      BY UnitsPairs
    <3> QED
      BY <3>1, UnitIn
  <2> QED
    BY <2>1, <2>2, <2>3
<1>2. Units(a) \cap Units(b) = {}
  <2>1. ASSUME NEW u \in Units(a), u \in Units(b) PROVE FALSE
    <3>1. u[1] \in A /\ u[1] \in B
      BY <2>1, UnitsPairs
    <3> QED
      BY <3>1
  <2> QED
    BY <2>1
<1>3. IsFiniteSet(Units(a)) /\ IsFiniteSet(Units(b)) /\ Total(a) \in Nat /\ Total(b) \in Nat
  BY UnitsFinite
<1>4. Total(f) = Total(a) + Total(b) - Cardinality({})
  BY <1>1, <1>2, <1>3, FS_Union DEF Total
<1> QED
  BY <1>3, <1>4, FS_EmptySet

(* The total of sums is the sum of the totals.                              *)
LEMMA TotalPlus ==
  ASSUME NEW S, IsFiniteSet(S), NEW f \in [S -> Nat], NEW g \in [S -> Nat], NEW h \in [S -> Nat],
         \A k \in S : h[k] = f[k] + g[k]
  PROVE  Total(h) = Total(f) + Total(g)
<1> DEFINE above == {u \in Units(h) : u[2] > f[u[1]]}
           lift == [u \in Units(g) |-> <<u[1], f[u[1]] + u[2]>>]
<1>1. Units(h) = Units(f) \cup above
  <2>1. ASSUME NEW u \in Units(h), u \notin above PROVE u \in Units(f)
    <3>1. u = <<u[1], u[2]>> /\ u[1] \in S /\ u[2] \in 1..h[u[1]]
      BY UnitsPairs
    <3>2. f[u[1]] \in Nat /\ u[2] \in Int /\ ~(u[2] > f[u[1]])
      BY <2>1, <3>1
    <3>3. u[2] \in 1..f[u[1]]
      BY <3>1, <3>2
    <3> QED
      BY <3>1, <3>3, UnitIn
  <2>2. ASSUME NEW u \in Units(f) PROVE u \in Units(h)
    <3>1. u = <<u[1], u[2]>> /\ u[1] \in S /\ u[2] \in 1..f[u[1]]
      BY UnitsPairs
    <3>2. u[2] \in 1..h[u[1]]
      BY <3>1
    <3> QED
      BY <3>1, <3>2, UnitIn
  <2> QED
    BY <2>1, <2>2
<1>2. Units(f) \cap above = {}
  <2>1. ASSUME NEW u \in Units(f), u \in above PROVE FALSE
    <3>1. u[1] \in S /\ u[2] \in 1..f[u[1]] /\ u[2] > f[u[1]]
      BY <2>1, UnitsPairs
    <3> QED
      BY <3>1
  <2> QED
    BY <2>1
<1>3. lift \in Bijection(Units(g), above)
  <2>1. lift \in [Units(g) -> above]
    <3>1. ASSUME NEW u \in Units(g) PROVE <<u[1], f[u[1]] + u[2]>> \in above
      <4>1. u[1] \in S /\ u[2] \in 1..g[u[1]]
        BY UnitsPairs
      <4> DEFINE i == f[u[1]] + u[2]
      <4>2. i \in 1..h[u[1]] /\ i > f[u[1]]
        BY <4>1
      <4> HIDE DEF i
      <4>3. <<u[1], i>> \in Units(h)
        BY <4>1, <4>2, UnitIn
      <4>4. <<u[1], i>> \in above
        BY <4>2, <4>3
      <4> QED
        BY <4>4 DEF i
    <3> QED
      BY <3>1
  <2>2. ASSUME NEW u \in Units(g), NEW v \in Units(g), lift[u] = lift[v] PROVE u = v
    <3>1. /\ u = <<u[1], u[2]>> /\ u[1] \in S /\ u[2] \in 1..g[u[1]]
          /\ v = <<v[1], v[2]>> /\ v[1] \in S /\ v[2] \in 1..g[v[1]]
      BY UnitsPairs
    <3>2. u[1] = v[1] /\ f[u[1]] + u[2] = f[v[1]] + v[2]
      BY <2>2
    <3>3. u[2] = v[2]
      BY <3>1, <3>2
    <3> QED
      BY <3>1, <3>2, <3>3
  <2>3. ASSUME NEW w \in above PROVE \E u \in Units(g) : lift[u] = w
    <3>1. w = <<w[1], w[2]>> /\ w[1] \in S /\ w[2] \in 1..h[w[1]] /\ w[2] > f[w[1]]
      BY UnitsPairs
    <3> DEFINE k == w[1]
               i == w[2] - f[k]
    <3>2. i \in 1..g[k] /\ f[k] + i = w[2] /\ k \in S
      BY <3>1
    <3> HIDE DEF i
    <3>3. <<k, i>> \in Units(g)
      BY <3>2, UnitIn
    <3>4. lift[<<k, i>>] = <<k, f[k] + i>>
      BY <3>3
    <3> QED
      BY <3>1, <3>2, <3>3, <3>4
  <2> HIDE DEF lift, above
  <2> QED
    BY <2>1, <2>2, <2>3 DEF Bijection, Injection, Surjection, IsInjective
<1>4. IsFiniteSet(above) /\ Cardinality(above) = Total(g)
  <2>1. ExistsBijection(Units(g), above)
    BY <1>3 DEF ExistsBijection
  <2> HIDE DEF above
  <2> QED
    BY <2>1, UnitsFinite, FS_Bijection DEF Total
<1>5. IsFiniteSet(Units(f)) /\ Total(f) \in Nat /\ Total(g) \in Nat
  BY UnitsFinite
<1> HIDE DEF above
<1>6. Total(h) = Total(f) + Total(g) - Cardinality({})
  BY <1>1, <1>2, <1>4, <1>5, FS_Union DEF Total
<1> QED
  BY <1>5, <1>6, FS_EmptySet

(* A product grows with its first factor.                                   *)
LEMMA UpToFactor ==
  ASSUME NEW a \in Nat, NEW b \in Nat, NEW c \in Nat, a <= b
  PROVE  a * c <= b * c /\ c * a <= c * b
OBVIOUS

(* The places of the i-th block of c.                                       *)
LEMMA Place ==
  ASSUME NEW n \in Nat, NEW c \in Nat, NEW i \in 1..n, NEW j \in 1..c
  PROVE  (i - 1) * c + j \in 1..(c * n)
<1>1. i <= n /\ i \in Nat /\ i - 1 \in Nat
  OBVIOUS
<1>2. (i - 1) * c \in Nat /\ (i - 1) * c + c = i * c
  BY <1>1
<1>3. i * c <= n * c /\ n * c = c * n /\ c * n \in Nat
  BY <1>1, UpToFactor
<1> DEFINE a == (i - 1) * c
           b == i * c
           m == c * n
<1>4. a \in Nat /\ a + c = b /\ b <= m /\ m \in Nat
  BY <1>2, <1>3
<1> HIDE DEF a, b, m
<1>5. a + j \in 1..m
  BY <1>4
<1> QED
  BY <1>5 DEF a, m

(* Different members of blocks have different places.                       *)
LEMMA PlaceOnce ==
  ASSUME NEW c \in Nat, NEW i \in Nat \ {0}, NEW j \in 1..c, NEW i2 \in Nat \ {0}, NEW j2 \in 1..c,
         (i - 1) * c + j = (i2 - 1) * c + j2
  PROVE  i = i2 /\ j = j2
<1>1. ASSUME NEW p \in Nat \ {0}, NEW q \in 1..c, NEW p2 \in Nat \ {0}, NEW q2 \in 1..c, p < p2
      PROVE  (p - 1) * c + q < (p2 - 1) * c + q2
  <2>1. p * c <= (p2 - 1) * c
    BY <1>1, UpToFactor
  <2>2. (p - 1) * c + c = p * c /\ p * c \in Nat /\ (p2 - 1) * c \in Nat /\ (p - 1) * c \in Nat
    BY <1>1
  <2> DEFINE a == (p - 1) * c
             b == p * c
             d == (p2 - 1) * c
  <2>3. b <= d /\ a + c = b /\ a \in Nat /\ b \in Nat /\ d \in Nat
    BY <2>1, <2>2
  <2> HIDE DEF a, b, d
  <2>4. a + q < d + q2
    BY <2>3
  <2> QED
    BY <2>4 DEF a, d
<1>2. (i - 1) * c \in Int /\ (i2 - 1) * c \in Int
  OBVIOUS
<1> DEFINE x == (i - 1) * c + j
           y == (i2 - 1) * c + j2
<1>3. x = y /\ x \in Int /\ y \in Int
  BY <1>2
<1>4. ~(i < i2) /\ ~(i2 < i)
  <2>1. i < i2 => x < y
    BY <1>1
  <2>2. i2 < i => y < x
    BY <1>1
  <2> HIDE DEF x, y
  <2> QED
    BY <1>3, <2>1, <2>2
<1>5. i = i2
  BY <1>4
<1> QED
  BY <1>2, <1>5

(* Every place is in one of the blocks.                                     *)
LEMMA PlaceOf ==
  ASSUME NEW n \in Nat, NEW c \in Nat, c > 0, NEW m \in 1..(c * n)
  PROVE  \E i \in 1..n, j \in 1..c : (i - 1) * c + j = m
<1> DEFINE q == (m - 1) \div c
           r == (m - 1) % c
<1>1. /\ q \in Nat /\ r \in Nat /\ r < c /\ m - 1 = c * q + r
  BY Z3
<1> HIDE DEF q, r
<1>2. ~(n <= q)
  <2>1. ASSUME n <= q PROVE FALSE
    <3>1. c * n <= c * q
      BY <1>1, <2>1, UpToFactor
    <3>2. c * n \in Nat /\ c * q \in Nat
      BY <1>1
    <3> DEFINE a == c * n
               b == c * q
    <3>3. a <= b /\ a \in Nat /\ b \in Nat /\ m \in 1..a /\ m - 1 = b + r
      BY <1>1, <3>1, <3>2
    <3> HIDE DEF a, b
    <3> QED
      BY <1>1, <3>3
  <2> QED
    BY <2>1
<1>3. q + 1 \in 1..n /\ r + 1 \in 1..c
  BY <1>1, <1>2
<1>4. ((q + 1) - 1) * c + (r + 1) = m
  <2>1. ((q + 1) - 1) * c = c * q /\ c * q \in Nat
    BY <1>1
  <2> DEFINE b == c * q
  <2>2. b \in Nat /\ m - 1 = b + r /\ ((q + 1) - 1) * c = b
    BY <1>1, <2>1
  <2> HIDE DEF b
  <2> QED
    BY <1>1, <2>2
<1> QED
  BY <1>3, <1>4

(* The total of multiples is the multiple of the total.                     *)
LEMMA TotalTimes ==
  ASSUME NEW S, IsFiniteSet(S), NEW f \in [S -> Nat], NEW g \in [S -> Nat], NEW c \in Nat,
         \A k \in S : g[k] = c * f[k]
  PROVE  Total(g) = c * Total(f)
<1>1. IsFiniteSet(Units(f)) /\ Total(f) \in Nat
  BY UnitsFinite
<1>2. CASE c = 0
  <2>1. \A k \in S : g[k] = 0
    BY <1>2
  <2>2. Total(g) = 0
    BY <2>1, TotalZero
  <2> QED
    BY <1>1, <1>2, <2>2
<1>3. CASE c > 0
  <2> DEFINE pairs == Units(f) \X (1..c)
             place == [p \in pairs |-> <<p[1][1], (p[1][2] - 1) * c + p[2]>>]
  <2>1. place \in [pairs -> Units(g)]
    <3>1. ASSUME NEW p \in pairs PROVE <<p[1][1], (p[1][2] - 1) * c + p[2]>> \in Units(g)
      <4> DEFINE k == p[1][1]
                 i == p[1][2]
                 j == p[2]
      <4>1. k \in S /\ i \in 1..f[k] /\ j \in 1..c
        BY UnitsPairs
      <4>2. (i - 1) * c + j \in 1..(c * f[k])
        BY <4>1, Place
      <4>3. (i - 1) * c + j \in 1..g[k]
        BY <4>1, <4>2
      <4> QED
        BY <4>1, <4>3, UnitIn
    <3> QED
      BY <3>1
  <2>2. ASSUME NEW p \in pairs, NEW q \in pairs, place[p] = place[q] PROVE p = q
    <3> DEFINE u == p[1]
               v == q[1]
    <3>1. /\ p = <<u, p[2]>> /\ q = <<v, q[2]>> /\ p[2] \in 1..c /\ q[2] \in 1..c
          /\ u \in Units(f) /\ v \in Units(f)
      OBVIOUS
    <3>2. /\ u = <<u[1], u[2]>> /\ u[1] \in S /\ u[2] \in 1..f[u[1]]
          /\ v = <<v[1], v[2]>> /\ v[1] \in S /\ v[2] \in 1..f[v[1]]
      BY <3>1, UnitsPairs
    <3>3. u[1] = v[1] /\ (u[2] - 1) * c + p[2] = (v[2] - 1) * c + q[2]
      BY <2>2
    <3>4. u[2] \in Nat \ {0} /\ v[2] \in Nat \ {0}
      BY <3>2
    <3> DEFINE i == u[2]
               j == p[2]
               i2 == v[2]
               j2 == q[2]
    <3>5. i = i2 /\ j = j2
      <4>1. /\ i \in Nat \ {0} /\ j \in 1..c /\ i2 \in Nat \ {0} /\ j2 \in 1..c
            /\ (i - 1) * c + j = (i2 - 1) * c + j2
        BY <3>1, <3>3, <3>4
      <4> HIDE DEF i, j, i2, j2
      <4> QED
        BY <4>1, PlaceOnce
    <3> HIDE DEF u, v
    <3>6. u = v
      BY <3>2, <3>3, <3>5
    <3> QED
      BY <3>1, <3>5, <3>6
  <2>3. ASSUME NEW w \in Units(g) PROVE \E p \in pairs : place[p] = w
    <3>1. w = <<w[1], w[2]>> /\ w[1] \in S /\ w[2] \in 1..g[w[1]]
      BY UnitsPairs
    <3>2. f[w[1]] \in Nat /\ w[2] \in 1..(c * f[w[1]])
      BY <3>1
    <3>3. PICK i \in 1..f[w[1]], j \in 1..c : (i - 1) * c + j = w[2]
      BY <1>3, <3>2, PlaceOf
    <3>4. <<w[1], i>> \in Units(f)
      BY <3>1, UnitIn
    <3> DEFINE p == <<<<w[1], i>>, j>>
    <3>5. p \in pairs /\ place[p] = <<w[1], (i - 1) * c + j>>
      BY <3>4
    <3> QED
      BY <3>1, <3>3, <3>5
  <2> HIDE DEF place, pairs
  <2>4. ExistsBijection(pairs, Units(g))
    BY <2>1, <2>2, <2>3 DEF ExistsBijection, Bijection, Injection, Surjection, IsInjective
  <2>5. IsFiniteSet(1..c) /\ Cardinality(1..c) = c
    BY <1>3, FS_Interval
  <2>6. IsFiniteSet(pairs) /\ Cardinality(pairs) = Cardinality(Units(f)) * Cardinality(1..c)
    BY <1>1, <2>5, FS_Product DEF pairs
  <2>7. Cardinality(Units(g)) = Total(f) * c
    BY <2>4, <2>5, <2>6, FS_Bijection DEF Total
  <2>8. Total(g) = Total(f) * c
    BY <2>7 DEF Total
  <2> QED
    BY <1>1, <2>8
<1> QED
  BY <1>2, <1>3

-----------------------------------------------------------------------------
(* The three calls on a bank keep its type and the recorded part covered.   *)
LEMMA TransferInType ==
  ASSUME NEW Tokens, NEW v \in BankType(Tokens), NEW t \in Tokens, NEW n \in Nat,
         Covered(v, Tokens)
  PROVE  /\ TransferIn(v, t, n) \in BankType(Tokens)
         /\ TransferIn(v, t, n).tokenBalances = v.tokenBalances
         /\ Covered(TransferIn(v, t, n), Tokens)
BY DEF BankType, TransferIn, Covered

LEMMA RecordType ==
  ASSUME NEW Tokens, NEW v \in BankType(Tokens), NEW t \in Tokens,
         Covered(v, Tokens)
  PROVE  /\ RecordTransferIn(v, t) \in BankType(Tokens)
         /\ RecordTransferIn(v, t).balance = v.balance
         /\ RecordTransferIn(v, t).tokenBalances = [v.tokenBalances EXCEPT ![t] = v.balance[t]]
         /\ Received(v, t) \in Nat
         /\ Covered(RecordTransferIn(v, t), Tokens)
BY DEF BankType, RecordTransferIn, Received, Covered

LEMMA TransferOutType ==
  ASSUME NEW Tokens, NEW v \in BankType(Tokens), NEW t \in Tokens, NEW n \in Nat,
         Covered(v, Tokens), CanTransferOut(v, t, n)
  PROVE  /\ TransferOut(v, t, n) \in BankType(Tokens)
         /\ TransferOut(v, t, n).balance = [v.balance EXCEPT ![t] = v.balance[t] - n]
         /\ TransferOut(v, t, n).tokenBalances =
              [v.tokenBalances EXCEPT ![t] = v.balance[t] - n]
         /\ Covered(TransferOut(v, t, n), Tokens)
<1> DEFINE left == v.balance[t] - n
<1>1. left \in Nat
  BY DEF BankType, CanTransferOut
<1>2. TransferOut(v, t, n) = [balance |-> [v.balance EXCEPT ![t] = left],
                             tokenBalances |-> [v.tokenBalances EXCEPT ![t] = left]]
  BY DEF TransferOut
<1>3. left = v.balance[t] - n
  OBVIOUS
<1> HIDE DEF left
<1> QED
  BY <1>1, <1>2, <1>3 DEF BankType, Covered

(* A payment takes at most its amount off what is recorded: an unrecorded   *)
(* surplus is recorded with it.                                             *)
LEMMA TransferOutBook ==
  ASSUME NEW Tokens, NEW v \in BankType(Tokens), NEW t \in Tokens, NEW n \in Nat,
         Covered(v, Tokens), CanTransferOut(v, t, n), NEW u \in Tokens
  PROVE  TransferOut(v, t, n).tokenBalances[u] - v.tokenBalances[u]
           >= 0 - (IF u = t THEN n ELSE 0)
<1> DEFINE after == TransferOut(v, t, n).tokenBalances
<1>1. after = [v.tokenBalances EXCEPT ![t] = v.balance[t] - n]
  BY DEF TransferOut
<1> HIDE DEF after
<1>2. v.tokenBalances[u] <= v.balance[u]
  BY DEF Covered
<1>3. v.balance \in [Tokens -> Nat] /\ v.tokenBalances \in [Tokens -> Nat]
  BY DEF BankType
<1>4. after[u] - v.tokenBalances[u] >= 0 - (IF u = t THEN n ELSE 0)
  BY <1>1, <1>2, <1>3
<1> QED
  BY <1>4 DEF after

(* The keeper's share and the refund leave the bank one after the other;    *)
(* together they are the fee, and what is left is recorded.                 *)
LEMMA PayFeeType ==
  ASSUME NEW Tokens, NEW v \in BankType(Tokens), NEW t \in Tokens, NEW fee \in Nat,
         NEW n \in 0..fee, Covered(v, Tokens), CanTransferOut(v, t, fee)
  PROVE  /\ PayFee(v, t, fee, n) \in BankType(Tokens)
         /\ PayFee(v, t, fee, n).balance = [v.balance EXCEPT ![t] = v.balance[t] - fee]
         /\ PayFee(v, t, fee, n).tokenBalances =
              [v.tokenBalances EXCEPT ![t] = v.balance[t] - fee]
         /\ Covered(PayFee(v, t, fee, n), Tokens)
<1> DEFINE paid == TransferOut(v, t, n)
           rest == fee - n
           last == TransferOut(paid, t, rest)
<1>1. PayFee(v, t, fee, n) = IF rest = 0 THEN paid ELSE last
  BY DEF PayFee
<1>2. n \in Nat /\ rest \in Nat /\ n <= fee
  OBVIOUS
<1>3. v.balance \in [Tokens -> Nat] /\ v.tokenBalances \in [Tokens -> Nat]
  BY DEF BankType
<1>4. CanTransferOut(v, t, n)
  BY <1>2, <1>3 DEF CanTransferOut
<1>5. /\ paid \in BankType(Tokens) /\ Covered(paid, Tokens)
      /\ paid.balance = [v.balance EXCEPT ![t] = v.balance[t] - n]
      /\ paid.tokenBalances = [v.tokenBalances EXCEPT ![t] = v.balance[t] - n]
  BY <1>2, <1>4, TransferOutType
<1> HIDE DEF paid
<1>6. CanTransferOut(paid, t, rest)
  BY <1>2, <1>3, <1>5 DEF CanTransferOut
<1>7. /\ last \in BankType(Tokens) /\ Covered(last, Tokens)
      /\ last.balance = [paid.balance EXCEPT ![t] = paid.balance[t] - rest]
      /\ last.tokenBalances = [paid.tokenBalances EXCEPT ![t] = paid.balance[t] - rest]
  <2>1. last = TransferOut(paid, t, rest)
    OBVIOUS
  <2>2. paid \in BankType(Tokens) /\ Covered(paid, Tokens) /\ rest \in Nat
    BY <1>2, <1>5
  <2> HIDE DEF last, rest
  <2> QED
    BY <1>6, <2>1, <2>2, TransferOutType
<1>8. paid.balance[t] = v.balance[t] - n
  BY <1>3, <1>5
<1>9. paid.balance[t] - rest = v.balance[t] - fee
  BY <1>2, <1>3, <1>8
<1> HIDE DEF last
<1>10. /\ last.balance = [v.balance EXCEPT ![t] = v.balance[t] - fee]
       /\ last.tokenBalances = [v.tokenBalances EXCEPT ![t] = v.balance[t] - fee]
  BY <1>3, <1>5, <1>7, <1>9
<1>11. rest = 0 => n = fee
  BY <1>2
<1> QED
  BY <1>1, <1>5, <1>7, <1>10, <1>11
=============================================================================
