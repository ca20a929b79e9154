--------------------------- MODULE ProgressProofs ---------------------------
(***************************************************************************)
(* Theorems about Progress: how a measure is shown to get lower, and why no *)
(* measure over finite sets does so for ever.  The systems that use it      *)
(* (Consumer, Discovery, Crawl) show that their steps lower their WorkLeft. *)
(***************************************************************************)
EXTENDS Progress, FiniteSetTheorems, WellFoundedInduction, TLAPS

-----------------------------------------------------------------------------
(* One vector.                                                             *)

\* A vector falls when one of its numbers falls and none rises.
LEMMA FallsIf ==
  ASSUME NEW S, NEW f \in [S -> Nat], NEW g \in [S -> Nat], NEW x \in S,
         g[x] < f[x], \A y \in S : g[y] <= f[y]
  PROVE  Falls(g, f)
  <1>1. g # f
    OBVIOUS
  <1>2. DOMAIN g = S /\ DOMAIN f = S
    OBVIOUS
  <1>3. \A y \in S : g[y] \in 0..f[y]
    OBVIOUS
  <1> QED BY <1>1, <1>2, <1>3 DEF Falls

\* The same where only one number changes.
LEMMA FallsAt ==
  ASSUME NEW S, NEW f \in [S -> Nat], NEW g \in [S -> Nat], NEW x \in S,
         g[x] < f[x], \A y \in S : y # x => g[y] = f[y]
  PROVE  Falls(g, f)
  <1>1. \A y \in S : g[y] <= f[y]
    <2> TAKE y \in S
    <2>1. CASE y = x
      BY <2>1
    <2>2. CASE y # x
      BY <2>2
    <2> QED BY <2>1, <2>2
  <1> QED BY <1>1, FallsIf

\* What it means that a vector falls.
LEMMA FallsMeans ==
  ASSUME NEW S, NEW f \in [S -> Nat], NEW g \in [S -> Nat], Falls(g, f)
  PROVE  (\A y \in S : g[y] <= f[y]) /\ (\E x \in S : g[x] < f[x])
  <1>1. \A y \in S : g[y] \in Nat /\ f[y] \in Nat /\ g[y] \in 0..f[y]
    BY DEF Falls
  <1>2. \A y \in S : g[y] <= f[y]
    BY <1>1
  <1>3. PICK x \in S : g[x] # f[x]
    BY DEF Falls
  <1>4. g[x] < f[x]
    BY <1>1, <1>2, <1>3
  <1> QED BY <1>2, <1>4

-----------------------------------------------------------------------------
(* Measures of three, four and five vectors.                               *)

LEMMA LowerOfThree ==
  ASSUME NEW a1, NEW a2, NEW a3, NEW b1, NEW b2, NEW b3,
         \/ Falls(b1, a1)
         \/ b1 = a1 /\ Falls(b2, a2)
         \/ b1 = a1 /\ b2 = a2 /\ Falls(b3, a3)
  PROVE  Lower(<<b1, b2, b3>>, <<a1, a2, a3>>)
  <1> DEFINE a == <<a1, a2, a3>>
             b == <<b1, b2, b3>>
  <1>1. /\ DOMAIN a = 1..3
        /\ a[1] = a1 /\ a[2] = a2 /\ a[3] = a3 /\ b[1] = b1 /\ b[2] = b2 /\ b[3] = b3
    OBVIOUS
  <1> HIDE DEF a, b
  <1>2. PICK i \in 1..3 : Falls(b[i], a[i]) /\ \A j \in 1..3 : j < i => b[j] = a[j]
    <2>1. CASE Falls(b1, a1)
      BY <1>1, <2>1
    <2>2. CASE b1 = a1 /\ Falls(b2, a2)
      BY <1>1, <2>2
    <2>3. CASE b1 = a1 /\ b2 = a2 /\ Falls(b3, a3)
      BY <1>1, <2>3
    <2> QED BY <2>1, <2>2, <2>3
  <1>3. Lower(b, a)
    BY <1>1, <1>2 DEF Lower
  <1> QED BY <1>3 DEF a, b

LEMMA LowerOfFour ==
  ASSUME NEW a1, NEW a2, NEW a3, NEW a4, NEW b1, NEW b2, NEW b3, NEW b4,
         \/ Falls(b1, a1)
         \/ b1 = a1 /\ Falls(b2, a2)
         \/ b1 = a1 /\ b2 = a2 /\ Falls(b3, a3)
         \/ b1 = a1 /\ b2 = a2 /\ b3 = a3 /\ Falls(b4, a4)
  PROVE  Lower(<<b1, b2, b3, b4>>, <<a1, a2, a3, a4>>)
  <1> DEFINE a == <<a1, a2, a3, a4>>
             b == <<b1, b2, b3, b4>>
  <1>1. /\ DOMAIN a = 1..4
        /\ a[1] = a1 /\ a[2] = a2 /\ a[3] = a3 /\ a[4] = a4
        /\ b[1] = b1 /\ b[2] = b2 /\ b[3] = b3 /\ b[4] = b4
    OBVIOUS
  <1> HIDE DEF a, b
  <1>2. PICK i \in 1..4 : Falls(b[i], a[i]) /\ \A j \in 1..4 : j < i => b[j] = a[j]
    <2>1. CASE Falls(b1, a1)
      BY <1>1, <2>1
    <2>2. CASE b1 = a1 /\ Falls(b2, a2)
      BY <1>1, <2>2
    <2>3. CASE b1 = a1 /\ b2 = a2 /\ Falls(b3, a3)
      BY <1>1, <2>3
    <2>4. CASE b1 = a1 /\ b2 = a2 /\ b3 = a3 /\ Falls(b4, a4)
      BY <1>1, <2>4
    <2> QED BY <2>1, <2>2, <2>3, <2>4
  <1>3. Lower(b, a)
    BY <1>1, <1>2 DEF Lower
  <1> QED BY <1>3 DEF a, b

LEMMA LowerOfFive ==
  ASSUME NEW a1, NEW a2, NEW a3, NEW a4, NEW a5, NEW b1, NEW b2, NEW b3, NEW b4, NEW b5,
         \/ Falls(b1, a1)
         \/ b1 = a1 /\ Falls(b2, a2)
         \/ b1 = a1 /\ b2 = a2 /\ Falls(b3, a3)
         \/ b1 = a1 /\ b2 = a2 /\ b3 = a3 /\ Falls(b4, a4)
         \/ b1 = a1 /\ b2 = a2 /\ b3 = a3 /\ b4 = a4 /\ Falls(b5, a5)
  PROVE  Lower(<<b1, b2, b3, b4, b5>>, <<a1, a2, a3, a4, a5>>)
  <1> DEFINE a == <<a1, a2, a3, a4, a5>>
             b == <<b1, b2, b3, b4, b5>>
  <1>1. /\ DOMAIN a = 1..5
        /\ a[1] = a1 /\ a[2] = a2 /\ a[3] = a3 /\ a[4] = a4 /\ a[5] = a5
        /\ b[1] = b1 /\ b[2] = b2 /\ b[3] = b3 /\ b[4] = b4 /\ b[5] = b5
    OBVIOUS
  <1> HIDE DEF a, b
  <1>2. PICK i \in 1..5 : Falls(b[i], a[i]) /\ \A j \in 1..5 : j < i => b[j] = a[j]
    <2>1. CASE Falls(b1, a1)
      BY <1>1, <2>1
    <2>2. CASE b1 = a1 /\ Falls(b2, a2)
      BY <1>1, <2>2
    <2>3. CASE b1 = a1 /\ b2 = a2 /\ Falls(b3, a3)
      BY <1>1, <2>3
    <2>4. CASE b1 = a1 /\ b2 = a2 /\ b3 = a3 /\ Falls(b4, a4)
      BY <1>1, <2>4
    <2>5. CASE b1 = a1 /\ b2 = a2 /\ b3 = a3 /\ b4 = a4 /\ Falls(b5, a5)
      BY <1>1, <2>5
    <2> QED BY <2>1, <2>2, <2>3, <2>4, <2>5
  <1>3. Lower(b, a)
    BY <1>1, <1>2 DEF Lower
  <1> QED BY <1>3 DEF a, b

-----------------------------------------------------------------------------
(* No measure gets lower for ever.                                         *)

\* A vector as a set: its numbers in unary.
Units(S, f) == {t \in S \X Nat : t[2] \in 1..f[t[1]]}

LEMMA UnitsFinite ==
  ASSUME NEW S, IsFiniteSet(S), NEW f \in [S -> Nat]
  PROVE  IsFiniteSet(Units(S, f)) /\ Cardinality(Units(S, f)) \in Nat
  <1> DEFINE T == {1..f[x] : x \in S}
             h == [x \in S |-> 1..f[x]]
  <1>1. h \in Surjection(S, T)
    BY DEF Surjection
  <1>2. IsFiniteSet(T)
    <2> HIDE DEF T, h
    <2> QED BY <1>1, FS_Surjection
  <1>3. \A Y \in T : IsFiniteSet(Y)
    <2> TAKE Y \in T
    <2>1. PICK x \in S : Y = 1..f[x] /\ f[x] \in Int
      OBVIOUS
    <2>2. IsFiniteSet(1..f[x])
      BY <2>1, FS_Interval
    <2> QED BY <2>1, <2>2
  <1>4. IsFiniteSet(UNION T)
    <2> HIDE DEF T
    <2> QED BY <1>2, <1>3, FS_UNION
  <1>5. IsFiniteSet(S \X UNION T)
    <2> HIDE DEF T
    <2> QED BY <1>4, FS_Product
  <1>6. Units(S, f) \subseteq S \X UNION T
    BY DEF Units
  <1>7. IsFiniteSet(Units(S, f))
    <2> HIDE DEF T
    <2> QED BY <1>5, <1>6, FS_Subset
  <1> QED BY <1>7, FS_CardinalityType

\* A vector that falls has fewer units.
LEMMA UnitsFall ==
  ASSUME NEW S, IsFiniteSet(S), NEW f \in [S -> Nat], NEW g \in [S -> Nat], Falls(g, f)
  PROVE  Cardinality(Units(S, g)) < Cardinality(Units(S, f))
  <1>1. PICK x \in S : g[x] < f[x]
    BY FallsMeans
  <1>2. \A y \in S : g[y] <= f[y] /\ g[y] \in Nat /\ f[y] \in Nat
    BY FallsMeans
  <1>3. Units(S, g) \subseteq Units(S, f)
    <2> SUFFICES ASSUME NEW t \in Units(S, g)
                 PROVE  t \in Units(S, f)
      OBVIOUS
    <2>1. t \in S \X Nat /\ t[2] \in 1..g[t[1]]
      BY DEF Units
    <2>2. t[1] \in S /\ t[2] \in Nat
      BY <2>1
    <2>3. t[2] \in 1..f[t[1]]
      BY <1>2, <2>1, <2>2
    <2> QED BY <2>1, <2>3 DEF Units
  <1>4. <<x, f[x]>> \in Units(S, f) /\ <<x, f[x]>> \notin Units(S, g)
    <2>1. f[x] \in 1..f[x] /\ f[x] \notin 1..g[x] /\ f[x] \in Nat
      BY <1>1, <1>2
    <2> QED BY <2>1 DEF Units
  <1> QED
    <2>1. /\ Cardinality(Units(S, g)) <= Cardinality(Units(S, f))
          /\ Cardinality(Units(S, g)) # Cardinality(Units(S, f))
      BY <1>3, <1>4, UnitsFinite, FS_Subset
    <2>2. Cardinality(Units(S, g)) \in Nat /\ Cardinality(Units(S, f)) \in Nat
      BY UnitsFinite
    <2> QED BY <2>1, <2>2

LEMMA LeastNatural ==
  ASSUME NEW T, T \subseteq Nat, T # {}
  PROVE  \E x \in T : \A y \in T : x <= y
  <1>1. PICK x \in T : \A y \in T : ~ (<<y, x>> \in OpToRel(<, Nat))
    BY NatLessThanWellFounded, WFMin
  <1>2. OpToRel(<, Nat) = {ss \in Nat \X Nat : ss[1] < ss[2]}
    BY DEF OpToRel
  <1>3. \A y \in T : ~(y < x) /\ y \in Nat /\ x \in Nat
    BY <1>1, <1>2
  <1> QED BY <1>3

\* v is a sequence of vectors; from the time N on it stays as it is.
Stays(v, N) == \A n \in Nat : n >= N => v[n + 1] = v[n]

\* From the time N on it never rises.
NeverRises(v, N) == \A n \in Nat : n >= N => v[n + 1] = v[n] \/ Falls(v[n + 1], v[n])

\* A vector that never rises stays in the end.
LEMMA Settles ==
  ASSUME NEW S, IsFiniteSet(S), NEW v \in [Nat -> [S -> Nat]],
         NEW N \in Nat, NeverRises(v, N)
  PROVE  \E K \in Nat : K >= N /\ Stays(v, K)
  <1> DEFINE C(n) == Cardinality(Units(S, v[n]))
             T == {C(n) : n \in {k \in Nat : k >= N}}
  <1>1. \A n \in Nat : C(n) \in Nat
    BY UnitsFinite
  <1>2. \A n \in Nat : n >= N => v[n + 1] = v[n] \/ C(n + 1) < C(n)
    <2> TAKE n \in Nat
    <2> HAVE n >= N
    <2>1. /\ v[n + 1] \in [S -> Nat] /\ v[n] \in [S -> Nat]
          /\ v[n + 1] = v[n] \/ Falls(v[n + 1], v[n])
      BY DEF NeverRises
    <2>2. CASE Falls(v[n + 1], v[n])
      BY <2>1, <2>2, UnitsFall
    <2> QED BY <2>1, <2>2
  <1>3. T \subseteq Nat /\ C(N) \in T
    BY <1>1
  <1>4. PICK x \in T : \A y \in T : x <= y
    <2> HIDE DEF T
    <2> QED BY <1>3, LeastNatural
  <1>5. PICK K \in Nat : K >= N /\ x = C(K)
    BY <1>4
  <1> DEFINE Below == {k \in Nat : k >= K /\ C(k) # C(K)}
  <1>6. \A n \in Nat : n >= K => C(n) = C(K)
    <2> SUFFICES ASSUME Below # {} PROVE FALSE
      OBVIOUS
    <2>1. Below \subseteq Nat
      OBVIOUS
    <2>2. PICK f \in Below : \A k \in Below : f <= k
      <3> HIDE DEF Below
      <3> QED BY <2>1, LeastNatural
    <2>3. f \in Nat /\ f >= K /\ C(f) # C(K)
      BY <2>2
    <2>4. f - 1 \in Nat /\ f - 1 >= K /\ f - 1 >= N /\ (f - 1) + 1 = f
      <3>1. f # K
        BY <2>3
      <3> HIDE DEF C, T, Below
      <3> QED BY <1>5, <2>3, <3>1
    <2>5. f - 1 \notin Below
      <3>1. ~(f <= f - 1)
        BY <2>3
      <3> QED BY <2>2, <3>1
    <2>6. C(f - 1) = C(K)
      BY <2>4, <2>5
    <2>7. v[f] = v[f - 1] \/ C(f) < C(f - 1)
      <3> HIDE DEF C
      <3> QED BY <1>2, <2>4
    <2>8. C(f) < C(K)
      BY <2>3, <2>6, <2>7
    <2>9. C(K) <= C(f)
      <3>1. f >= N
        BY <1>5, <2>3
      <3>2. C(f) \in T
        <4> HIDE DEF C
        <4> QED BY <2>3, <3>1
      <3> QED BY <1>4, <1>5, <3>2
    <2>10. C(f) \in Nat /\ C(K) \in Nat
      <3> HIDE DEF C
      <3> QED BY <1>1, <2>3
    <2> HIDE DEF C
    <2> QED BY <2>8, <2>9, <2>10
  <1>7. \A n \in Nat : n >= K => v[n + 1] = v[n]
    <2> HIDE DEF C
    <2> TAKE n \in Nat
    <2> HAVE n >= K
    <2>1. n >= N /\ n + 1 \in Nat /\ n + 1 >= K
      BY <1>5
    <2>2. C(n + 1) = C(n) /\ C(n) \in Nat
      BY <1>1, <1>6, <2>1
    <2> QED BY <1>2, <2>1, <2>2
  <1> QED BY <1>5, <1>7 DEF Stays

\* A measure of k vectors, the i-th of which is over the indices S[i].
Fits(m, k, S) == DOMAIN m = 1..k /\ \A i \in 1..k : m[i] \in [S[i] -> Nat]

\* M is the measure at each moment.
MeasureOn(M, k, S) == \A n \in Nat : Fits(M[n], k, S)

EverLower(M) == \A n \in Nat : Lower(M[n + 1], M[n])

\* The i-th vector at each moment.
Level(M, i) == [n \in Nat |-> M[n][i]]

\* The vectors before the i-th stay.
StaysBefore(M, k, i, N) == \A j \in 1..k : j < i => Stays(Level(M, j), N)

\* When the vectors before one stay, that one settles.
LEMMA LevelSettles ==
  ASSUME NEW k \in Nat, NEW S, NEW i \in 1..k, IsFiniteSet(S[i]),
         NEW M, MeasureOn(M, k, S), EverLower(M),
         NEW N \in Nat, StaysBefore(M, k, i, N)
  PROVE  \E K \in Nat : StaysBefore(M, k, i + 1, K)
  <1> DEFINE v == Level(M, i)
  <1>1. \A j \in 1..k : \A n \in Nat : Level(M, j)[n] = M[n][j]
    BY DEF Level
  <1>2. v \in [Nat -> [S[i] -> Nat]]
    BY DEF Level, MeasureOn, Fits
  <1> HIDE DEF v
  <1>3. NeverRises(v, N)
    <2> SUFFICES ASSUME NEW n \in Nat, n >= N
                 PROVE  v[n + 1] = v[n] \/ Falls(v[n + 1], v[n])
      BY DEF NeverRises
    <2>1. Lower(M[n + 1], M[n]) /\ DOMAIN M[n] = 1..k
      BY DEF EverLower, MeasureOn, Fits
    <2>2. PICK l \in 1..k : /\ Falls(M[n + 1][l], M[n][l])
                            /\ \A j \in 1..k : j < l => M[n + 1][j] = M[n][j]
      BY <2>1, Zenon DEF Lower
    <2>3. ~(l < i)
      <3>1. M[n + 1][l] # M[n][l]
        BY <2>2 DEF Falls
      <3>2. Level(M, l)[n + 1] # Level(M, l)[n]
        BY <1>1, <3>1
      <3> QED BY <3>2 DEF StaysBefore, Stays
    <2>4. l = i \/ i < l
      BY <2>3
    <2>5. M[n + 1][i] = M[n][i] \/ Falls(M[n + 1][i], M[n][i])
      BY <2>2, <2>4
    <2> QED BY <1>1, <2>5 DEF v
  <1>4. PICK K \in Nat : K >= N /\ Stays(v, K)
    BY <1>2, <1>3, Settles
  <1>5. \A j \in 1..k : j < i => Stays(Level(M, j), K)
    BY <1>4 DEF StaysBefore, Stays
  <1>6. \A j \in 1..k : j < i + 1 => j = i \/ j < i
    OBVIOUS
  <1>7. StaysBefore(M, k, i + 1, K)
    BY <1>4, <1>5, <1>6 DEF StaysBefore, v
  <1> QED BY <1>7

\* A run whose every step lowers the measure is not endless.
THEOREM NoEndlessDescent ==
  ASSUME NEW k \in Nat, NEW S, \A i \in 1..k : IsFiniteSet(S[i]),
         NEW M, MeasureOn(M, k, S)
  PROVE  ~EverLower(M)
  <1> SUFFICES ASSUME EverLower(M) PROVE FALSE
    OBVIOUS
  <1> DEFINE Still(i) == \E N \in Nat : StaysBefore(M, k, i, N)
             Moving == {i \in 1..(k + 1) : ~Still(i)}
  <1>1. \A i \in 1..k : Still(i) => Still(i + 1)
    BY LevelSettles
  <1>2. Still(1)
    BY DEF StaysBefore
  <1> HIDE DEF Still
  \* From some time on every vector stays as it is.
  <1>3. Still(k + 1)
    <2> SUFFICES ASSUME ~Still(k + 1) PROVE FALSE
      OBVIOUS
    <2>1. Moving \subseteq Nat /\ k + 1 \in Moving
      OBVIOUS
    <2>2. PICK i \in Moving : \A j \in Moving : i <= j
      <3> HIDE DEF Moving
      <3> QED BY <2>1, LeastNatural
    <2>3. i \in 1..(k + 1) /\ ~Still(i)
      OBVIOUS
    <2>4. i - 1 \in 1..k /\ i - 1 \in 1..(k + 1) /\ ~(i <= i - 1) /\ (i - 1) + 1 = i
      <3>1. i # 1
        BY <1>2, <2>3
      <3> HIDE DEF Moving
      <3> QED BY <2>3, <3>1
    <2>5. Still(i - 1)
      BY <2>2, <2>4
    <2> HIDE DEF Moving
    <2> QED BY <1>1, <2>3, <2>4, <2>5
  <1>4. PICK N \in Nat : StaysBefore(M, k, k + 1, N)
    BY <1>3 DEF Still
  <1>5. Lower(M[N + 1], M[N]) /\ DOMAIN M[N] = 1..k
    BY DEF EverLower, MeasureOn, Fits
  <1>6. PICK l \in 1..k : Falls(M[N + 1][l], M[N][l])
    BY <1>5, Zenon DEF Lower
  <1>7. Stays(Level(M, l), N)
    BY <1>4 DEF StaysBefore
  <1>8. M[N + 1][l] = M[N][l]
    <2>1. Level(M, l)[N + 1] = Level(M, l)[N]
      BY <1>7 DEF Stays
    <2> QED BY <2>1 DEF Level
  <1> QED BY <1>6, <1>8 DEF Falls
=============================================================================
