--------------------------- MODULE MetricsProofs ---------------------------
(***************************************************************************)
(* Proofs about MetricsAggregator and the metric classes, for any number   *)
(* of contexts, sources and samples, and any expiry.                       *)
(***************************************************************************)
EXTENDS MetricsAggregator, FiniteSetTheorems, FunctionTheorems, SequenceTheorems, TLAPS

-----------------------------------------------------------------------------
(***************************************************************************)
(* Sums.                                                                   *)
(***************************************************************************)
\* A set of numbers has a least one: the intervals 0 .. b of its elements are finite
\* sets, of which one is smallest.
LEMMA Least ==
    ASSUME NEW S, S \subseteq Nat, S # {}
    PROVE  \E b \in S : \A d \in S : b <= d
<1>1. PICK m \in S : TRUE
  OBVIOUS
<1> DEFINE R == StrictSubsetOrdering(0 .. m)
           F == FiniteSubsetsOf(0 .. m)
           T == {0 .. b : b \in {d \in S : d <= m}}
<1>2. IsWellFoundedOn(R, F)
  <2>1. IsFiniteSet(0 .. m)
    BY FS_Interval
  <2> QED
    BY FS_StrictSubsetOrderingWellFounded, <2>1
<1>3. T \subseteq F /\ T # {}
  <2>1. ASSUME NEW b \in S, b <= m PROVE 0 .. b \in F
    BY <2>1, FS_Interval DEF FiniteSubsetsOf
  <2> QED
    BY <2>1, <1>1
<1>4. PICK x \in T : \A y \in T : <<y, x>> \notin R
  <2> HIDE DEF R, F, T
  <2> QED
    BY <1>2, <1>3, WFMin
<1>5. PICK b \in S : b <= m /\ x = 0 .. b
  OBVIOUS
<1>6. ASSUME NEW d \in S, d < b PROVE FALSE
  <2>1. 0 .. d \in T /\ 0 .. d \subseteq 0 .. m /\ 0 .. b \subseteq 0 .. m
    BY <1>5, <1>6
  <2>2. 0 .. d \subseteq 0 .. b /\ 0 .. d # 0 .. b
    <3>1. b \in 0 .. b /\ b \notin 0 .. d
      BY <1>6
    <3> QED
      BY <3>1, <1>6
  <2>3. <<0 .. d, 0 .. b>> \in R
    BY <2>1, <2>2 DEF StrictSubsetOrdering
  <2> QED
    BY <2>1, <2>3, <1>4, <1>5
<1> QED
  BY <1>6

\* Partial sums of numbers exist: those up to k - 1 give the one of k.
LEMMA PartialSums ==
    ASSUME NEW ns, NEW n \in Nat
    PROVE  \E f : f = [i \in 0 .. n |-> IF i = 0 THEN 0 ELSE f[i - 1] + ns[i]]
<1> DEFINE Sums(f, k) == f = [i \in 0 .. k |-> IF i = 0 THEN 0 ELSE f[i - 1] + ns[i]]
           S == {k \in 0 .. n : ~ \E f : Sums(f, k)}
<1>1. ASSUME S # {} PROVE FALSE
  <2>0. S \subseteq Nat
    OBVIOUS
  <2>1. PICK k \in S : \A j \in S : k <= j
    <3> HIDE DEF S
    <3> QED
      BY <1>1, <2>0, Least
  <2>2. k # 0
    <3>1. Sums([i \in 0 .. 0 |-> 0], 0)
      OBVIOUS
    <3> QED
      BY <3>1
  <2>3. k - 1 \in 0 .. n /\ k - 1 \notin S
    <3>1. k \in 0 .. n /\ k - 1 \in 0 .. n /\ ~ k <= k - 1
      BY <2>1, <2>2
    <3> HIDE DEF S
    <3> QED
      BY <3>1, <2>1
  <2>4. PICK f : Sums(f, k - 1)
    BY <2>3
  <2> DEFINE g == [i \in 0 .. k |-> IF i = k THEN f[k - 1] + ns[k] ELSE f[i]]
  <2>5. k \in Nat /\ k > 0
    BY <2>1, <2>2
  <2>6. \A i \in 0 .. k : g[i] = IF i = 0 THEN 0 ELSE g[i - 1] + ns[i]
    <3> TAKE i \in 0 .. k
    <3>1. CASE i = k
      BY <3>1, <2>5
    <3>2. CASE i # k
      <4>1. i \in 0 .. k - 1 /\ (i # 0 => i - 1 \in 0 .. k - 1 /\ i - 1 # k)
        BY <3>2, <2>5
      <4>2. f[i] = IF i = 0 THEN 0 ELSE f[i - 1] + ns[i]
        BY <2>4, <4>1
      <4> QED
        BY <3>2, <4>1, <4>2, <2>5
    <3> QED
      BY <3>1, <3>2
  <2>7. Sums(g, k)
    BY <2>6
  <2> QED
    BY <2>1, <2>7
<1>2. n \in 0 .. n
  OBVIOUS
<1> QED
  BY <1>1, <1>2

\* The units of the first k numbers of ns, each with its place.
Units(ns, k) == UNION {{i} \X (1 .. ns[i]) : i \in 1 .. k}

\* One number more adds as many units.
LEMMA UnitsStep ==
    ASSUME NEW ns, NEW k \in Nat \ {0}, ns[k] \in Nat, IsFiniteSet(Units(ns, k - 1))
    PROVE  /\ IsFiniteSet(Units(ns, k))
           /\ Cardinality(Units(ns, k)) = Cardinality(Units(ns, k - 1)) + ns[k]
<1> DEFINE More == {k} \X (1 .. ns[k])
           f == [j \in 1 .. ns[k] |-> <<k, j>>]
<1>1. f \in Bijection(1 .. ns[k], More)
  <2>1. f \in [1 .. ns[k] -> More] /\ \A a, b \in 1 .. ns[k] : f[a] = f[b] => a = b
    OBVIOUS
  <2>2. \A t \in More : \E j \in 1 .. ns[k] : f[j] = t
    OBVIOUS
  <2> HIDE DEF f, More
  <2> QED
    BY <2>1, <2>2, Fun_IsBij
<1>2. IsFiniteSet(More) /\ Cardinality(More) = ns[k]
  <2>1. ExistsBijection(1 .. ns[k], More)
    <3> HIDE DEF More, f
    <3> QED
      BY <1>1 DEF ExistsBijection
  <2> HIDE DEF More, f
  <2> QED
    BY <2>1, FS_CountingElements, FS_NatBijection
<1>3. Units(ns, k) = Units(ns, k - 1) \cup More
  <2>1. 1 .. k = (1 .. k - 1) \cup {k}
    OBVIOUS
  <2> QED
    BY <2>1 DEF Units
<1>4. Units(ns, k - 1) \cap More = {}
  BY DEF Units
<1>5. /\ Cardinality({}) = 0 /\ Cardinality(Units(ns, k - 1)) \in Nat
  BY FS_EmptySet, FS_CardinalityType
<1>6. /\ IsFiniteSet(Units(ns, k - 1) \cup More)
      /\ Cardinality(Units(ns, k - 1) \cup More)
           = Cardinality(Units(ns, k - 1)) + Cardinality(More) - Cardinality(Units(ns, k - 1) \cap More)
  <2> HIDE DEF More
  <2> QED
    BY <1>2, FS_Union
<1>7. Cardinality(Units(ns, k)) = Cardinality(Units(ns, k - 1)) + ns[k] - 0
  <2> HIDE DEF More
  <2> QED
    BY <1>2, <1>3, <1>4, <1>5, <1>6
<1>8. IsFiniteSet(Units(ns, k))
  <2> HIDE DEF More
  <2> QED
    BY <1>3, <1>6
<1> QED
  BY <1>5, <1>7, <1>8

\* The sum of natural numbers is the number of their units.
LEMMA TotalUnits ==
    ASSUME NEW ns, Len(ns) \in Nat, \A i \in 1 .. Len(ns) : ns[i] \in Nat
    PROVE  IsFiniteSet(Units(ns, Len(ns))) /\ Total(ns) = Cardinality(Units(ns, Len(ns)))
<1> DEFINE n == Len(ns)
           f == CHOOSE g : g = [i \in 0 .. n |-> IF i = 0 THEN 0 ELSE g[i - 1] + ns[i]]
           S == {k \in 0 .. n : ~ (IsFiniteSet(Units(ns, k)) /\ f[k] = Cardinality(Units(ns, k)))}
<1>1. f = [i \in 0 .. n |-> IF i = 0 THEN 0 ELSE f[i - 1] + ns[i]]
  BY PartialSums
<1>2. Total(ns) = f[n]
  BY DEF Total
<1> HIDE DEF f
<1>3. ASSUME S # {} PROVE FALSE
  <2>0. S \subseteq Nat
    OBVIOUS
  <2>1. PICK k \in S : \A j \in S : k <= j
    <3> HIDE DEF S
    <3> QED
      BY <1>3, <2>0, Least
  <2>2. k # 0
    <3>1. Units(ns, 0) = {}
      BY DEF Units
    <3> QED
      BY <1>1, <3>1, FS_EmptySet
  <2>3. k - 1 \in 0 .. n /\ k - 1 \notin S /\ k \in Nat \ {0} /\ k \in 1 .. n
    BY <2>1, <2>2
  <2>4. IsFiniteSet(Units(ns, k - 1)) /\ f[k - 1] = Cardinality(Units(ns, k - 1))
    BY <2>3
  <2>5. f[k] = f[k - 1] + ns[k]
    BY <1>1, <2>3
  <2> QED
    BY <2>1, <2>3, <2>4, <2>5, UnitsStep
<1>4. n \in 0 .. n /\ n \notin S
  BY <1>3
<1> QED
  BY <1>2, <1>4

\* A function of the numbers up to n is a sequence of length n.
LEMMA IsSequence ==
    ASSUME NEW n \in Nat, NEW S, NEW f \in [1 .. n -> S]
    PROVE  f \in Seq(S) /\ Len(f) = n
<1>1. f \in Seq(S)
  BY SeqDef
<1>2. Len(f) \in Nat /\ 1 .. Len(f) = 1 .. n
  BY <1>1, LenProperties
<1> QED
  BY <1>1, <1>2

\* The sum of natural numbers is one.
LEMMA NaturalTotal ==
    ASSUME NEW n \in Nat, NEW ns \in [1 .. n -> Nat]
    PROVE  Total(ns) \in Nat /\ Total(ns) = Cardinality(Units(ns, n)) /\ IsFiniteSet(Units(ns, n))
<1>1. Len(ns) = n
  BY IsSequence
<1>2. IsFiniteSet(Units(ns, n)) /\ Total(ns) = Cardinality(Units(ns, n))
  BY <1>1, TotalUnits
<1> QED
  BY <1>2, FS_CardinalityType

\* It grows by one number more.
LEMMA NaturalTotalGrows ==
    ASSUME NEW n \in Nat, NEW ns \in [1 .. n -> Nat], NEW ms \in [1 .. n + 1 -> Nat],
           \A i \in 1 .. n : ms[i] = ns[i]
    PROVE  Total(ms) = Total(ns) + ms[n + 1]
<1>1. Units(ms, n) = Units(ns, n)
  BY DEF Units
<1>2. n + 1 \in Nat \ {0} /\ n + 1 - 1 = n /\ ms[n + 1] \in Nat
  OBVIOUS
<1>3. Total(ns) = Cardinality(Units(ns, n)) /\ IsFiniteSet(Units(ns, n))
  BY NaturalTotal
<1>4. Total(ms) = Cardinality(Units(ms, n + 1))
  BY <1>2, NaturalTotal
<1>5. Cardinality(Units(ms, n + 1)) = Cardinality(Units(ms, n)) + ms[n + 1]
  BY <1>1, <1>2, <1>3, UnitsStep
<1> QED
  BY <1>1, <1>3, <1>4, <1>5

\* It does not depend on the order.
LEMMA NaturalTotalPermuted ==
    ASSUME NEW n \in Nat, NEW ns \in [1 .. n -> Nat], NEW p \in Bijection(1 .. n, 1 .. n)
    PROVE  Total([i \in 1 .. n |-> ns[p[i]]]) = Total(ns)
<1> DEFINE ms == [i \in 1 .. n |-> ns[p[i]]]
           f == [u \in Units(ms, n) |-> <<p[u[1]], u[2]>>]
<1>1. /\ p \in [1 .. n -> 1 .. n]
      /\ \A i, j \in 1 .. n : p[i] = p[j] => i = j
      /\ \A j \in 1 .. n : \E i \in 1 .. n : p[i] = j
  BY DEF Bijection, Injection, Surjection, IsInjective
<1>2. ms \in [1 .. n -> Nat]
  BY <1>1
<1>3. \A u \in Units(ms, n) : u = <<u[1], u[2]>> /\ u[1] \in 1 .. n /\ u[2] \in 1 .. ns[p[u[1]]]
  BY DEF Units
<1>4. \A u \in Units(ms, n) : f[u] \in Units(ns, n)
  <2> TAKE u \in Units(ms, n)
  <2>1. u[1] \in 1 .. n /\ u[2] \in 1 .. ns[p[u[1]]]
    BY <1>3
  <2>2. p[u[1]] \in 1 .. n
    BY <1>1, <2>1
  <2>3. f[u] \in {p[u[1]]} \X (1 .. ns[p[u[1]]])
    BY <2>1
  <2> HIDE DEF f, ms
  <2> QED
    BY <2>2, <2>3 DEF Units
<1>5. \A u, w \in Units(ms, n) : f[u] = f[w] => u = w
  <2> SUFFICES ASSUME NEW u \in Units(ms, n), NEW w \in Units(ms, n), f[u] = f[w]
               PROVE  u = w
    OBVIOUS
  <2>1. f[u] = <<p[u[1]], u[2]>> /\ f[w] = <<p[w[1]], w[2]>>
    OBVIOUS
  <2>2. p[u[1]] = p[w[1]] /\ u[2] = w[2]
    <3>1. \A a, b, c, d : <<a, b>> = <<c, d>> => a = c /\ b = d
      OBVIOUS
    <3>2. <<p[u[1]], u[2]>> = <<p[w[1]], w[2]>>
      BY <2>1
    <3> HIDE DEF f, ms
    <3> QED
      BY ONLY <3>1, <3>2
  <2>3. /\ u = <<u[1], u[2]>> /\ u[1] \in 1 .. n
        /\ w = <<w[1], w[2]>> /\ w[1] \in 1 .. n
    BY <1>3
  <2> HIDE DEF f, ms
  <2> QED
    BY <1>1, <2>2, <2>3
<1>6. \A t \in Units(ns, n) : \E u \in Units(ms, n) : f[u] = t
  <2> SUFFICES ASSUME NEW t \in Units(ns, n) PROVE \E u \in Units(ms, n) : f[u] = t
    OBVIOUS
  <2>1. PICK j \in 1 .. n : t \in {j} \X (1 .. ns[j])
    BY DEF Units
  <2>2. PICK i \in 1 .. n : p[i] = j
    BY <1>1
  <2>3. <<i, t[2]>> \in {i} \X (1 .. ms[i])
    BY <2>1, <2>2
  <2>4. <<i, t[2]>> \in Units(ms, n)
    <3> HIDE DEF ms
    <3> QED
      BY <2>3 DEF Units
  <2>5. f[<<i, t[2]>>] = t
    BY <2>1, <2>2, <2>4
  <2> QED
    BY <2>4, <2>5
<1>7. f \in Bijection(Units(ms, n), Units(ns, n))
  <2>1. f \in [Units(ms, n) -> Units(ns, n)]
    BY <1>4
  <2> HIDE DEF f, ms
  <2> QED
    BY <2>1, <1>5, <1>6, Fun_IsBij
<1>8. /\ Total(ms) = Cardinality(Units(ms, n)) /\ IsFiniteSet(Units(ms, n))
      /\ Total(ns) = Cardinality(Units(ns, n))
  <2> HIDE DEF ms
  <2> QED
    BY <1>2, NaturalTotal
<1>9. Cardinality(Units(ms, n)) = Cardinality(Units(ns, n))
  <2>1. ExistsBijection(Units(ms, n), Units(ns, n))
    <3> HIDE DEF f, ms
    <3> QED
      BY <1>7 DEF ExistsBijection
  <2> HIDE DEF f, ms
  <2> QED
    BY <1>8, <2>1, FS_Bijection
<1> QED
  BY <1>8, <1>9

\* What is gained and what is lost in a sequence of integers.
Gains(ns) == [i \in DOMAIN ns |-> IF ns[i] > 0 THEN ns[i] ELSE 0]
Losses(ns) == [i \in DOMAIN ns |-> IF ns[i] < 0 THEN 0 - ns[i] ELSE 0]

\* The sum of integers is the difference of the two.
LEMMA TotalSplits ==
    ASSUME NEW n \in Nat, NEW ns \in [1 .. n -> Int]
    PROVE  /\ Gains(ns) \in [1 .. n -> Nat] /\ Losses(ns) \in [1 .. n -> Nat]
           /\ Total(ns) = Total(Gains(ns)) - Total(Losses(ns))
<1> DEFINE gs == Gains(ns)
           ls == Losses(ns)
           Sums(ms, f) == f = [i \in 0 .. n |-> IF i = 0 THEN 0 ELSE f[i - 1] + ms[i]]
           S == CHOOSE f : Sums(ns, f)
           G == CHOOSE f : Sums(gs, f)
           D == CHOOSE f : Sums(ls, f)
           Bad == {k \in 0 .. n : ~ (G[k] \in Nat /\ D[k] \in Nat /\ S[k] = G[k] - D[k])}
<1>1. /\ gs \in [1 .. n -> Nat] /\ ls \in [1 .. n -> Nat]
      /\ \A i \in 1 .. n : ns[i] \in Int /\ ns[i] = gs[i] - ls[i]
  BY DEF Gains, Losses
<1>2. Len(ns) = n /\ Len(gs) = n /\ Len(ls) = n
  <2> HIDE DEF gs, ls
  <2> QED
    BY <1>1, IsSequence
<1>3. Total(ns) = S[n] /\ Total(gs) = G[n] /\ Total(ls) = D[n]
  <2> HIDE DEF gs, ls
  <2> QED
    BY <1>2 DEF Total
<1>4. Sums(ns, S) /\ Sums(gs, G) /\ Sums(ls, D)
  BY PartialSums
<1> HIDE DEF gs, ls, S, G, D
<1>5. ASSUME Bad # {} PROVE FALSE
  <2>1. Bad \subseteq Nat
    OBVIOUS
  <2>2. PICK k \in Bad : \A j \in Bad : k <= j
    <3> HIDE DEF Bad
    <3> QED
      BY <1>5, <2>1, Least
  <2>3. S[0] = 0 /\ G[0] = 0 /\ D[0] = 0
    BY <1>4
  <2>4. k \in 1 .. n
    BY <2>2, <2>3
  <2>5. k - 1 \in 0 .. n /\ k - 1 \notin Bad
    <3>1. k - 1 \in 0 .. n /\ ~ k <= k - 1
      BY <2>4
    <3> HIDE DEF Bad
    <3> QED
      BY <3>1, <2>2
  <2>6. /\ S[k] = S[k - 1] + ns[k] /\ G[k] = G[k - 1] + gs[k] /\ D[k] = D[k - 1] + ls[k]
    BY <1>4, <2>4
  <2>7. G[k - 1] \in Nat /\ D[k - 1] \in Nat /\ S[k - 1] = G[k - 1] - D[k - 1]
    BY <2>5
  <2>8. gs[k] \in Nat /\ ls[k] \in Nat /\ ns[k] \in Int /\ ns[k] = gs[k] - ls[k]
    BY <1>1, <2>4
  <2>9. G[k] \in Nat /\ D[k] \in Nat /\ S[k] = G[k] - D[k]
    <3>1. ASSUME NEW g \in Nat, NEW d \in Nat, NEW a \in Nat, NEW b \in Nat
          PROVE  /\ (g - d) + (a - b) = (g + a) - (d + b)
                 /\ g + a \in Nat /\ d + b \in Nat
      OBVIOUS
    <3>2. S[k] = (G[k - 1] - D[k - 1]) + (gs[k] - ls[k])
      BY ONLY <2>6, <2>7, <2>8
    <3>3. (G[k - 1] - D[k - 1]) + (gs[k] - ls[k]) = (G[k - 1] + gs[k]) - (D[k - 1] + ls[k])
      BY ONLY <2>7, <2>8, <3>1
    <3>4. G[k - 1] + gs[k] \in Nat /\ D[k - 1] + ls[k] \in Nat
      BY ONLY <2>7, <2>8, <3>1
    <3> QED
      BY ONLY <2>6, <3>2, <3>3, <3>4
  <2> QED
    BY <2>2, <2>9
<1>6. n \in 0 .. n /\ n \notin Bad
  BY <1>5
<1>7. S[n] = G[n] - D[n]
  BY <1>6
<1> QED
  BY <1>1, <1>3, <1>7 DEF gs, ls

\* The sum of integers is one.
LEMMA TotalType ==
    ASSUME NEW n \in Nat, NEW ns \in [1 .. n -> Int]
    PROVE  Total(ns) \in Int
<1>1. Total(Gains(ns)) \in Nat /\ Total(Losses(ns)) \in Nat
  BY TotalSplits, NaturalTotal
<1>2. Total(ns) = Total(Gains(ns)) - Total(Losses(ns))
  BY TotalSplits
<1> QED
  BY <1>1, <1>2

\* The sum of nothing.
LEMMA TotalOfNone ==
    ASSUME NEW ns \in [1 .. 0 -> Int]
    PROVE  Total(ns) = 0
<1>1. ns \in [1 .. 0 -> Nat] /\ 0 \in Nat
  OBVIOUS
<1>2. Units(ns, 0) = {}
  BY DEF Units
<1>3. Total(ns) = Cardinality(Units(ns, 0))
  BY <1>1, NaturalTotal
<1> QED
  BY <1>2, <1>3, FS_EmptySet

\* The sum with one number more.
LEMMA TotalGrows ==
    ASSUME NEW n \in Nat, NEW ns \in [1 .. n -> Int], NEW ms \in [1 .. n + 1 -> Int],
           \A i \in 1 .. n : ms[i] = ns[i]
    PROVE  Total(ms) = Total(ns) + ms[n + 1]
<1>1. n + 1 \in Nat /\ ms[n + 1] \in Int
  OBVIOUS
<1>2. /\ Gains(ns) \in [1 .. n -> Nat] /\ Losses(ns) \in [1 .. n -> Nat]
      /\ Total(ns) = Total(Gains(ns)) - Total(Losses(ns))
  BY TotalSplits
<1>3. /\ Gains(ms) \in [1 .. n + 1 -> Nat] /\ Losses(ms) \in [1 .. n + 1 -> Nat]
      /\ Total(ms) = Total(Gains(ms)) - Total(Losses(ms))
  BY <1>1, TotalSplits
<1>4. \A i \in 1 .. n : Gains(ms)[i] = Gains(ns)[i] /\ Losses(ms)[i] = Losses(ns)[i]
  BY DEF Gains, Losses
<1>5. /\ Total(Gains(ms)) = Total(Gains(ns)) + Gains(ms)[n + 1]
      /\ Total(Losses(ms)) = Total(Losses(ns)) + Losses(ms)[n + 1]
  BY <1>2, <1>3, <1>4, NaturalTotalGrows
<1>6. ms[n + 1] = Gains(ms)[n + 1] - Losses(ms)[n + 1]
  BY <1>1 DEF Gains, Losses
<1>7. /\ Total(Gains(ns)) \in Nat /\ Total(Losses(ns)) \in Nat
      /\ Gains(ms)[n + 1] \in Nat /\ Losses(ms)[n + 1] \in Nat
  <2>1. n + 1 \in 1 .. n + 1
    OBVIOUS
  <2>2. Total(Gains(ns)) \in Nat /\ Total(Losses(ns)) \in Nat
    BY <1>2, NaturalTotal
  <2> QED
    BY <1>3, <2>1, <2>2
<1> QED
  BY <1>2, <1>3, <1>5, <1>6, <1>7

\* The sum does not depend on the order.
LEMMA TotalPermuted ==
    ASSUME NEW n \in Nat, NEW ns \in [1 .. n -> Int], NEW p \in Bijection(1 .. n, 1 .. n)
    PROVE  Total([i \in 1 .. n |-> ns[p[i]]]) = Total(ns)
<1> DEFINE ms == [i \in 1 .. n |-> ns[p[i]]]
<1>1. p \in [1 .. n -> 1 .. n]
  BY DEF Bijection, Injection
<1>2. ms \in [1 .. n -> Int]
  BY <1>1
<1>3. /\ Gains(ms) = [i \in 1 .. n |-> Gains(ns)[p[i]]]
      /\ Losses(ms) = [i \in 1 .. n |-> Losses(ns)[p[i]]]
  BY <1>1 DEF Gains, Losses
<1> HIDE DEF ms
<1>4. /\ Gains(ns) \in [1 .. n -> Nat] /\ Losses(ns) \in [1 .. n -> Nat]
      /\ Total(ns) = Total(Gains(ns)) - Total(Losses(ns))
  BY TotalSplits
<1>5. Total(ms) = Total(Gains(ms)) - Total(Losses(ms))
  BY <1>2, TotalSplits
<1>6. Total(Gains(ms)) = Total(Gains(ns)) /\ Total(Losses(ms)) = Total(Losses(ns))
  <2>1. Total([i \in 1 .. n |-> Gains(ns)[p[i]]]) = Total(Gains(ns))
    BY <1>4, NaturalTotalPermuted
  <2>2. Total([i \in 1 .. n |-> Losses(ns)[p[i]]]) = Total(Losses(ns))
    BY <1>4, NaturalTotalPermuted
  <2> QED
    BY <1>3, <2>1, <2>2
<1>7. Total(ms) = Total(ns)
  BY <1>4, <1>5, <1>6
<1> QED
  BY <1>7 DEF ms

\* The sums of MetricsReference are the same ones.
LEMMA SameTotal ==
    ASSUME NEW ns
    PROVE  Reference!Total(ns) = Total(ns)
BY DEF Total, Reference!Total

\* So are its numbers of elements.
LEMMA SameCardinality ==
    ASSUME NEW S
    PROVE  Reference!Cardinality(S) = Cardinality(S)
BY DEF Cardinality, Reference!Cardinality

-----------------------------------------------------------------------------
(***************************************************************************)
(* Sorting, ranks and rounding.                                            *)
(***************************************************************************)
\* The order of the first k numbers, as a bijection of their places.
Orders(a, k, p) ==
    /\ p \in Bijection(1 .. k, 1 .. k)
    /\ \A i \in 1 .. k - 1 : a[p[i]] <= a[p[i + 1]]

\* A number more is inserted before the first that is larger.
LEMMA Insertion ==
    ASSUME NEW a, NEW k \in Nat \ {0}, \A i \in 1 .. k : a[i] \in Int,
           NEW p, Orders(a, k - 1, p)
    PROVE  \E q : Orders(a, k, q)
<1> DEFINE S == {i \in 1 .. k : i = k \/ a[p[i]] > a[k]}
<1>1. /\ p \in [1 .. k - 1 -> 1 .. k - 1]
      /\ \A i, j \in 1 .. k - 1 : p[i] = p[j] => i = j
      /\ \A j \in 1 .. k - 1 : \E i \in 1 .. k - 1 : p[i] = j
      /\ \A i \in 1 .. k - 2 : a[p[i]] <= a[p[i + 1]]
  <2>1. p \in Bijection(1 .. k - 1, 1 .. k - 1) /\ (k - 1) - 1 = k - 2
    BY DEF Orders
  <2>2. \A i \in 1 .. k - 2 : a[p[i]] <= a[p[i + 1]]
    BY <2>1 DEF Orders
  <2> QED
    BY <2>1, <2>2 DEF Bijection, Injection, Surjection, IsInjective
<1>2. PICK j \in S : \A i \in S : j <= i
  <2>1. S \subseteq Nat /\ k \in S
    OBVIOUS
  <2> HIDE DEF S
  <2> QED
    BY <2>1, Least
<1>3. /\ j \in 1 .. k /\ (j # k => a[p[j]] > a[k])
      /\ \A i \in 1 .. j - 1 : a[p[i]] <= a[k]
  <2>1. j \in 1 .. k /\ (j # k => a[p[j]] > a[k])
    OBVIOUS
  <2>2. ASSUME NEW i \in 1 .. j - 1 PROVE a[p[i]] <= a[k]
    <3>1. i \in 1 .. k - 1 /\ i \notin S
      BY <1>2, <2>1
    <3>2. p[i] \in 1 .. k
      BY <1>1, <3>1
    <3> QED
      BY <3>1, <3>2
  <2> QED
    BY <2>1, <2>2
<1> DEFINE q == [i \in 1 .. k |-> IF i < j THEN p[i] ELSE IF i = j THEN k ELSE p[i - 1]]
<1>4. /\ \A i \in 1 .. k : i < j => q[i] = p[i] /\ i \in 1 .. k - 1
      /\ q[j] = k
      /\ \A i \in 1 .. k : i > j => q[i] = p[i - 1] /\ i - 1 \in 1 .. k - 1
  BY <1>3
<1>5. q \in [1 .. k -> 1 .. k]
  <2>1. \A i \in 1 .. k : q[i] \in 1 .. k
    <3> TAKE i \in 1 .. k
    <3> HIDE DEF q, S
    <3>0. \A l \in 1 .. k - 1 : p[l] \in 1 .. k
      <4>1. \A l \in 1 .. k - 1 : p[l] \in 1 .. k - 1
        BY <1>1
      <4> QED
        BY <4>1
    <3>1. CASE i < j
      BY <3>1, <3>0, <1>4
    <3>2. CASE i = j
      BY <3>2, <1>3, <1>4
    <3>3. CASE i > j
      BY <3>3, <3>0, <1>4
    <3> QED
      BY <3>1, <3>2, <3>3, <1>3
  <2> QED
    BY <2>1
<1> HIDE DEF q, S
<1>6. \A i, l \in 1 .. k : q[i] = q[l] => i = l
  <2> SUFFICES ASSUME NEW i \in 1 .. k, NEW l \in 1 .. k, i < l
               PROVE  q[i] # q[l]
    OBVIOUS
  <2>1. CASE l < j
    BY <2>1, <1>1, <1>3, <1>4
  <2>2. CASE l = j
    <3>1. q[l] = k /\ q[i] = p[i] /\ p[i] \in 1 .. k - 1
      BY <2>2, <1>1, <1>4
    <3> QED
      BY <3>1
  <2>3. CASE l > j /\ i < j
    BY <2>3, <1>1, <1>3, <1>4
  <2>4. CASE l > j /\ i = j
    <3>1. q[i] = k /\ q[l] = p[l - 1] /\ p[l - 1] \in 1 .. k - 1
      BY <2>4, <1>1, <1>4
    <3> QED
      BY <3>1
  <2>5. CASE l > j /\ i > j
    BY <2>5, <1>1, <1>3, <1>4
  <2> QED
    BY <2>1, <2>2, <2>3, <2>4, <2>5, <1>3
<1>7. \A l \in 1 .. k : \E i \in 1 .. k : q[i] = l
  <2> SUFFICES ASSUME NEW l \in 1 .. k PROVE \E i \in 1 .. k : q[i] = l
    OBVIOUS
  <2>1. CASE l = k
    BY <2>1, <1>3, <1>4
  <2>2. CASE l # k
    <3>1. PICK i \in 1 .. k - 1 : p[i] = l
      BY <2>2, <1>1
    <3>2. CASE i < j
      BY <3>1, <3>2, <1>4
    <3>3. CASE i >= j
      <4>1. i + 1 \in 1 .. k /\ i + 1 > j /\ (i + 1) - 1 = i
        BY <3>1, <3>3, <1>3
      <4> QED
        BY <3>1, <4>1, <1>4
    <3> QED
      BY <3>1, <3>2, <3>3, <1>3
  <2> QED
    BY <2>1, <2>2
<1>8. q \in Bijection(1 .. k, 1 .. k)
  BY <1>5, <1>6, <1>7, Fun_IsBij
<1>9. \A i \in 1 .. k - 1 : a[q[i]] <= a[q[i + 1]]
  <2> SUFFICES ASSUME NEW i \in 1 .. k - 1 PROVE a[q[i]] <= a[q[i + 1]]
    OBVIOUS
  <2>1. CASE i + 1 < j
    <3>1. i \in 1 .. k - 2 /\ i \in 1 .. k /\ i + 1 \in 1 .. k /\ i < j
      BY <2>1, <1>3
    <3> QED
      BY <2>1, <3>1, <1>1, <1>4
  <2>2. CASE i + 1 = j
    <3>1. i \in 1 .. k /\ i < j /\ i \in 1 .. j - 1
      BY <2>2, <1>3
    <3> QED
      BY <2>2, <3>1, <1>3, <1>4
  <2>3. CASE i = j
    <3>0. i + 1 \in 1 .. k /\ i + 1 > j /\ (i + 1) - 1 = j /\ j # k /\ j \in 1 .. k - 1
      BY <2>3, <1>3
    <3>1. i + 1 \in 1 .. k /\ i + 1 > j /\ (i + 1) - 1 = j /\ j # k /\ p[j] \in 1 .. k
      <4>1. p[j] \in 1 .. k - 1
        BY <3>0, <1>1
      <4> QED
        BY <3>0, <4>1
    <3>2. q[i] = k /\ q[i + 1] = p[j]
      BY <2>3, <3>1, <1>4
    <3> QED
      BY <3>1, <3>2, <1>3
  <2>4. CASE i > j
    <3>1. /\ i \in 1 .. k /\ i + 1 \in 1 .. k /\ i + 1 > j /\ (i + 1) - 1 = i
          /\ i - 1 \in 1 .. k - 2 /\ (i - 1) + 1 = i
      BY <2>4, <1>3
    <3>2. q[i] = p[i - 1] /\ q[i + 1] = p[i]
      BY <2>4, <3>1, <1>4
    <3>3. a[p[i - 1]] <= a[p[(i - 1) + 1]]
      BY <3>1, <1>1
    <3> QED
      BY <3>1, <3>2, <3>3
  <2> QED
    BY <2>1, <2>2, <2>3, <2>4, <1>3
<1> QED
  BY <1>8, <1>9 DEF Orders

\* Numbers can be sorted.
LEMMA Sorts ==
    ASSUME NEW a, NEW n \in Nat, \A i \in 1 .. n : a[i] \in Int
    PROVE  \E p : Orders(a, n, p)
<1> DEFINE S == {k \in 0 .. n : ~ \E p : Orders(a, k, p)}
<1>1. ASSUME S # {} PROVE FALSE
  <2>0. S \subseteq Nat
    OBVIOUS
  <2>1. PICK k \in S : \A j \in S : k <= j
    <3> HIDE DEF S
    <3> QED
      BY <1>1, <2>0, Least
  <2>2. k # 0
    <3> DEFINE e == [i \in 1 .. 0 |-> i]
    <3>1. e \in [1 .. 0 -> 1 .. 0] /\ 1 .. 0 = {} /\ 1 .. 0 - 1 = {}
      OBVIOUS
    <3>2. e \in Bijection(1 .. 0, 1 .. 0)
      <4> HIDE DEF e
      <4> QED
        BY <3>1, Fun_IsBij
    <3>3. Orders(a, 0, e)
      BY <3>1, <3>2 DEF Orders
    <3> QED
      BY <3>3
  <2>3. k - 1 \in 0 .. n /\ k \in Nat \ {0} /\ k \in 0 .. n
    BY <2>1, <2>2
  <2>4. k - 1 \notin S
    <3> HIDE DEF S
    <3> QED
      BY <2>1, <2>3
  <2>5. \E p : Orders(a, k - 1, p)
    BY <2>3, <2>4
  <2>6. \A i \in 1 .. k : a[i] \in Int
    BY <2>3
  <2>7. \E q : Orders(a, k, q)
    <3> HIDE DEF S
    <3> QED
      BY <2>3, <2>5, <2>6, Insertion
  <2> QED
    BY <2>1, <2>7
<1>2. n \in 0 .. n
  OBVIOUS
<1> QED
  BY <1>1, <1>2

\* An interval has as many elements as it has places.
LEMMA UpTo ==
    ASSUME NEW n \in Nat
    PROVE  IsFiniteSet(1 .. n) /\ Cardinality(1 .. n) = n
<1> DEFINE f == [j \in 1 .. n |-> j]
<1>1. f \in [1 .. n -> 1 .. n] /\ (\A a, b \in 1 .. n : f[a] = f[b] => a = b)
      /\ (\A t \in 1 .. n : \E j \in 1 .. n : f[j] = t)
  OBVIOUS
<1>2. f \in Bijection(1 .. n, 1 .. n)
  <2> HIDE DEF f
  <2> QED
    BY <1>1, Fun_IsBij
<1>3. ExistsBijection(1 .. n, 1 .. n)
  <2> HIDE DEF f
  <2> QED
    BY <1>2 DEF ExistsBijection
<1> QED
  BY <1>3, FS_CountingElements, FS_NatBijection

\* samples.sort() gives the samples in an ascending order.
LEMMA AscendingFacts ==
    ASSUME NEW n \in Nat, NEW s \in [1 .. n -> Int]
    PROVE  \E p : /\ p \in Bijection(1 .. n, 1 .. n)
                  /\ Ascending(s) = [i \in 1 .. n |-> s[p[i]]]
                  /\ \A i, j \in 1 .. n : i <= j => s[p[i]] <= s[p[j]]
<1>1. Len(s) = n
  BY IsSequence
<1> DEFINE Fits(p) == p \in Bijection(1 .. n, 1 .. n) /\ \A i \in 1 .. n - 1 : s[p[i]] <= s[p[i + 1]]
           p == CHOOSE q \in Bijection(1 .. n, 1 .. n) :
                    \A i \in 1 .. n - 1 : s[q[i]] <= s[q[i + 1]]
<1>2. \E q : Orders(s, n, q)
  BY Sorts
<1>3. Fits(p)
  BY <1>2 DEF Orders
<1>4. Ascending(s) = [i \in 1 .. n |-> s[p[i]]]
  BY <1>1 DEF Ascending
<1> HIDE DEF p
<1>5. p \in [1 .. n -> 1 .. n]
  BY <1>3 DEF Bijection, Injection
<1>6. \A i \in 1 .. n : s[p[i]] \in Int
  BY <1>5
<1>7. ASSUME NEW i \in 1 .. n, NEW j \in 1 .. n, i <= j
      PROVE  s[p[i]] <= s[p[j]]
  <2> DEFINE S == {l \in i .. n : s[p[i]] > s[p[l]]}
  <2>1. ASSUME S # {} PROVE FALSE
    <3>0. S \subseteq Nat
      OBVIOUS
    <3>1. PICK l \in S : \A g \in S : l <= g
      <4> HIDE DEF S
      <4> QED
        BY <2>1, <3>0, Least
    <3>2. l \in i .. n /\ s[p[i]] > s[p[l]] /\ l \in 1 .. n
      OBVIOUS
    <3>3. l # i
      BY <3>2, <1>6
    <3>4. l - 1 \in i .. n /\ l - 1 \in 1 .. n - 1 /\ l - 1 \in 1 .. n /\ (l - 1) + 1 = l /\ ~ l <= l - 1
      BY <3>2, <3>3
    <3>5. l - 1 \notin S
      <4> HIDE DEF S
      <4> QED
        BY <3>1, <3>4
    <3>6. s[p[l - 1]] <= s[p[(l - 1) + 1]]
      BY <3>4, <1>3
    <3>7. ~ s[p[i]] > s[p[l - 1]]
      BY <3>4, <3>5
    <3>8. /\ s[p[i]] \in Int /\ s[p[l - 1]] \in Int /\ s[p[l]] \in Int
          /\ s[p[l - 1]] <= s[p[l]]
      BY <3>2, <3>4, <3>6, <1>6
    <3>9. \A a, b, c \in Int : ~ a > b /\ b <= c => ~ a > c
      OBVIOUS
    <3> HIDE DEF S
    <3> QED
      BY <3>2, <3>7, <3>8, <3>9
  <2>2. j \in i .. n /\ j \notin S
    <3>1. j \in i .. n
      BY <1>7
    <3> HIDE DEF S
    <3> QED
      BY <3>1, <2>1
  <2> QED
    BY <2>2, <1>6
<1> QED
  BY <1>3, <1>4, <1>7

\* Nothing is lost by sorting.
LEMMA SortedLength ==
    ASSUME NEW n \in Nat, NEW s \in [1 .. n -> Int]
    PROVE  Len(Ascending(s)) = n
<1>1. PICK p : /\ p \in Bijection(1 .. n, 1 .. n)
               /\ Ascending(s) = [j \in 1 .. n |-> s[p[j]]]
  BY AscendingFacts
<1>2. [j \in 1 .. n |-> s[p[j]]] \in [1 .. n -> Int]
  BY <1>1 DEF Bijection, Injection
<1> QED
  BY <1>1, <1>2, IsSequence

\* The places that p gives the first r numbers.
PlacesOf(p, r) == {p[i] : i \in 1 .. r}

\* A bijection gives r numbers as many places.
LEMMA FirstPlaces ==
    ASSUME NEW n \in Nat, NEW p \in Bijection(1 .. n, 1 .. n), NEW r \in 0 .. n
    PROVE  IsFiniteSet(PlacesOf(p, r)) /\ Cardinality(PlacesOf(p, r)) = r
<1> DEFINE T == {p[i] : i \in 1 .. r}
           f == [i \in 1 .. r |-> p[i]]
<1>1. \A i, j \in 1 .. r : f[i] = f[j] => i = j
  BY DEF Bijection, Injection, IsInjective
<1>2. f \in [1 .. r -> T] /\ \A t \in T : \E i \in 1 .. r : f[i] = t
  OBVIOUS
<1>3. f \in Bijection(1 .. r, T)
  <2> HIDE DEF f, T
  <2> QED
    BY <1>1, <1>2, Fun_IsBij
<1>4. ExistsBijection(1 .. r, T) /\ r \in Nat
  <2> HIDE DEF f, T
  <2> QED
    BY <1>3 DEF ExistsBijection
<1> HIDE DEF T
<1>5. IsFiniteSet(T) /\ Cardinality(T) = r
  BY <1>4, FS_CountingElements, FS_NatBijection
<1>6. T = PlacesOf(p, r)
  BY DEF T, PlacesOf
<1> QED
  BY <1>5, <1>6

\* The r-th of the sorted values has rank r.
LEMMA RankOfSorted ==
    ASSUME NEW n \in Nat, NEW s \in [1 .. n -> Int], NEW r \in 1 .. n,
           NEW L, Len(L) = n, \A i \in 1 .. n : L[i].value = s[i]
    PROVE  Reference!HasRank(L, Ascending(s)[r], r)
<1>1. PICK p : /\ p \in Bijection(1 .. n, 1 .. n)
               /\ Ascending(s) = [i \in 1 .. n |-> s[p[i]]]
               /\ \A i, j \in 1 .. n : i <= j => s[p[i]] <= s[p[j]]
  BY AscendingFacts
<1> DEFINE x == s[p[r]]
           Below == {i \in 1 .. n : s[i] < x}
           UpToX == {i \in 1 .. n : s[i] <= x}
<1>2. Ascending(s)[r] = x
  BY <1>1
<1>3. /\ p \in [1 .. n -> 1 .. n]
      /\ \A j \in 1 .. n : \E i \in 1 .. n : p[i] = j
  BY <1>1 DEF Bijection, Injection, Surjection
<1>4. \A i \in 1 .. n : s[p[i]] \in Int
  BY <1>3
<1>5. Below \subseteq PlacesOf(p, r - 1)
  <2> SUFFICES ASSUME NEW i \in Below PROVE i \in PlacesOf(p, r - 1)
    OBVIOUS
  <2>1. PICK k \in 1 .. n : p[k] = i
    BY <1>3
  <2>2. ~ r <= k
    <3>1. s[p[k]] < s[p[r]] /\ s[p[k]] \in Int /\ s[p[r]] \in Int
      BY <2>1, <1>4
    <3>2. r <= k => s[p[r]] <= s[p[k]]
      BY <1>1
    <3>3. \A a, b \in Int : a < b => ~ b <= a
      OBVIOUS
    <3> HIDE DEF Below, x
    <3> QED
      BY <3>1, <3>2, <3>3
  <2> QED
    BY <2>1, <2>2 DEF PlacesOf
<1>6. PlacesOf(p, r) \subseteq UpToX
  <2> SUFFICES ASSUME NEW i \in 1 .. r PROVE p[i] \in UpToX
    BY DEF PlacesOf
  <2>1. i \in 1 .. n /\ i <= r
    OBVIOUS
  <2> QED
    BY <2>1, <1>1, <1>3 DEF PlacesOf
<1>7. Cardinality(Below) <= r - 1 /\ Cardinality(Below) \in Nat
  <2>0. r - 1 \in 0 .. n
    OBVIOUS
  <2>1. IsFiniteSet(PlacesOf(p, r - 1)) /\ Cardinality(PlacesOf(p, r - 1)) = r - 1
    BY <1>1, <2>0, FirstPlaces
  <2> HIDE DEF Below
  <2> QED
    BY <1>5, <2>1, FS_Subset, FS_CardinalityType
<1>8. Cardinality(UpToX) >= r /\ Cardinality(UpToX) \in Nat
  <2>0. r \in 0 .. n
    OBVIOUS
  <2>1. IsFiniteSet(PlacesOf(p, r)) /\ Cardinality(PlacesOf(p, r)) = r
    BY <1>1, <2>0, FirstPlaces
  <2>2. IsFiniteSet(1 .. n)
    BY UpTo
  <2>3. IsFiniteSet(UpToX)
    BY <2>2, FS_Subset
  <2> HIDE DEF UpToX
  <2> QED
    BY <1>6, <2>1, <2>3, FS_Subset, FS_CardinalityType
<1>9. /\ Below = {i \in 1 .. Len(L) : L[i].value < x}
      /\ UpToX = {i \in 1 .. Len(L) : L[i].value <= x}
  OBVIOUS
<1> HIDE DEF Below, UpToX, x
<1>10. Cardinality(Below) < r
  BY <1>7
<1>11. Reference!HasRank(L, x, r)
  <2>1. /\ Cardinality({i \in 1 .. Len(L) : L[i].value < x}) < r
        /\ Cardinality({i \in 1 .. Len(L) : L[i].value <= x}) >= r
    BY <1>8, <1>9, <1>10
  <2> QED
    BY <2>1, SameCardinality DEF Reference!HasRank
<1> QED
  BY <1>2, <1>11

\* round() is off by half at the most.
LEMMA RoundedToHalves ==
    ASSUME NEW n \in Int
    PROVE  /\ RoundHalfEven(n, 2) \in Int
           /\ 2 * (2 * RoundHalfEven(n, 2) - n) \in -2 .. 2
BY DEF RoundHalfEven

\* round() is off by half at the most, and from the middle below zero goes to zero.
LEMMA RoundedToHundreds ==
    ASSUME NEW n \in Int
    PROVE  /\ RoundHalfEven(n, 100) \in Int
           /\ 2 * (100 * RoundHalfEven(n, 100) - n) \in -100 .. 100
           /\ n = -50 => RoundHalfEven(n, 100) = 0
BY DEF RoundHalfEven

\* The median and the percentiles have the ranks that the reference asks for.
LEMMA MedianIsPercentile ==
    ASSUME NEW n \in Nat \ {0}, NEW s \in [1 .. n -> Int],
           NEW L, Len(L) = n, \A i \in 1 .. n : L[i].value = s[i]
    PROVE  Reference!IsPercentile(L, Median(Ascending(s)), 50)
<1> DEFINE i == RoundHalfEven(n - 2, 2)
           r == IF i < 0 THEN n + i + 1 ELSE i + 1
<1>1. Len(Ascending(s)) = n
  <2>1. n \in Nat
    OBVIOUS
  <2> QED
    BY ONLY <2>1, s \in [1 .. n -> Int], SortedLength
<1>2. i \in Int /\ 2 * (2 * i - (n - 2)) \in -2 .. 2
  <2>1. n - 2 \in Int
    OBVIOUS
  <2> QED
    BY <2>1, RoundedToHalves
<1>3. Median(Ascending(s)) = Ascending(s)[r]
  BY <1>1 DEF Median, At
<1> HIDE DEF i
<1>4. r \in 1 .. n /\ 2 * (100 * r - 50 * n) \in -100 .. 100
  BY <1>2
<1> HIDE DEF r
<1>5. Reference!HasRank(L, Ascending(s)[r], r)
  BY <1>4, RankOfSorted
<1> QED
  BY <1>3, <1>4, <1>5 DEF Reference!IsPercentile

LEMMA PercentileIsPercentile ==
    ASSUME NEW n \in Nat \ {0}, NEW s \in [1 .. n -> Int], NEW q \in 0 .. 99,
           NEW L, Len(L) = n, \A i \in 1 .. n : L[i].value = s[i]
    PROVE  Reference!IsPercentile(L, Percentile(Ascending(s), q), q)
<1> DEFINE w == q * n
           i == RoundHalfEven(w - 100, 100)
           r == IF i < 0 THEN n + i + 1 ELSE i + 1
<1>1. Len(Ascending(s)) = n
  <2>1. n \in Nat
    OBVIOUS
  <2> QED
    BY ONLY <2>1, s \in [1 .. n -> Int], SortedLength
<1>2. w \in Nat /\ w <= 99 * n
  OBVIOUS
<1>3. Percentile(Ascending(s), q) = Ascending(s)[r]
  BY <1>1 DEF Percentile, At
<1>4. q * Len(L) = w /\ 2 * q * Len(L) = 2 * w
  OBVIOUS
<1> HIDE DEF w
<1>5. /\ i \in Int /\ 2 * (100 * i - (w - 100)) \in -100 .. 100
      /\ w - 100 = -50 => i = 0
  <2>1. w - 100 \in Int
    BY <1>2
  <2> QED
    BY <2>1, RoundedToHundreds
<1> HIDE DEF i
<1>6. r \in 1 .. n /\ (2 * (100 * r - w) \in -100 .. 100 \/ (r = n /\ 2 * w < 100))
  <2>1. CASE i < 0
    <3>1. i = -1
      BY <2>1, <1>2, <1>5
    <3> QED
      BY <3>1, <1>2, <1>5
  <2>2. CASE i >= 0
    BY <2>2, <1>2, <1>5
  <2> QED
    BY <2>1, <2>2, <1>5
<1> HIDE DEF r
<1>7. Reference!HasRank(L, Ascending(s)[r], r)
  BY <1>6, RankOfSorted
<1>8. 2 * (100 * r - q * Len(L)) \in -100 .. 100 \/ (r = Len(L) /\ 2 * q * Len(L) < 100)
  BY <1>4, <1>6
<1>9. r \in 1 .. Len(L)
  BY <1>6
<1> QED
  BY <1>3, <1>7, <1>8, <1>9 DEF Reference!IsPercentile

-----------------------------------------------------------------------------
(***************************************************************************)
(* The samples of a context, and what the metric of each class is to hold  *)
(* of them: L are the samples since the last flush, b the one before them. *)
(***************************************************************************)
Since(b, L) == Reference!Since(b, L)

\* A sample is added at the end.
LEMMA SinceFacts ==
    ASSUME NEW b \in Samples \cup {None}, NEW L \in Seq(Samples)
    PROVE  /\ Since(b, L) \in Seq(Samples)
           /\ b = None => Since(b, L) = L
           /\ b # None => /\ Len(Since(b, L)) = Len(L) + 1
                          /\ Since(b, L)[1] = b
                          /\ \A i \in 1 .. Len(L) : Since(b, L)[i + 1] = L[i]
           /\ L # <<>> => /\ Len(L) > 0
                          /\ Since(b, L) # <<>> /\ Len(Since(b, L)) > 0
                          /\ Since(b, L)[Len(Since(b, L))] = L[Len(L)]
           /\ L = <<>> => Since(b, L) = IF b = None THEN <<>> ELSE <<b>>
<1>1. CASE b = None
  <2>1. Since(b, L) = L
    <3>1. Since(b, L) = <<>> \o L
      BY <1>1 DEF Since, Reference!Since
    <3> QED
      BY <3>1
  <2> QED
    BY <1>1, <2>1
<1>2. CASE b # None
  <2>1. Since(b, L) = <<b>> \o L /\ b \in Samples
    BY <1>2 DEF Since, Reference!Since
  <2>2. /\ <<b>> \in Seq(Samples) /\ Len(<<b>>) = 1 /\ <<b>>[1] = b /\ Len(L) \in Nat
    BY <2>1
  <2>3. /\ <<b>> \o L \in Seq(Samples)
        /\ Len(<<b>> \o L) = Len(L) + 1
    BY <2>2
  <2>4. (<<b>> \o L)[1] = b /\ \A i \in 1 .. Len(L) : (<<b>> \o L)[i + 1] = L[i]
    BY <2>2
  <2>5. L # <<>> => Len(L) > 0
    OBVIOUS
  <2>6. L # <<>> => (<<b>> \o L)[Len(L) + 1] = L[Len(L)] /\ <<b>> \o L # <<>>
    BY <2>2, <2>3, <2>4, <2>5
  <2>7. L = <<>> => <<b>> \o L = <<b>>
    BY <2>2
  <2> QED
    BY <1>2, <2>1, <2>2, <2>3, <2>4, <2>5, <2>6, <2>7
<1> QED
  BY <1>1, <1>2

\* So does the sequence with the sample before them grow.
LEMMA SinceGrows ==
    ASSUME NEW b \in Samples \cup {None}, NEW L \in Seq(Samples), NEW x \in Samples
    PROVE  Since(b, Append(L, x)) = Append(Since(b, L), x)
<1>0. Append(L, x) \in Seq(Samples)
  OBVIOUS
<1>1. CASE b = None
  <2>1. Since(b, L) = L
    BY <1>1, SinceFacts
  <2> DEFINE K == Append(L, x)
  <2>2. K \in Seq(Samples)
    BY <1>0
  <2> HIDE DEF K
  <2>3. Since(b, K) = K
    BY <1>1, <2>2, SinceFacts
  <2> QED
    BY <2>1, <2>3 DEF K
<1>2. CASE b # None
  <2>1. Since(b, L) = <<b>> \o L /\ Since(b, Append(L, x)) = <<b>> \o Append(L, x) /\ b \in Samples
    BY <1>2 DEF Since, Reference!Since
  <2> QED
    BY <2>1
<1> QED
  BY <1>1, <1>2

\* The numbers of the samples.
Values(L) == [i \in 1 .. Len(L) |-> L[i].value]
Weights(L) == [i \in 1 .. Len(L) |-> L[i].weight]
Weighed(L) == [i \in 1 .. Len(L) |-> L[i].value * L[i].weight]
Pairs(L) == [i \in 1 .. Len(L) |-> <<L[i].time, L[i].value>>]
Rising(L) == [i \in 1 .. Len(L) - 1 |-> Reference!Rise(L[i], L[i + 1])]

\* The numbers are natural numbers, and a sample more adds its own.
LEMMA NumbersFacts ==
    ASSUME NEW L \in Seq(Samples)
    PROVE  /\ Len(L) \in Nat
           /\ Values(L) \in [1 .. Len(L) -> Int]
           /\ Weights(L) \in [1 .. Len(L) -> Nat]
           /\ Weighed(L) \in [1 .. Len(L) -> Int]
           /\ L # <<>> => Rising(L) \in [1 .. Len(L) - 1 -> Nat] /\ Len(L) - 1 \in Nat
<1>1. \A i \in 1 .. Len(L) : L[i] \in Samples /\ L[i].value \in Int /\ L[i].weight \in Nat
  <2>1. \A i \in 1 .. Len(L) : L[i] \in Samples
    OBVIOUS
  <2>2. \A x \in Samples : x.value \in Int /\ x.weight \in Nat
    BY DEF Samples
  <2> QED
    BY <2>1, <2>2
<1>2. \A i \in 1 .. Len(L) : L[i].value * L[i].weight \in Int
  BY <1>1
<1>3. \A i \in 1 .. Len(L) - 1 : Reference!Rise(L[i], L[i + 1]) \in Nat
  BY <1>1 DEF Reference!Rise
<1>4. Values(L) \in [1 .. Len(L) -> Int] /\ Weights(L) \in [1 .. Len(L) -> Nat]
  BY <1>1 DEF Values, Weights
<1>5. Weighed(L) \in [1 .. Len(L) -> Int]
  BY <1>2 DEF Weighed
<1>6. L # <<>> => Rising(L) \in [1 .. Len(L) - 1 -> Nat] /\ Len(L) - 1 \in Nat
  BY <1>3 DEF Rising
<1> QED
  BY <1>4, <1>5, <1>6

\* The sums with a sample more.
LEMMA SumsGrow ==
    ASSUME NEW L \in Seq(Samples), NEW x \in Samples
    PROVE  /\ Total(Values(Append(L, x))) = Total(Values(L)) + x.value
           /\ Total(Weights(Append(L, x))) = Total(Weights(L)) + x.weight
           /\ Total(Weighed(Append(L, x))) = Total(Weighed(L)) + x.value * x.weight
           /\ L # <<>> => Total(Rising(Append(L, x)))
                            = Total(Rising(L)) + Reference!Rise(L[Len(L)], x)
<1> DEFINE n == Len(L)
           K == Append(L, x)
<1>1. /\ K \in Seq(Samples) /\ Len(K) = n + 1 /\ K[n + 1] = x /\ n \in Nat
      /\ \A i \in 1 .. n : K[i] = L[i]
  OBVIOUS
<1> HIDE DEF n, K
<1>2. /\ Values(L) \in [1 .. n -> Int] /\ Weights(L) \in [1 .. n -> Nat]
      /\ Weighed(L) \in [1 .. n -> Int]
      /\ Values(K) \in [1 .. n + 1 -> Int] /\ Weights(K) \in [1 .. n + 1 -> Nat]
      /\ Weighed(K) \in [1 .. n + 1 -> Int]
  <2>1. n = Len(L)
    BY DEF n
  <2> QED
    BY <1>1, <2>1, NumbersFacts
<1>3. /\ \A i \in 1 .. n : Values(K)[i] = Values(L)[i]
      /\ \A i \in 1 .. n : Weights(K)[i] = Weights(L)[i]
      /\ \A i \in 1 .. n : Weighed(K)[i] = Weighed(L)[i]
      /\ Values(K)[n + 1] = x.value
      /\ Weights(K)[n + 1] = x.weight
      /\ Weighed(K)[n + 1] = x.value * x.weight
  <2>1. n = Len(L)
    BY DEF n
  <2> QED
    BY <1>1, <2>1 DEF Values, Weights, Weighed
<1>4. Total(Values(K)) = Total(Values(L)) + x.value
  BY <1>1, <1>2, <1>3, TotalGrows
<1>5. Total(Weights(K)) = Total(Weights(L)) + x.weight
  BY <1>1, <1>2, <1>3, NaturalTotalGrows
<1>6. Total(Weighed(K)) = Total(Weighed(L)) + x.value * x.weight
  BY <1>1, <1>2, <1>3, TotalGrows
<1>7. ASSUME L # <<>>
      PROVE  Total(Rising(K)) = Total(Rising(L)) + Reference!Rise(L[n], x)
  <2> DEFINE k == n - 1
  <2>0. n = Len(L) /\ K # <<>> /\ n > 0
    BY <1>1, <1>7 DEF n
  <2>1. k \in Nat /\ k + 1 = n /\ k + 1 = Len(K) - 1 /\ k = Len(L) - 1
    BY <1>1, <2>0
  <2>2. Rising(L) \in [1 .. k -> Nat] /\ Rising(K) \in [1 .. k + 1 -> Nat]
    <3>1. Rising(L) \in [1 .. Len(L) - 1 -> Nat] /\ Rising(K) \in [1 .. Len(K) - 1 -> Nat]
      BY <1>1, <1>7, <2>0, NumbersFacts
    <3> QED
      BY <3>1, <2>1
  <2>3. \A i \in 1 .. k : Rising(K)[i] = Rising(L)[i]
    <3> TAKE i \in 1 .. k
    <3>1. i \in 1 .. n /\ i + 1 \in 1 .. n /\ i \in 1 .. Len(L) - 1 /\ i \in 1 .. Len(K) - 1
      BY <2>1
    <3> QED
      BY <3>1, <1>1 DEF Rising
  <2>4. Rising(K)[k + 1] = Reference!Rise(L[n], x)
    <3>1. k + 1 \in 1 .. Len(K) - 1 /\ k + 1 = n /\ K[n] = L[n] /\ K[n + 1] = x
      BY <2>0, <2>1, <1>1
    <3> QED
      BY <3>1 DEF Rising
  <2> HIDE DEF k
  <2>5. Total(Rising(K)) = Total(Rising(L)) + Rising(K)[k + 1]
    BY <2>1, <2>2, <2>3, NaturalTotalGrows
  <2> QED
    BY <2>4, <2>5
<1> QED
  BY <1>4, <1>5, <1>6, <1>7 DEF n, K

\* The sums of no samples, and of the rises of one.
LEMMA SumsOfNone ==
    /\ Values(<<>>) = <<>> /\ Pairs(<<>>) = <<>>
    /\ Total(Weights(<<>>)) = 0 /\ Total(Weighed(<<>>)) = 0 /\ Total(Values(<<>>)) = 0
    /\ \A L \in Seq(Samples) : Len(L) = 1 => Total(Rising(L)) = 0
<1>1. Values(<<>>) = <<>> /\ Pairs(<<>>) = <<>>
  BY DEF Values, Pairs
<1>2. /\ Weights(<<>>) \in [1 .. 0 -> Nat] /\ Weighed(<<>>) \in [1 .. 0 -> Nat]
      /\ Values(<<>>) \in [1 .. 0 -> Nat]
  BY DEF Weights, Weighed, Values
<1>3. \A L \in Seq(Samples) : Len(L) = 1 => Rising(L) \in [1 .. 0 -> Nat]
  BY DEF Rising
<1> QED
  BY <1>1, <1>2, <1>3, TotalOfNone

-----------------------------------------------------------------------------
(***************************************************************************)
(* What a metric holds of the samples of its context.                      *)
(***************************************************************************)
OfGauge(m, L) ==
    /\ m.class = "Gauge" /\ DOMAIN m = {"class", "value", "last"}
    /\ m.value = IF L = <<>> THEN None ELSE L[Len(L)].value

OfCount(m, L) ==
    /\ m.class = "Count" /\ DOMAIN m = {"class", "value", "last"}
    /\ m.value = IF L = <<>> THEN None ELSE Total(Values(L))

OfCounter(m, L) ==
    /\ m.class = "Counter" /\ DOMAIN m = {"class", "value", "last"}
    /\ m.value = Total(Weighed(L))

OfHistogram(m, L) ==
    /\ m.class = "Histogram" /\ DOMAIN m = {"class", "count", "samples", "last"}
    /\ m.count = Total(Weights(L))
    /\ m.samples = Values(L)

OfSet(m, L) ==
    /\ m.class = "Set" /\ DOMAIN m = {"class", "values", "last"}
    /\ m.values = {L[i].value : i \in 1 .. Len(L)}

\* A rate keeps the sample before a flush.
OfRate(m, b, L) ==
    /\ m.class = "Rate" /\ DOMAIN m = {"class", "samples", "last"}
    /\ m.samples = Pairs(Since(b, L))

\* A monotonic count keeps the value before a flush, as its current or its previous one.
Latest(m) == IF m.curr = None THEN m.prev ELSE m.curr

OfMonotonic(m, b, L) ==
    LET all == Since(b, L) IN
    /\ m.class = "MonotonicCount" /\ DOMAIN m = {"class", "prev", "curr", "count", "last"}
    /\ Latest(m) = IF all = <<>> THEN None ELSE all[Len(all)].value
    /\ L # <<>> => m.curr = L[Len(L)].value
    /\ m.count = IF L = <<>> \/ Len(all) = 1 THEN None ELSE Total(Rising(all))
    /\ m.count # None => m.prev # None

Agrees(m, b, L) ==
    \/ OfGauge(m, L) \/ OfCount(m, L) \/ OfCounter(m, L) \/ OfHistogram(m, L)
    \/ OfSet(m, L) \/ OfRate(m, b, L) \/ OfMonotonic(m, b, L)

\* A new metric holds nothing.
LEMMA NewAgrees ==
    ASSUME NEW mtype \in DOMAIN MetricResolver
    PROVE  LET m == New(MetricResolver[mtype]) IN
           /\ Agrees(m, None, <<>>) /\ m.class = MetricResolver[mtype] /\ m.last = None
<1> DEFINE class == MetricResolver[mtype]
           m == New(class)
<1>0. class \in {"Count", "Counter", "Gauge", "Histogram", "MonotonicCount", "Rate", "Set"}
  BY DEF MetricResolver
<1>1. Since(None, <<>>) = <<>>
  BY DEF Since, Reference!Since
<1> HIDE DEF class
<1>2. CASE class = "Gauge"
  <2>1. m = [class |-> class, value |-> None, last |-> None]
    BY <1>2 DEF New, NewValue, NewCounter, NewMonotonic, NewHistogram, NewRate, NewSet
  <2> QED
    BY <1>2, <2>1 DEF Agrees, OfGauge, class
<1>3. CASE class = "Count"
  <2>1. m = [class |-> class, value |-> None, last |-> None]
    BY <1>3 DEF New, NewValue, NewCounter, NewMonotonic, NewHistogram, NewRate, NewSet
  <2> QED
    BY <1>3, <2>1 DEF Agrees, OfCount, class
<1>4. CASE class = "Counter"
  <2>1. m = [class |-> class, value |-> 0, last |-> None]
    BY <1>4 DEF New, NewValue, NewCounter, NewMonotonic, NewHistogram, NewRate, NewSet
  <2> QED
    BY <1>4, <2>1, SumsOfNone DEF Agrees, OfCounter, class
<1>5. CASE class = "Histogram"
  <2>1. m = [class |-> class, count |-> 0, samples |-> <<>>, last |-> None]
    BY <1>5 DEF New, NewValue, NewCounter, NewMonotonic, NewHistogram, NewRate, NewSet
  <2> QED
    BY <1>5, <2>1, SumsOfNone DEF Agrees, OfHistogram, class
<1>6. CASE class = "Set"
  <2>1. m = [class |-> class, values |-> {}, last |-> None]
    BY <1>6 DEF New, NewValue, NewCounter, NewMonotonic, NewHistogram, NewRate, NewSet
  <2> QED
    BY <1>6, <2>1 DEF Agrees, OfSet, class
<1>7. CASE class = "Rate"
  <2>1. m = [class |-> class, samples |-> <<>>, last |-> None]
    BY <1>7 DEF New, NewValue, NewCounter, NewMonotonic, NewHistogram, NewRate, NewSet
  <2> QED
    BY <1>1, <1>7, <2>1, SumsOfNone DEF Agrees, OfRate, class
<1>8. CASE class = "MonotonicCount"
  <2>1. m = [class |-> class, prev |-> None, curr |-> None, count |-> None, last |-> None]
    BY <1>8 DEF New, NewValue, NewCounter, NewMonotonic, NewHistogram, NewRate, NewSet
  <2> QED
    BY <1>1, <1>8, <2>1 DEF Agrees, OfMonotonic, Latest, class
<1> QED
  BY <1>0, <1>2, <1>3, <1>4, <1>5, <1>6, <1>7, <1>8

\* A sample more, in each class.
LEMMA GaugeSampled ==
    ASSUME NEW m, NEW L \in Seq(Samples), NEW x \in Samples, OfGauge(m, L)
    PROVE  LET s == Sample(m, x.value, x.weight, x.time) IN
           OfGauge(s, Append(L, x)) /\ s.last = x.time
<1>1. Sample(m, x.value, x.weight, x.time) = [[m EXCEPT !.value = x.value] EXCEPT !.last = x.time]
  BY DEF Sample, SampleGauge, OfGauge
<1>2. Append(L, x) # <<>> /\ Append(L, x)[Len(Append(L, x))] = x
  OBVIOUS
<1>3. ASSUME NEW s, s = [[m EXCEPT !.value = x.value] EXCEPT !.last = x.time]
      PROVE  OfGauge(s, Append(L, x)) /\ s.last = x.time
  BY <1>2, <1>3 DEF OfGauge
<1> QED
  BY <1>1, <1>3

LEMMA CountSampled ==
    ASSUME NEW m, NEW L \in Seq(Samples), NEW x \in Samples, OfCount(m, L)
    PROVE  LET s == Sample(m, x.value, x.weight, x.time) IN
           OfCount(s, Append(L, x)) /\ s.last = x.time
<1>1. Sample(m, x.value, x.weight, x.time)
        = [[m EXCEPT !.value = OrZero(m.value) + x.value] EXCEPT !.last = x.time]
  BY DEF Sample, SampleCount, OfCount
<1>2. Append(L, x) # <<>>
  <2>1. Len(Append(L, x)) = Len(L) + 1 /\ Len(L) \in Nat
    OBVIOUS
  <2> QED
    BY <2>1
<1>3. OrZero(m.value) + x.value = Total(Values(Append(L, x)))
  <2>1. Total(Values(L)) \in Int /\ Total(Values(L)) # None
    <3>1. Len(L) \in Nat /\ Values(L) \in [1 .. Len(L) -> Int]
      BY NumbersFacts
    <3>2. Total(Values(L)) \in Int
      BY <3>1, TotalType
    <3> QED
      BY <3>2, MetricTypesAssumption
  <2>2. OrZero(m.value) = Total(Values(L))
    BY <2>1, SumsOfNone DEF OrZero, OfCount
  <2> QED
    BY <2>2, SumsGrow
<1>4. ASSUME NEW s, s = [[m EXCEPT !.value = OrZero(m.value) + x.value] EXCEPT !.last = x.time]
      PROVE  OfCount(s, Append(L, x)) /\ s.last = x.time
  BY <1>2, <1>3, <1>4 DEF OfCount
<1> QED
  BY <1>1, <1>4

LEMMA CounterSampled ==
    ASSUME NEW m, NEW L \in Seq(Samples), NEW x \in Samples, OfCounter(m, L)
    PROVE  LET s == Sample(m, x.value, x.weight, x.time) IN
           OfCounter(s, Append(L, x)) /\ s.last = x.time
<1>1. Sample(m, x.value, x.weight, x.time)
        = [[m EXCEPT !.value = m.value + x.value * x.weight] EXCEPT !.last = x.time]
  BY DEF Sample, SampleCounter, OfCounter
<1>2. m.value + x.value * x.weight = Total(Weighed(Append(L, x)))
  BY SumsGrow DEF OfCounter
<1>3. ASSUME NEW s, NEW w, w = m.value + x.value * x.weight,
             s = [[m EXCEPT !.value = w] EXCEPT !.last = x.time]
      PROVE  OfCounter(s, Append(L, x)) /\ s.last = x.time
  BY <1>2, <1>3 DEF OfCounter
<1> QED
  BY <1>1, <1>3

LEMMA HistogramSampled ==
    ASSUME NEW m, NEW L \in Seq(Samples), NEW x \in Samples, OfHistogram(m, L)
    PROVE  LET s == Sample(m, x.value, x.weight, x.time) IN
           OfHistogram(s, Append(L, x)) /\ s.last = x.time
<1> DEFINE count == m.count + x.weight
           samples == Append(m.samples, x.value)
<1>1. Sample(m, x.value, x.weight, x.time)
        = [[m EXCEPT !.count = count, !.samples = samples] EXCEPT !.last = x.time]
  BY DEF Sample, SampleHistogram, OfHistogram
<1>2. count = Total(Weights(Append(L, x)))
  BY SumsGrow DEF OfHistogram
<1>3. samples = Values(Append(L, x))
  <2>1. m.samples = Values(L) /\ Values(L) \in Seq(Int) /\ Len(Values(L)) = Len(L) /\ x.value \in Int
    BY NumbersFacts, IsSequence DEF OfHistogram, Samples
  <2>2. samples \in Seq(Int) /\ Len(samples) = Len(L) + 1
    BY <2>1
  <2>3. \A i \in 1 .. Len(L) + 1 : samples[i] = Append(L, x)[i].value
    BY <2>1 DEF Values
  <2>4. /\ Len(Append(L, x)) = Len(L) + 1 /\ Append(L, x) \in Seq(Samples)
    OBVIOUS
  <2>5. Values(Append(L, x)) \in Seq(Int) /\ Len(Values(Append(L, x))) = Len(L) + 1
    BY <2>4, NumbersFacts, IsSequence
  <2>6. \A i \in 1 .. Len(L) + 1 : Values(Append(L, x))[i] = Append(L, x)[i].value
    BY <2>4 DEF Values
  <2> HIDE DEF samples
  <2> QED
    BY <2>2, <2>3, <2>5, <2>6, SeqEqual
<1> HIDE DEF count, samples
<1>4. ASSUME NEW s, s = [[m EXCEPT !.count = count, !.samples = samples] EXCEPT !.last = x.time]
      PROVE  OfHistogram(s, Append(L, x)) /\ s.last = x.time
  BY <1>2, <1>3, <1>4 DEF OfHistogram
<1> QED
  BY <1>1, <1>4

LEMMA SetSampled ==
    ASSUME NEW m, NEW L \in Seq(Samples), NEW x \in Samples, OfSet(m, L)
    PROVE  LET s == Sample(m, x.value, x.weight, x.time) IN
           OfSet(s, Append(L, x)) /\ s.last = x.time
<1> DEFINE values == m.values \cup {x.value}
           K == Append(L, x)
<1>1. Sample(m, x.value, x.weight, x.time) = [[m EXCEPT !.values = values] EXCEPT !.last = x.time]
  BY DEF Sample, SampleSet, OfSet
<1>2. values = {K[i].value : i \in 1 .. Len(K)}
  <2>1. /\ Len(K) = Len(L) + 1 /\ Len(L) \in Nat /\ K[Len(L) + 1] = x
        /\ \A i \in 1 .. Len(L) : K[i] = L[i]
    OBVIOUS
  <2>2. m.values = {L[i].value : i \in 1 .. Len(L)}
    BY DEF OfSet
  <2> HIDE DEF K
  <2>3. 1 .. Len(K) = (1 .. Len(L)) \cup {Len(L) + 1}
    BY <2>1
  <2> QED
    BY <2>1, <2>2, <2>3
<1> HIDE DEF values, K
<1>3. ASSUME NEW s, s = [[m EXCEPT !.values = values] EXCEPT !.last = x.time]
      PROVE  OfSet(s, K) /\ s.last = x.time
  BY <1>2, <1>3 DEF OfSet
<1> QED
  BY <1>1, <1>3 DEF K

\* The pairs with a sample more.
LEMMA PairsGrow ==
    ASSUME NEW L \in Seq(Samples), NEW x \in Samples
    PROVE  Pairs(Append(L, x)) = Append(Pairs(L), <<x.time, x.value>>)
<1> DEFINE K == Append(L, x)
<1>1. /\ Len(K) = Len(L) + 1 /\ Len(L) \in Nat /\ K[Len(L) + 1] = x /\ K \in Seq(Samples)
      /\ \A i \in 1 .. Len(L) : K[i] = L[i]
  OBVIOUS
<1> HIDE DEF K
<1>2. ASSUME NEW M \in Seq(Samples)
      PROVE  Pairs(M) \in Seq(Nat \X Int) /\ Len(Pairs(M)) = Len(M)
  <2>1. \A i \in 1 .. Len(M) : M[i] \in Samples
    OBVIOUS
  <2>2. \A y \in Samples : <<y.time, y.value>> \in Nat \X Int
    BY DEF Samples
  <2>3. Len(M) \in Nat /\ Pairs(M) \in [1 .. Len(M) -> Nat \X Int]
    BY <2>1, <2>2 DEF Pairs
  <2> QED
    BY <2>3, IsSequence
<1>3. /\ Pairs(L) \in Seq(Nat \X Int) /\ Len(Pairs(L)) = Len(L)
      /\ Pairs(K) \in Seq(Nat \X Int) /\ Len(Pairs(K)) = Len(L) + 1
  BY <1>1, <1>2
<1>4. <<x.time, x.value>> \in Nat \X Int
  BY DEF Samples
<1> DEFINE u == <<x.time, x.value>>
<1> HIDE DEF u
<1>5. Append(Pairs(L), u) \in Seq(Nat \X Int) /\ Len(Append(Pairs(L), u)) = Len(L) + 1
  BY <1>1, <1>3, <1>4 DEF u
<1>6. \A i \in 1 .. Len(L) + 1 : Pairs(K)[i] = Append(Pairs(L), u)[i]
  <2> TAKE i \in 1 .. Len(L) + 1
  <2>1. Pairs(K)[i] = <<K[i].time, K[i].value>>
    BY <1>1 DEF Pairs
  <2>2. CASE i \in 1 .. Len(L)
    <3>1. Pairs(L)[i] = <<L[i].time, L[i].value>>
      BY <2>2 DEF Pairs
    <3>2. Append(Pairs(L), u)[i] = Pairs(L)[i]
      BY <2>2, <1>3, AppendProperties, <1>4 DEF u
    <3> QED
      BY <2>1, <2>2, <3>1, <3>2, <1>1
  <2>3. CASE i = Len(L) + 1
    <3>1. Append(Pairs(L), u)[i] = u
      BY <2>3, <1>3, AppendProperties, <1>4 DEF u
    <3> QED
      BY <2>1, <2>3, <3>1, <1>1 DEF u
  <2>4. i \in 1 .. Len(L) \/ i = Len(L) + 1
    BY <1>1
  <2> QED
    BY <2>2, <2>3, <2>4
<1>7. Pairs(K) = Append(Pairs(L), u)
  BY <1>3, <1>5, <1>6, SeqEqual
<1> QED
  BY <1>7 DEF K, u

LEMMA RateSampled ==
    ASSUME NEW m, NEW b \in Samples \cup {None}, NEW L \in Seq(Samples), NEW x \in Samples,
           OfRate(m, b, L)
    PROVE  LET s == Sample(m, x.value, x.weight, x.time) IN
           OfRate(s, b, Append(L, x)) /\ s.last = x.time
<1> DEFINE samples == Append(m.samples, <<x.time, x.value>>)
<1>1. Sample(m, x.value, x.weight, x.time) = [[m EXCEPT !.samples = samples] EXCEPT !.last = x.time]
  BY DEF Sample, SampleRate, OfRate
<1>2. samples = Pairs(Since(b, Append(L, x)))
  <2>1. Since(b, L) \in Seq(Samples)
    BY SinceFacts
  <2>2. Since(b, Append(L, x)) = Append(Since(b, L), x)
    BY SinceGrows
  <2> QED
    BY <2>1, <2>2, PairsGrow DEF OfRate
<1> HIDE DEF samples
<1>3. ASSUME NEW s, s = [[m EXCEPT !.samples = samples] EXCEPT !.last = x.time]
      PROVE  OfRate(s, b, Append(L, x)) /\ s.last = x.time
  BY <1>2, <1>3 DEF OfRate
<1> QED
  BY <1>1, <1>3

LEMMA MonotonicSampled ==
    ASSUME NEW m, NEW b \in Samples \cup {None}, NEW L \in Seq(Samples), NEW x \in Samples,
           OfMonotonic(m, b, L), None \notin Samples
    PROVE  LET s == Sample(m, x.value, x.weight, x.time) IN
           OfMonotonic(s, b, Append(L, x)) /\ s.last = x.time
<1> DEFINE all == Since(b, L)
           prev == Latest(m)
           count == IF prev = None THEN m.count ELSE OrZero(m.count) + Larger(0, x.value - prev)
           K == Append(L, x)
<1>1. Sample(m, x.value, x.weight, x.time)
        = [[m EXCEPT !.prev = prev, !.curr = x.value, !.count = count] EXCEPT !.last = x.time]
  BY DEF Sample, OfMonotonic, Monotonic, Latest
<1>2. all \in Seq(Samples) /\ Since(b, K) = Append(all, x) /\ Len(all) \in Nat
  <2>1. all \in Seq(Samples)
    BY SinceFacts
  <2>2. Since(b, K) = Append(all, x)
    BY SinceGrows
  <2> HIDE DEF all, K
  <2> QED
    BY <2>1, <2>2
<1>3. /\ K \in Seq(Samples) /\ Len(K) > 0 /\ K # <<>> /\ K[Len(K)] = x
      /\ Append(all, x) # <<>> /\ Len(Append(all, x)) = Len(all) + 1
      /\ Append(all, x)[Len(Append(all, x))] = x
  BY <1>2
<1>4. \A y \in Samples : y.value \in Int /\ y.value # None
  BY MetricTypesAssumption DEF Samples
<1>5. prev = IF all = <<>> THEN None ELSE all[Len(all)].value
  BY DEF OfMonotonic
<1>6. all # <<>> => Len(all) > 0 /\ all[Len(all)] \in Samples
  BY <1>2
<1>7. /\ m.count = IF L = <<>> \/ Len(all) = 1 THEN None ELSE Total(Rising(all))
      /\ m.count # None => m.prev # None
  BY DEF OfMonotonic
<1>8. L # <<>> => all # <<>>
  BY SinceFacts
<1>9. L = <<>> => Len(all) \in {0, 1} /\ (all # <<>> => Len(all) = 1)
  <2>1. L = <<>> => all = IF b = None THEN <<>> ELSE <<b>>
    BY SinceFacts
  <2> QED
    BY <2>1
<1>10. count = IF Len(all) + 1 = 1 THEN None ELSE Total(Rising(Append(all, x)))
  <2>1. CASE all = <<>>
    <3>1. prev = None /\ L = <<>> /\ Len(all) = 0
      BY <2>1, <1>5, <1>8
    <3> QED
      BY <3>1, <1>7
  <2>2. CASE all # <<>>
    <3>1. prev = all[Len(all)].value /\ prev \in Int /\ prev # None
      BY <2>2, <1>4, <1>5, <1>6
    <3>2. Larger(0, x.value - prev) = Reference!Rise(all[Len(all)], x)
      BY <3>1, <1>4 DEF Larger, Reference!Rise
    <3>3. Total(Rising(Append(all, x))) = Total(Rising(all)) + Reference!Rise(all[Len(all)], x)
      BY <2>2, <1>2, SumsGrow
    <3>4. Total(Rising(all)) \in Nat
      <4>1. Rising(all) \in [1 .. Len(all) - 1 -> Nat] /\ Len(all) - 1 \in Nat
        BY <2>2, <1>2, NumbersFacts
      <4> QED
        BY <4>1, NaturalTotal
    <3>5. OrZero(m.count) = Total(Rising(all))
      <4>1. CASE L = <<>> \/ Len(all) = 1
        <5>1. Len(all) = 1 /\ m.count = None
          BY <4>1, <1>7, <1>9, <2>2
        <5> QED
          BY <5>1, <1>2, SumsOfNone DEF OrZero
      <4>2. CASE ~(L = <<>> \/ Len(all) = 1)
        BY <4>2, <1>7, <3>4, MetricTypesAssumption DEF OrZero
      <4> QED
        BY <4>1, <4>2
    <3>6. Len(all) + 1 # 1
      BY <2>2, <1>6
    <3> HIDE DEF all, prev
    <3> QED
      BY <3>1, <3>2, <3>3, <3>5, <3>6
  <2> QED
    BY <2>1, <2>2
<1>11. count # None => prev # None
  <2>1. prev = None => Len(all) = 0
    BY <1>4, <1>5, <1>6
  <2> HIDE DEF all, prev, count
  <2> QED
    BY <1>10, <2>1
<1>12. count = IF K = <<>> \/ Len(Since(b, K)) = 1 THEN None ELSE Total(Rising(Since(b, K)))
  <2> HIDE DEF count, all, prev, K
  <2> QED
    BY <1>2, <1>3, <1>10
<1>13. x.value # None
  BY <1>4
<1>14. Since(b, K) # <<>> /\ Since(b, K)[Len(Since(b, K))] = x
  BY <1>2, <1>3
<1>15. DOMAIN m = {"class", "prev", "curr", "count", "last"} /\ m.class = "MonotonicCount"
  BY DEF OfMonotonic
<1> HIDE DEF count, prev, K, all
<1>16. ASSUME NEW s,
              s = [[m EXCEPT !.prev = prev, !.curr = x.value, !.count = count] EXCEPT !.last = x.time]
       PROVE  OfMonotonic(s, b, K) /\ s.last = x.time
  <2>1. /\ DOMAIN s = {"class", "prev", "curr", "count", "last"} /\ s.class = "MonotonicCount"
        /\ s.prev = prev /\ s.curr = x.value /\ s.count = count /\ s.last = x.time
    BY <1>15, <1>16
  <2>2. Latest(s) = x.value
    BY <2>1, <1>13 DEF Latest
  <2> QED
    BY <2>1, <2>2, <1>3, <1>11, <1>12, <1>14 DEF OfMonotonic
<1> QED
  BY <1>1, <1>16 DEF K

-----------------------------------------------------------------------------
(***************************************************************************)
(* A flush: what a metric holds after it, and what it reports.             *)
(***************************************************************************)
After(b, L) == IF L = <<>> THEN b ELSE L[Len(L)]

\* What is left of a metric agrees with the sample before the flush.
LEMMA FlushedAgrees ==
    ASSUME NEW m, NEW b \in Samples \cup {None}, NEW L \in Seq(Samples),
           Agrees(m, b, L), None \notin Samples
    PROVE  LET f == Flushed(m) IN
           Agrees(f, After(b, L), <<>>) /\ f.class = m.class /\ f.last = m.last
<1> DEFINE a == After(b, L)
           all == Since(b, L)
<1>1. /\ a \in Samples \cup {None}
      /\ Since(a, <<>>) = IF a = None THEN <<>> ELSE <<a>>
      /\ all \in Seq(Samples)
      /\ a = IF all = <<>> THEN None ELSE all[Len(all)]
  <2>1. L # <<>> => L[Len(L)] \in Samples
    OBVIOUS
  <2>2. a \in Samples \cup {None} /\ <<>> \in Seq(Samples)
    BY <2>1 DEF After
  <2>3. Since(a, <<>>) = IF a = None THEN <<>> ELSE <<a>>
    <3> HIDE DEF a
    <3> QED
      BY <2>2, SinceFacts
  <2>4. all \in Seq(Samples)
    BY SinceFacts
  <2>5. CASE L = <<>>
    <3>1. all = IF b = None THEN <<>> ELSE <<b>>
      BY <2>5, SinceFacts
    <3>2. a = IF all = <<>> THEN None ELSE all[Len(all)]
      <4>1. <<b>> # <<>> /\ Len(<<b>>) = 1 /\ <<b>>[1] = b /\ a = b
        BY <2>5 DEF After
      <4> HIDE DEF a, all
      <4> QED
        BY <3>1, <4>1
    <3> QED
      BY <2>2, <2>3, <2>4, <3>2
  <2>6. CASE L # <<>>
    <3>1. all # <<>> /\ all[Len(all)] = L[Len(L)] /\ a = L[Len(L)]
      BY <2>6, SinceFacts DEF After
    <3> QED
      BY <2>2, <2>3, <2>4, <3>1
  <2> QED
    BY <2>5, <2>6
<1> HIDE DEF a, all
<1>2. ASSUME OfGauge(m, L) \/ OfCount(m, L)
      PROVE  LET f == Flushed(m) IN Agrees(f, a, <<>>) /\ f.class = m.class /\ f.last = m.last
  <2>1. /\ Flushed(m) = [m EXCEPT !.value = None] /\ m.class \in {"Gauge", "Count"}
        /\ DOMAIN m = {"class", "value", "last"}
    BY <1>2 DEF Flushed, ValueFlushed, OfGauge, OfCount
  <2>2. ASSUME NEW f, f = [m EXCEPT !.value = None]
        PROVE  Agrees(f, a, <<>>) /\ f.class = m.class /\ f.last = m.last
    BY <2>1, <2>2 DEF Agrees, OfGauge, OfCount
  <2> QED
    BY <2>1, <2>2
<1>3. ASSUME OfCounter(m, L)
      PROVE  LET f == Flushed(m) IN Agrees(f, a, <<>>) /\ f.class = m.class /\ f.last = m.last
  <2>1. /\ Flushed(m) = [m EXCEPT !.value = 0] /\ m.class = "Counter"
        /\ DOMAIN m = {"class", "value", "last"}
    BY <1>3 DEF Flushed, CounterFlushed, OfCounter
  <2>2. ASSUME NEW f, f = [m EXCEPT !.value = 0]
        PROVE  Agrees(f, a, <<>>) /\ f.class = m.class /\ f.last = m.last
    BY <2>1, <2>2, SumsOfNone DEF Agrees, OfCounter
  <2> QED
    BY <2>1, <2>2
<1>4. ASSUME OfHistogram(m, L)
      PROVE  LET f == Flushed(m) IN Agrees(f, a, <<>>) /\ f.class = m.class /\ f.last = m.last
  <2>1. /\ Flushed(m) = [m EXCEPT !.count = 0, !.samples = <<>>] /\ m.class = "Histogram"
        /\ DOMAIN m = {"class", "count", "samples", "last"}
    BY <1>4 DEF Flushed, HistogramFlushed, OfHistogram
  <2>2. ASSUME NEW f, f = [m EXCEPT !.count = 0, !.samples = <<>>]
        PROVE  Agrees(f, a, <<>>) /\ f.class = m.class /\ f.last = m.last
    BY <2>1, <2>2, SumsOfNone DEF Agrees, OfHistogram
  <2> QED
    BY <2>1, <2>2
<1>5. ASSUME OfSet(m, L)
      PROVE  LET f == Flushed(m) IN Agrees(f, a, <<>>) /\ f.class = m.class /\ f.last = m.last
  <2>1. /\ Flushed(m) = [m EXCEPT !.values = {}] /\ m.class = "Set"
        /\ DOMAIN m = {"class", "values", "last"}
    BY <1>5 DEF Flushed, SetFlushed, OfSet
  <2>2. ASSUME NEW f, f = [m EXCEPT !.values = {}]
        PROVE  Agrees(f, a, <<>>) /\ f.class = m.class /\ f.last = m.last
    BY <2>1, <2>2 DEF Agrees, OfSet
  <2> QED
    BY <2>1, <2>2
<1>6. ASSUME OfRate(m, b, L)
      PROVE  LET f == Flushed(m) IN Agrees(f, a, <<>>) /\ f.class = m.class /\ f.last = m.last
  <2> DEFINE n == Len(all)
             kept == IF Len(m.samples) < 2 THEN m.samples ELSE <<Last(m.samples)>>
  <2>1. /\ Flushed(m) = [m EXCEPT !.samples = kept] /\ m.class = "Rate"
        /\ DOMAIN m = {"class", "samples", "last"}
    BY <1>6 DEF Flushed, RateFlushed, OfRate
  <2>2. m.samples = [i \in 1 .. n |-> <<all[i].time, all[i].value>>] /\ n \in Nat
    BY <1>1, <1>6 DEF OfRate, Pairs, all
  <2>3. Len(m.samples) = n
    <3>1. m.samples \in [1 .. n -> {<<all[i].time, all[i].value>> : i \in 1 .. n}]
      BY <2>2
    <3> QED
      BY <2>2, <3>1, IsSequence
  <2>4. all # <<>> => n > 0
    BY <1>1
  <2>5. all = <<>> => n = 0
    OBVIOUS
  <2>6. kept = Pairs(Since(a, <<>>))
    <3>1. CASE n = 0
      <4>1. kept = <<>>
        BY <2>2, <2>3, <3>1
      <4>2. Since(a, <<>>) = <<>>
        BY <3>1, <1>1, <2>4
      <4> QED
        BY <4>1, <4>2, SumsOfNone
    <3>2. CASE n # 0
      <4> DEFINE y == all[n]
      <4>1. a = y /\ y \in Samples /\ a # None /\ n \in 1 .. n
        BY <1>1, <2>2, <2>5, <3>2
      <4>2. Since(a, <<>>) = <<a>>
        BY <1>1, <4>1
      <4>3. Pairs(<<a>>) = <<<<a.time, a.value>>>>
        BY DEF Pairs
      <4>4. kept = <<<<y.time, y.value>>>>
        <5>1. CASE n < 2
          <6>1. n = 1 /\ kept = m.samples
            BY <5>1, <2>2, <2>3, <3>2
          <6> QED
            BY <6>1, <2>2
        <5>2. CASE ~ n < 2
          BY <5>2, <2>2, <2>3, <4>1 DEF Last
        <5> QED
          BY <5>1, <5>2
      <4> HIDE DEF kept, y
      <4> QED
        BY <4>1, <4>2, <4>3, <4>4
    <3> QED
      BY <3>1, <3>2
  <2> HIDE DEF kept
  <2>7. ASSUME NEW f, f = [m EXCEPT !.samples = kept]
        PROVE  Agrees(f, a, <<>>) /\ f.class = m.class /\ f.last = m.last
    BY <2>1, <2>6, <2>7 DEF Agrees, OfRate
  <2> QED
    BY <2>1, <2>7
<1>7. ASSUME OfMonotonic(m, b, L)
      PROVE  LET f == Flushed(m) IN Agrees(f, a, <<>>) /\ f.class = m.class /\ f.last = m.last
  <2>1. /\ Flushed(m) = MonotonicFlushed(m) /\ m.class = "MonotonicCount"
        /\ DOMAIN m = {"class", "prev", "curr", "count", "last"}
        /\ Latest(m) = IF all = <<>> THEN None ELSE all[Len(all)].value
        /\ L # <<>> => m.curr = L[Len(L)].value
        /\ m.count = IF L = <<>> \/ Len(all) = 1 THEN None ELSE Total(Rising(all))
    BY <1>7 DEF Flushed, OfMonotonic, all
  <2> DEFINE late == Since(a, <<>>)
  <2>2. /\ (IF late = <<>> THEN None ELSE late[Len(late)].value) = Latest(m)
        /\ late = <<>> \/ Len(late) = 1
    <3>1. CASE all = <<>>
      BY <3>1, <1>1, <2>1
    <3>2. CASE all # <<>>
      <4>1. a = all[Len(all)] /\ a \in Samples /\ a # None
        BY <3>2, <1>1
      <4>2. late = <<a>> /\ <<a>> # <<>> /\ Len(<<a>>) = 1 /\ <<a>>[1] = a
        BY <1>1, <4>1
      <4> QED
        BY <3>2, <2>1, <4>1, <4>2
    <3> QED
      BY <3>1, <3>2
  <2> HIDE DEF late
  <2>3. CASE m.count = None
    <3>1. Flushed(m) = m
      BY <2>1, <2>3 DEF MonotonicFlushed
    <3>2. OfMonotonic(m, a, <<>>)
      BY <2>1, <2>2, <2>3 DEF OfMonotonic, late
    <3> QED
      BY <3>1, <3>2 DEF Agrees
  <2>4. CASE m.count # None
    <3>1. Flushed(m) = [m EXCEPT !.prev = m.curr, !.curr = None, !.count = None]
      BY <2>1, <2>4 DEF MonotonicFlushed
    <3>2. L # <<>> /\ m.curr = L[Len(L)].value /\ L[Len(L)] \in Samples
      BY <2>1, <2>4
    <3>3. m.curr # None
      <4>1. \A y \in Samples : y.value # None
        BY MetricTypesAssumption DEF Samples
      <4> QED
        BY <3>2, <4>1
    <3>4. ASSUME NEW f, f = [m EXCEPT !.prev = m.curr, !.curr = None, !.count = None]
          PROVE  OfMonotonic(f, a, <<>>) /\ f.class = m.class /\ f.last = m.last
      <4>1. /\ DOMAIN f = DOMAIN m /\ f.class = m.class /\ f.last = m.last
            /\ f.prev = m.curr /\ f.curr = None /\ f.count = None
        BY <3>4, <2>1
      <4>2. Latest(f) = Latest(m)
        BY <4>1, <3>3 DEF Latest
      <4> QED
        BY <4>1, <4>2, <2>1, <2>2 DEF OfMonotonic, late
    <3> QED
      BY <3>1, <3>4 DEF Agrees
  <2> QED
    BY <2>3, <2>4
<1> QED
  BY <1>2, <1>3, <1>4, <1>5, <1>6, <1>7 DEF Agrees, a

\* Each sample is no earlier than the one before it.
Timely(all) == \A i \in 1 .. Len(all) - 1 : all[i].time <= all[i + 1].time

\* The sums of the reference.
LEMMA SumsPromised ==
    ASSUME NEW L
    PROVE  /\ Reference!SumOf(L, LAMBDA x : x.value) = Total(Values(L))
           /\ Reference!SumOf(L, LAMBDA x : x.weight) = Total(Weights(L))
           /\ Reference!SumOf(L, LAMBDA x : x.value * x.weight) = Total(Weighed(L))
           /\ Reference!Rises(L) = Total(Rising(L))
BY SameTotal DEF Reference!SumOf, Reference!Rises, Values, Weights, Weighed, Rising

\* A sample counts for one at the least.
LEMMA WeightsPositive ==
    ASSUME NEW L \in Seq(Samples), L # <<>>
    PROVE  Total(Weights(L)) \in Nat /\ Total(Weights(L)) # 0
<1> DEFINE n == Len(L)
<1>1. n \in Nat /\ n > 0 /\ Weights(L) \in [1 .. n -> Nat]
  BY NumbersFacts
<1>2. Weights(L)[1] \in Nat \ {0}
  <2>1. L[1] \in Samples /\ 1 \in 1 .. Len(L)
    BY <1>1
  <2>2. \A x \in Samples : x.weight \in Nat \ {0}
    BY DEF Samples
  <2> QED
    BY <2>1, <2>2 DEF Weights
<1>3. <<1, 1>> \in Units(Weights(L), n)
  <2>1. <<1, 1>> \in {1} \X (1 .. Weights(L)[1]) /\ 1 \in 1 .. n
    BY <1>1, <1>2
  <2> HIDE DEF n
  <2> QED
    BY <2>1 DEF Units
<1>4. /\ Total(Weights(L)) \in Nat /\ Total(Weights(L)) = Cardinality(Units(Weights(L), n))
      /\ IsFiniteSet(Units(Weights(L), n))
  <2> HIDE DEF n
  <2> QED
    BY <1>1, NaturalTotal
<1> QED
  BY <1>3, <1>4, FS_EmptySet

\* What each class reports is what is promised of it.
LEMMA GaugePromised ==
    ASSUME NEW m, NEW b, NEW L \in Seq(Samples), OfGauge(m, L)
    PROVE  Reference!Promised("Gauge", b, L, Points(m))
<1>1. \A y \in Samples : y.value # None
  BY MetricTypesAssumption DEF Samples
<1>2. Points(m) = {<<<<>>, Whole(v)>> : v \in {m.value} \ {None}}
  BY DEF Points, ValuePoints, OfGauge
<1>3. CASE L = <<>>
  <2>1. Points(m) = {}
    BY <1>2, <1>3 DEF OfGauge
  <2> QED
    BY <1>3, <2>1 DEF Reference!Promised
<1>4. CASE L # <<>>
  <2>1. m.value = L[Len(L)].value /\ L[Len(L)] \in Samples
    BY <1>4 DEF OfGauge
  <2>2. Points(m) = {<<<<>>, Whole(L[Len(L)].value)>>}
    BY <1>1, <1>2, <2>1
  <2> QED
    BY <1>4, <2>2 DEF Reference!Promised, Reference!Only, Reference!Last, Whole
<1> QED
  BY <1>3, <1>4

LEMMA CountPromised ==
    ASSUME NEW m, NEW b, NEW L \in Seq(Samples), OfCount(m, L)
    PROVE  Reference!Promised("Count", b, L, Points(m))
<1>1. Total(Values(L)) # None
  <2>1. Len(L) \in Nat /\ Values(L) \in [1 .. Len(L) -> Int]
    BY NumbersFacts
  <2>2. Total(Values(L)) \in Int
    BY <2>1, TotalType
  <2> QED
    BY <2>2, MetricTypesAssumption
<1>2. Points(m) = {<<<<>>, Whole(v)>> : v \in {m.value} \ {None}}
  BY DEF Points, ValuePoints, OfCount
<1>3. CASE L = <<>>
  <2>1. Points(m) = {}
    BY <1>2, <1>3 DEF OfCount
  <2> QED
    BY <1>3, <2>1 DEF Reference!Promised
<1>4. CASE L # <<>>
  <2>1. Points(m) = {<<<<>>, Whole(Total(Values(L)))>>}
    BY <1>1, <1>2, <1>4 DEF OfCount
  <2> QED
    BY <1>4, <2>1, SumsPromised DEF Reference!Promised, Reference!Only, Whole
<1> QED
  BY <1>3, <1>4

LEMMA CounterPromised ==
    ASSUME NEW m, NEW b, NEW L \in Seq(Samples), OfCounter(m, L)
    PROVE  Reference!Promised("Counter", b, L, Points(m))
<1>1. Points(m) = {<<<<>>, <<Total(Weighed(L)), Interval>>>>}
  BY DEF Points, CounterPoints, OfCounter
<1> QED
  BY <1>1, SumsPromised DEF Reference!Promised, Reference!Only

LEMMA SetPromised ==
    ASSUME NEW m, NEW b, NEW L \in Seq(Samples), OfSet(m, L)
    PROVE  Reference!Promised("Set", b, L, Points(m))
<1>1. m.values = Reference!ValuesOf(L)
  BY DEF OfSet, Reference!ValuesOf
<1>2. Points(m) = IF m.values = {} THEN {} ELSE {<<<<>>, Whole(Cardinality(m.values))>>}
  BY DEF Points, SetPoints, OfSet
<1>3. CASE L = <<>>
  <2>1. m.values = {}
    BY <1>3 DEF OfSet
  <2> QED
    BY <1>2, <1>3, <2>1 DEF Reference!Promised
<1>4. CASE L # <<>>
  <2>1. Len(L) > 0
    BY <1>4
  <2>2. L[1].value \in m.values
    BY <2>1 DEF OfSet
  <2>3. Points(m) = {<<<<>>, <<Reference!Cardinality(Reference!ValuesOf(L)), 1>>>>}
    BY <1>1, <1>2, <2>2, SameCardinality DEF Whole
  <2> QED
    BY <1>4, <2>3 DEF Reference!Promised, Reference!Only
<1> QED
  BY <1>3, <1>4

LEMMA MonotonicPromised ==
    ASSUME NEW m, NEW b \in Samples \cup {None}, NEW L \in Seq(Samples), OfMonotonic(m, b, L)
    PROVE  Reference!Promised("MonotonicCount", b, L, Points(m))
<1> DEFINE all == Reference!Since(b, L)
<1>0. all = Since(b, L)
  BY DEF Since
<1>1. Points(m) = {<<<<>>, Whole(v)>> : v \in {m.count} \ {None}}
  BY DEF Points, MonotonicPoints, OfMonotonic
<1>2. m.count = IF L = <<>> \/ Len(all) = 1 THEN None ELSE Total(Rising(all))
  BY DEF OfMonotonic, Since
<1>3. CASE L = <<>>
  <2>1. Points(m) = {}
    BY <1>1, <1>2, <1>3
  <2> QED
    BY <1>3, <2>1 DEF Reference!Promised
<1>4. CASE L # <<>>
  <2>1. all \in Seq(Samples) /\ all # <<>>
    <3>1. Since(b, L) \in Seq(Samples) /\ Since(b, L) # <<>>
      BY <1>4, SinceFacts
    <3> HIDE DEF all
    <3> QED
      BY <1>0, <3>1
  <2> HIDE DEF all
  <2>2. Total(Rising(all)) # None
    <3>1. Rising(all) \in [1 .. Len(all) - 1 -> Nat] /\ Len(all) - 1 \in Nat
      BY <2>1, NumbersFacts
    <3>2. Total(Rising(all)) \in Nat
      BY <3>1, NaturalTotal
    <3> QED
      BY <3>2, MetricTypesAssumption
  <2>3. Points(m) = IF Len(all) = 1 THEN {} ELSE {<<<<>>, <<Reference!Rises(all), 1>>>>}
    <3>1. CASE Len(all) = 1
      BY <3>1, <1>1, <1>2
    <3>2. CASE Len(all) # 1
      BY <3>2, <1>1, <1>2, <1>4, <2>2, SumsPromised DEF Whole
    <3> QED
      BY <3>1, <3>2
  <2> QED
    BY <1>4, <2>3 DEF Reference!Promised, Reference!Only, all
<1> QED
  BY <1>3, <1>4

LEMMA RatePromised ==
    ASSUME NEW m, NEW b \in Samples \cup {None}, NEW L \in Seq(Samples), OfRate(m, b, L),
           Timely(Since(b, L))
    PROVE  Reference!Promised("Rate", b, L, Points(m))
<1> DEFINE all == Reference!Since(b, L)
           n == Len(all)
<1>0. all = Since(b, L)
  BY DEF Since
<1>1. /\ all \in Seq(Samples) /\ (L # <<>> => all # <<>>) /\ n \in Nat
      /\ (L = <<>> => n < 2)
      /\ (L # <<>> => n > 0)
  <2>1. all \in Seq(Samples) /\ (L # <<>> => all # <<>>)
    <3>1. Since(b, L) \in Seq(Samples) /\ (L # <<>> => Since(b, L) # <<>>)
      BY SinceFacts
    <3> HIDE DEF all
    <3> QED
      BY <1>0, <3>1
  <2>2. L = <<>> => all = IF b = None THEN <<>> ELSE <<b>>
    <3>1. L = <<>> => Since(b, L) = IF b = None THEN <<>> ELSE <<b>>
      BY SinceFacts
    <3> HIDE DEF all
    <3> QED
      BY <1>0, <3>1
  <2> HIDE DEF all
  <2>3. n \in Nat /\ (all # <<>> => n > 0)
    BY <2>1
  <2>4. Len(<<b>>) = 1 /\ Len(<<>>) = 0
    OBVIOUS
  <2>5. L = <<>> => n < 2
    BY <2>2, <2>4
  <2> HIDE DEF n
  <2> QED
    BY <2>1, <2>3, <2>5
<1>2. m.samples = [i \in 1 .. n |-> <<all[i].time, all[i].value>>]
  BY DEF OfRate, Pairs, Since
<1>3. Len(m.samples) = n
  <2>1. m.samples \in [1 .. n -> {<<all[i].time, all[i].value>> : i \in 1 .. n}]
    BY <1>2
  <2> HIDE DEF n, all
  <2> QED
    BY <1>1, <2>1, IsSequence
<1>4. Points(m) = RatePoints(m)
  BY DEF Points, OfRate
<1> HIDE DEF all
<1>5. CASE n < 2
  <2>1. Points(m) = {}
    BY <1>3, <1>4, <1>5 DEF RatePoints
  <2>2. L # <<>> => n = 1
    <3> HIDE DEF n
    <3> QED
      BY <1>1, <1>5
  <2> QED
    BY <2>1, <2>2 DEF Reference!Promised, all
<1>6. CASE ~ n < 2
  <2> DEFINE x == all[n - 1]
             y == all[n]
  <2>1. n \in 1 .. n /\ n - 1 \in 1 .. n /\ n - 1 \in 1 .. n - 1 /\ (n - 1) + 1 = n
    BY <1>1, <1>6
  <2>2. x \in Samples /\ y \in Samples
    BY <1>1, <2>1
  <2>3. /\ m.samples[n][1] = y.time /\ m.samples[n][2] = y.value
        /\ m.samples[n - 1][1] = x.time /\ m.samples[n - 1][2] = x.value
    BY <1>2, <2>1
  <2>4. x.time <= y.time
    <3>1. Timely(all)
      BY <1>0
    <3> QED
      BY <3>1, <2>1 DEF Timely
  <2>5. x.time \in Nat /\ y.time \in Nat /\ x.value \in Int /\ y.value \in Int
    BY <2>2 DEF Samples
  <2>6. Points(m) = IF y.time - x.time = 0 \/ y.value - x.value < 0 THEN {}
                    ELSE {<<<<>>, <<y.value - x.value, y.time - x.time>>>>}
    BY <1>3, <1>4, <1>6, <2>3 DEF RatePoints
  <2>7. Points(m) = IF y.time > x.time /\ y.value >= x.value
                    THEN {<<<<>>, <<y.value - x.value, y.time - x.time>>>>} ELSE {}
    <3> HIDE DEF x, y
    <3> QED
      BY <2>4, <2>5, <2>6
  <2>8. L # <<>> /\ n # 1
    <3> HIDE DEF n
    <3> QED
      BY <1>1, <1>6
  <2> QED
    BY <2>7, <2>8 DEF Reference!Promised, Reference!Only, all
<1> QED
  BY <1>5, <1>6

\* The aggregates of a histogram, one by one.
LEMMA AggregatesPromised ==
    ASSUME NEW L \in Seq(Samples), L # <<>>, NEW sorted, sorted = Ascending(Values(L))
    PROVE  /\ Reference!IsAggregate(L, <<"min">>, Whole(sorted[1]))
           /\ Reference!IsAggregate(L, <<"max">>, Whole(Last(sorted)))
           /\ Reference!IsAggregate(L, <<"median">>, Whole(Median(sorted)))
           /\ Reference!IsAggregate(L, <<"avg">>, <<Total(sorted), Len(sorted)>>)
           /\ Reference!IsAggregate(L, <<"sum">>, Whole(Total(sorted)))
           /\ Reference!IsAggregate(L, <<"count">>, <<Total(Weights(L)), Interval>>)
           /\ \A q \in 0 .. 99 :
                 Reference!IsAggregate(L, <<"percentile", q>>, Whole(Percentile(sorted, q)))
<1> DEFINE n == Len(L)
           s == Values(L)
<1>1. n \in Nat \ {0} /\ s \in [1 .. n -> Int] /\ \A i \in 1 .. n : L[i].value = s[i]
  <2>1. n \in Nat \ {0} /\ s \in [1 .. n -> Int]
    BY NumbersFacts
  <2> QED
    BY <2>1 DEF Values
<1>2. Reference!ValuesOf(L) = {s[i] : i \in 1 .. n}
  BY DEF Reference!ValuesOf, Values
<1> HIDE DEF s
<1>3. PICK p : /\ p \in Bijection(1 .. n, 1 .. n)
               /\ sorted = [i \in 1 .. n |-> s[p[i]]]
               /\ \A i, j \in 1 .. n : i <= j => s[p[i]] <= s[p[j]]
  BY <1>1, AscendingFacts DEF s
<1>4. /\ p \in [1 .. n -> 1 .. n]
      /\ \A j \in 1 .. n : \E i \in 1 .. n : p[i] = j
  BY <1>3 DEF Bijection, Injection, Surjection
<1>5. Len(sorted) = n
  <2>1. sorted \in [1 .. n -> Int]
    BY <1>1, <1>3, <1>4
  <2> QED
    BY <1>1, <2>1, IsSequence
<1>6. Total(sorted) = Total(s)
  <2>1. Total([i \in 1 .. n |-> s[p[i]]]) = Total(s)
    <3> HIDE DEF n
    <3> QED
      BY <1>1, <1>3, TotalPermuted
  <2> QED
    BY <1>3, <2>1
<1>7. 1 \in 1 .. n /\ n \in 1 .. n
  BY <1>1
<1>8. ASSUME NEW v \in Reference!ValuesOf(L)
      PROVE  sorted[1] <= v /\ v <= sorted[n]
  <2>1. PICK j \in 1 .. n : v = s[j]
    BY <1>2
  <2>2. PICK i \in 1 .. n : p[i] = j
    BY <1>4
  <2>3. 1 <= i /\ i <= n
    BY <1>1
  <2> QED
    BY <1>3, <1>7, <2>1, <2>2, <2>3
<1>9. sorted[1] \in Reference!ValuesOf(L) /\ sorted[n] \in Reference!ValuesOf(L)
  <2>1. p[1] \in 1 .. n /\ p[n] \in 1 .. n
    BY <1>4, <1>7
  <2> QED
    BY <1>2, <1>3, <1>7, <2>1
<1>10. \A v \in Reference!ValuesOf(L) : v \in Int
  BY <1>1, <1>2
<1>11. Reference!IsAggregate(L, <<"min">>, Whole(sorted[1]))
  BY <1>8, <1>9, <1>10 DEF Reference!IsAggregate, Whole
<1>12. Reference!IsAggregate(L, <<"max">>, Whole(Last(sorted)))
  BY <1>5, <1>8, <1>9, <1>10 DEF Reference!IsAggregate, Whole, Last
<1>13. Reference!IsAggregate(L, <<"median">>, Whole(Median(sorted)))
  <2>1. Reference!IsPercentile(L, Median(sorted), 50)
    BY <1>1, MedianIsPercentile DEF s
  <2> QED
    BY <2>1 DEF Reference!IsAggregate, Whole
<1>14. Reference!IsAggregate(L, <<"avg">>, <<Total(sorted), Len(sorted)>>)
  BY <1>5, <1>6, SumsPromised DEF Reference!IsAggregate, s
<1>15. Reference!IsAggregate(L, <<"sum">>, Whole(Total(sorted)))
  BY <1>5, <1>6, SumsPromised DEF Reference!IsAggregate, Whole, s
<1>16. Reference!IsAggregate(L, <<"count">>, <<Total(Weights(L)), Interval>>)
  BY SumsPromised DEF Reference!IsAggregate
<1>17. ASSUME NEW q \in 0 .. 99
       PROVE  Reference!IsAggregate(L, <<"percentile", q>>, Whole(Percentile(sorted, q)))
  <2>1. Reference!IsPercentile(L, Percentile(sorted, q), q)
    BY <1>1, PercentileIsPercentile DEF s
  <2>2. /\ <<"percentile", q>>[1] = "percentile" /\ <<"percentile", q>>[2] = q
        /\ Len(<<"percentile", q>>) = 2
        /\ \A a : Len(<<a>>) = 1
    OBVIOUS
  <2>3. \A a : <<"percentile", q>> # <<a>>
    BY <2>2
  <2> QED
    BY <2>1, <2>2, <2>3 DEF Reference!IsAggregate, Whole
<1> QED
  BY <1>11, <1>12, <1>13, <1>14, <1>15, <1>16, <1>17

LEMMA HistogramPromised ==
    ASSUME NEW m, NEW b, NEW L \in Seq(Samples), OfHistogram(m, L)
    PROVE  Reference!Promised("Histogram", b, L, Points(m))
<1>0. Points(m) = HistogramPoints(m) /\ m.count = Total(Weights(L)) /\ m.samples = Values(L)
  BY DEF Points, OfHistogram
<1>1. CASE L = <<>>
  <2>1. Points(m) = {}
    BY <1>0, <1>1, SumsOfNone DEF HistogramPoints
  <2> QED
    BY <1>1, <2>1 DEF Reference!Promised
<1>2. CASE L # <<>>
  <2> DEFINE sorted == Ascending(m.samples)
             sum == Total(sorted)
             aggregators ==
                [min |-> Whole(sorted[1]), max |-> Whole(Last(sorted)),
                 median |-> Whole(Median(sorted)), avg |-> <<sum, Len(sorted)>>,
                 sum |-> Whole(sum), count |-> <<m.count, Interval>>]
             A == {<<<<a>>, aggregators[a]>> : a \in Aggregates}
             P == {<<<<"percentile", q>>, Whole(Percentile(sorted, q))>> : q \in Percentiles}
  <2>1. Points(m) = A \cup P
    <3>1. m.count # 0
      BY <1>0, <1>2, WeightsPositive
    <3> QED
      BY <1>0, <3>1 DEF HistogramPoints
  <2>2. /\ Reference!IsAggregate(L, <<"min">>, aggregators["min"])
        /\ Reference!IsAggregate(L, <<"max">>, aggregators["max"])
        /\ Reference!IsAggregate(L, <<"median">>, aggregators["median"])
        /\ Reference!IsAggregate(L, <<"avg">>, aggregators["avg"])
        /\ Reference!IsAggregate(L, <<"sum">>, aggregators["sum"])
        /\ Reference!IsAggregate(L, <<"count">>, aggregators["count"])
        /\ \A q \in 0 .. 99 :
              Reference!IsAggregate(L, <<"percentile", q>>, Whole(Percentile(sorted, q)))
    <3>1. sorted = Ascending(Values(L))
      BY <1>0
    <3> HIDE DEF sorted
    <3> QED
      BY <1>0, <1>2, <3>1, AggregatesPromised
  <2> HIDE DEF aggregators, sorted
  <2>3. \A a \in Aggregates : Reference!IsAggregate(L, <<a>>, aggregators[a])
    <3>1. \A a \in Aggregates : a \in {"min", "max", "median", "avg", "sum", "count"}
      BY MetricTypesAssumption
    <3> QED
      BY <2>2, <3>1
  <2>4. \A q \in Percentiles : q \in 0 .. 99
    BY MetricTypesAssumption
  <2>5. \A pt \in A \cup P : Reference!IsAggregate(L, pt[1], pt[2])
    <3>1. ASSUME NEW a \in Aggregates
          PROVE  LET pt == <<<<a>>, aggregators[a]>> IN Reference!IsAggregate(L, pt[1], pt[2])
      BY <2>3
    <3>2. ASSUME NEW q \in Percentiles
          PROVE  LET pt == <<<<"percentile", q>>, Whole(Percentile(sorted, q))>>
                 IN  Reference!IsAggregate(L, pt[1], pt[2])
      BY <2>2, <2>4
    <3> QED
      BY <3>1, <3>2
  <2>6. {pt[1] : pt \in A \cup P} = Reference!PointNames
    <3>1. \A pt \in A \cup P : pt[1] \in Reference!PointNames
      BY DEF Reference!PointNames
    <3>2. ASSUME NEW u \in Reference!PointNames PROVE \E pt \in A \cup P : pt[1] = u
      <4>1. CASE u \in {<<a>> : a \in Aggregates}
        <5>1. PICK a \in Aggregates : u = <<a>>
          BY <4>1
        <5> DEFINE pt == <<<<a>>, aggregators[a]>>
        <5>2. pt \in A /\ pt[1] = u
          BY <5>1
        <5> HIDE DEF pt, A, P
        <5> QED
          BY <5>2
      <4>2. CASE u \in {<<"percentile", q>> : q \in Percentiles}
        <5>1. PICK q \in Percentiles : u = <<"percentile", q>>
          BY <4>2
        <5> DEFINE pt == <<<<"percentile", q>>, Whole(Percentile(sorted, q))>>
        <5>2. pt \in P /\ pt[1] = u
          BY <5>1
        <5> HIDE DEF pt, A, P
        <5> QED
          BY <5>2
      <4> QED
        BY <4>1, <4>2 DEF Reference!PointNames
    <3> HIDE DEF A, P
    <3> QED
      BY <3>1, <3>2
  <2> HIDE DEF A, P
  <2> QED
    BY <1>2, <2>1, <2>5, <2>6 DEF Reference!Promised
<1> QED
  BY <1>1, <1>2

\* What a flush reports of a metric is what its class promises of its samples.
LEMMA PointsPromised ==
    ASSUME NEW m, NEW b \in Samples \cup {None}, NEW L \in Seq(Samples),
           Agrees(m, b, L), Timely(Since(b, L))
    PROVE  Reference!Promised(m.class, b, L, Points(m))
<1>1. CASE OfGauge(m, L)
  BY <1>1, GaugePromised DEF OfGauge
<1>2. CASE OfCount(m, L)
  BY <1>2, CountPromised DEF OfCount
<1>3. CASE OfCounter(m, L)
  BY <1>3, CounterPromised DEF OfCounter
<1>4. CASE OfHistogram(m, L)
  BY <1>4, HistogramPromised DEF OfHistogram
<1>5. CASE OfSet(m, L)
  BY <1>5, SetPromised DEF OfSet
<1>6. CASE OfRate(m, b, L)
  BY <1>6, RatePromised DEF OfRate
<1>7. CASE OfMonotonic(m, b, L)
  BY <1>7, MonotonicPromised DEF OfMonotonic
<1> QED
  BY <1>1, <1>2, <1>3, <1>4, <1>5, <1>6, <1>7 DEF Agrees

-----------------------------------------------------------------------------
(***************************************************************************)
(* The inductive invariant.                                                *)
(***************************************************************************)
Shapes ==
    /\ workload \in Workloads
    /\ now \in 0 .. workload.max_time
    /\ DOMAIN metrics \subseteq Contexts
    /\ DOMAIN points \subseteq Contexts
    /\ sources \in [Sources -> SUBSET Contexts]
    /\ log \in [Contexts -> Seq(Samples)]
    /\ before \in [Contexts -> Samples \cup {None}]
    /\ flushed \in 0 .. now

\* What was submitted is of the workload.
OfWorkload ==
    \A c \in Contexts :
        /\ before[c] # None => before[c].value \in workload.values
        /\ \A i \in 1 .. Len(log[c]) : log[c][i].value \in workload.values

\* The clock does not go back.
InTime ==
    \A c \in Contexts :
        LET all == Since(before[c], log[c]) IN
        Timely(all) /\ \A i \in 1 .. Len(all) : all[i].time <= now

\* Every metric holds what its class keeps of its samples, and was sampled since the last
\* flush if it has some; a context without a metric has none.
HoldsSamples ==
    /\ \A c \in DOMAIN metrics :
        /\ Agrees(metrics[c], before[c], log[c])
        /\ metrics[c].last \in (0 .. now) \cup {None}
        /\ log[c] # <<>> => metrics[c].last \in flushed .. now
    /\ \A c \in Contexts \ DOMAIN metrics : log[c] = <<>> /\ before[c] = None

\* The samples that the next flush is to report, each with its context.
Reported(lg) == UNION {{c} \X DOMAIN lg[c] : c \in Contexts}

Sourced == \A c \in DOMAIN metrics : \E s \in Sources : c \in sources[s]

\* No call is counted twice: each is of a flush, or is to be, or was too late.
Counted ==
    /\ {metric_count, num_discarded_old_points, submits} \subseteq Nat
    /\ stats \in [{"metrics", "metrics_total"} -> Nat]
    /\ stats["metrics"] <= stats["metrics_total"]
    /\ stats["metrics_total"] + metric_count + num_discarded_old_points <= submits
    /\ submits <= workload.max_submits
    /\ IsFiniteSet(Reported(log)) /\ metric_count = Cardinality(Reported(log))

MetricsInv == Shapes /\ OfWorkload /\ InTime /\ HoldsSamples /\ Sourced /\ Counted

\* Samples are no None, nor are the classes.
LEMMA Apart ==
    /\ None \notin Samples
    /\ \A mtype \in DOMAIN MetricResolver : MetricResolver[mtype] # None
    /\ \A m, b, L : Agrees(m, b, L) => m.class # None
<1>1. /\ None \notin Samples /\ None \notin Range(MetricResolver)
  BY AggregatorAssumption
<1>2. \A mtype \in DOMAIN MetricResolver : MetricResolver[mtype] # None
  BY <1>1 DEF Range
<1>3. /\ MetricResolver["g"] = "Gauge" /\ "g" \in DOMAIN MetricResolver
      /\ MetricResolver["ct"] = "Count" /\ "ct" \in DOMAIN MetricResolver
      /\ MetricResolver["c"] = "Counter" /\ "c" \in DOMAIN MetricResolver
      /\ MetricResolver["h"] = "Histogram" /\ "h" \in DOMAIN MetricResolver
      /\ MetricResolver["s"] = "Set" /\ "s" \in DOMAIN MetricResolver
      /\ MetricResolver["ddr"] = "Rate" /\ "ddr" \in DOMAIN MetricResolver
      /\ MetricResolver["ctc"] = "MonotonicCount" /\ "ctc" \in DOMAIN MetricResolver
  BY DEF MetricResolver
<1>4. None \notin {"Gauge", "Count", "Counter", "Histogram", "Set", "Rate", "MonotonicCount"}
  BY <1>2, <1>3
<1>5. \A m, b, L : Agrees(m, b, L) =>
          m.class \in {"Gauge", "Count", "Counter", "Histogram", "Set", "Rate", "MonotonicCount"}
  BY DEF Agrees, OfGauge, OfCount, OfCounter, OfHistogram, OfSet, OfRate, OfMonotonic
<1> QED
  BY <1>1, <1>2, <1>4, <1>5

\* A sample more, whatever the class.
LEMMA SampleAgrees ==
    ASSUME NEW m, NEW b \in Samples \cup {None}, NEW L \in Seq(Samples), NEW x \in Samples,
           Agrees(m, b, L)
    PROVE  LET s == Sample(m, x.value, x.weight, x.time) IN
           Agrees(s, b, Append(L, x)) /\ s.last = x.time /\ s.class = m.class
<1> DEFINE s == Sample(m, x.value, x.weight, x.time)
           K == Append(L, x)
<1>1. CASE OfGauge(m, L)
  <2>1. OfGauge(s, K) /\ s.last = x.time
    BY <1>1, GaugeSampled
  <2> HIDE DEF s, K
  <2> QED
    BY <1>1, <2>1 DEF Agrees, OfGauge, s, K
<1>2. CASE OfCount(m, L)
  <2>1. OfCount(s, K) /\ s.last = x.time
    BY <1>2, CountSampled
  <2> HIDE DEF s, K
  <2>2. s.class = m.class
    BY <1>2, <2>1 DEF OfCount
  <2> QED
    BY <2>1, <2>2 DEF Agrees, s, K
<1>3. CASE OfCounter(m, L)
  <2>1. OfCounter(s, K) /\ s.last = x.time
    BY <1>3, CounterSampled
  <2> HIDE DEF s, K
  <2>2. s.class = m.class
    BY <1>3, <2>1 DEF OfCounter
  <2> QED
    BY <2>1, <2>2 DEF Agrees, s, K
<1>4. CASE OfHistogram(m, L)
  <2>1. OfHistogram(s, K) /\ s.last = x.time
    BY <1>4, HistogramSampled
  <2> HIDE DEF s, K
  <2>2. s.class = m.class
    BY <1>4, <2>1 DEF OfHistogram
  <2> QED
    BY <2>1, <2>2 DEF Agrees, s, K
<1>5. CASE OfSet(m, L)
  <2>1. OfSet(s, K) /\ s.last = x.time
    BY <1>5, SetSampled
  <2> HIDE DEF s, K
  <2>2. s.class = m.class
    BY <1>5, <2>1 DEF OfSet
  <2> QED
    BY <2>1, <2>2 DEF Agrees, s, K
<1>6. CASE OfRate(m, b, L)
  <2>1. OfRate(s, b, K) /\ s.last = x.time
    BY <1>6, RateSampled
  <2> HIDE DEF s, K
  <2>2. s.class = m.class
    BY <1>6, <2>1 DEF OfRate
  <2> QED
    BY <2>1, <2>2 DEF Agrees, s, K
<1>7. CASE OfMonotonic(m, b, L)
  <2>1. OfMonotonic(s, b, K) /\ s.last = x.time
    BY <1>7, Apart, MonotonicSampled
  <2> HIDE DEF s, K
  <2>2. s.class = m.class
    BY <1>7, <2>1 DEF OfMonotonic
  <2> QED
    BY <2>1, <2>2 DEF Agrees, s, K
<1> QED
  BY <1>1, <1>2, <1>3, <1>4, <1>5, <1>6, <1>7 DEF Agrees

\* The count of a histogram is that of its samples at the least.
LEMMA WeightsCount ==
    ASSUME NEW L \in Seq(Samples)
    PROVE  Total(Weights(L)) >= Len(L)
<1> DEFINE n == Len(L)
           U == Units(Weights(L), n)
           f == [i \in 1 .. n |-> <<i, 1>>]
<1>1. n \in Nat /\ Weights(L) \in [1 .. n -> Nat]
  BY NumbersFacts
<1>2. \A i \in 1 .. n : Weights(L)[i] \in Nat \ {0}
  <2>1. \A i \in 1 .. n : L[i] \in Samples
    OBVIOUS
  <2>2. \A x \in Samples : x.weight \in Nat \ {0}
    BY DEF Samples
  <2> QED
    BY <2>1, <2>2 DEF Weights
<1>3. /\ Total(Weights(L)) \in Nat /\ Total(Weights(L)) = Cardinality(U) /\ IsFiniteSet(U)
  <2> HIDE DEF n
  <2> QED
    BY <1>1, NaturalTotal
<1>4. \A i \in 1 .. n : f[i] \in U
  <2> TAKE i \in 1 .. n
  <2>1. <<i, 1>> \in {i} \X (1 .. Weights(L)[i])
    BY <1>2
  <2> QED
    BY <2>1 DEF Units
<1>5. \A i, j \in 1 .. n : f[i] = f[j] => i = j
  OBVIOUS
<1>6. f \in Injection(1 .. n, U)
  <2>1. f \in [1 .. n -> U]
    BY <1>4
  <2> HIDE DEF f, U, n
  <2> QED
    BY <2>1, <1>5 DEF Injection, IsInjective
<1>7. Cardinality(1 .. n) <= Cardinality(U)
  <2> HIDE DEF f, U, n
  <2> QED
    BY <1>3, <1>6, FS_Injection
<1>8. Cardinality(1 .. n) = n
  <2> HIDE DEF n
  <2> QED
    BY <1>1, UpTo
<1> QED
  BY <1>1, <1>3, <1>7, <1>8

\* A metric that holds what its class keeps is one.
LEMMA AgreesIsMetric ==
    ASSUME NEW m, NEW b \in Samples \cup {None}, NEW L \in Seq(Samples),
           Agrees(m, b, L), Timely(Since(b, L))
    PROVE  IsMetric(m)
<1> DEFINE all == Since(b, L)
<1>0. /\ all \in Seq(Samples) /\ (L # <<>> => all # <<>>)
      /\ \A y \in Samples : y.value \in Int
  <2>1. Since(b, L) \in Seq(Samples) /\ (L # <<>> => Since(b, L) # <<>>)
    BY SinceFacts
  <2> QED
    BY <2>1 DEF Samples
<1>1. CASE OfGauge(m, L)
  BY <1>0, <1>1 DEF IsMetric, OfGauge
<1>2. CASE OfCount(m, L)
  <2>1. Total(Values(L)) \in Int
    BY NumbersFacts, TotalType
  <2> QED
    BY <1>2, <2>1 DEF IsMetric, OfCount
<1>3. CASE OfCounter(m, L)
  <2>1. Total(Weighed(L)) \in Int
    BY NumbersFacts, TotalType
  <2> QED
    BY <1>3, <2>1 DEF IsMetric, OfCounter
<1>4. CASE OfHistogram(m, L)
  <2>1. Len(m.samples) = Len(L)
    BY <1>4, NumbersFacts, IsSequence DEF OfHistogram
  <2> QED
    BY <1>4, <2>1, WeightsCount DEF IsMetric, OfHistogram
<1>5. CASE OfSet(m, L)
  BY <1>0, <1>5 DEF IsMetric, OfSet
<1>6. CASE OfRate(m, b, L)
  <2> HIDE DEF all
  <2>1. m.samples = [i \in 1 .. Len(all) |-> <<all[i].time, all[i].value>>] /\ Len(all) \in Nat
    BY <1>0, <1>6 DEF OfRate, Pairs, all
  <2>2. Len(m.samples) = Len(all)
    <3>1. m.samples \in [1 .. Len(all) -> {<<all[i].time, all[i].value>> : i \in 1 .. Len(all)}]
      BY <2>1
    <3> QED
      BY <2>1, <3>1, IsSequence
  <2>3. ASSUME NEW i \in 2 .. Len(all) PROVE m.samples[i][1] >= m.samples[i - 1][1]
    <3>1. i \in 1 .. Len(all) /\ i - 1 \in 1 .. Len(all) /\ i - 1 \in 1 .. Len(all) - 1 /\ (i - 1) + 1 = i
      BY <2>1
    <3>2. m.samples[i][1] = all[i].time /\ m.samples[i - 1][1] = all[i - 1].time
      BY <2>1, <3>1
    <3>3. all[i - 1].time <= all[i].time
      <4>1. all[i - 1].time <= all[(i - 1) + 1].time
        BY <3>1 DEF Timely, all
      <4> QED
        BY <3>1, <4>1
    <3>4. all[i].time \in Nat /\ all[i - 1].time \in Nat
      <4>1. all[i] \in Samples /\ all[i - 1] \in Samples
        BY <1>0, <3>1
      <4> QED
        BY <4>1 DEF Samples
    <3> QED
      BY <3>2, <3>3, <3>4
  <2> QED
    BY <1>6, <2>2, <2>3 DEF IsMetric, OfRate
<1>7. CASE OfMonotonic(m, b, L)
  <2>0. /\ m.count = IF L = <<>> \/ Len(all) = 1 THEN None ELSE Total(Rising(all))
        /\ m.count # None => m.prev # None
    BY <1>7 DEF OfMonotonic
  <2> HIDE DEF all
  <2>1. m.count = None \/ (m.count = Total(Rising(all)) /\ L # <<>> /\ m.prev # None)
    <3>1. CASE L = <<>> \/ Len(all) = 1
      BY <2>0, <3>1
    <3>2. CASE ~(L = <<>> \/ Len(all) = 1)
      BY <2>0, <3>2
    <3> QED
      BY <3>1, <3>2
  <2>2. L # <<>> => Total(Rising(all)) \in Nat
    <3> SUFFICES ASSUME L # <<>> PROVE Total(Rising(all)) \in Nat
      OBVIOUS
    <3>1. Rising(all) \in [1 .. Len(all) - 1 -> Nat] /\ Len(all) - 1 \in Nat
      BY <1>0, NumbersFacts
    <3> QED
      BY <3>1, NaturalTotal
  <2> QED
    BY <1>7, <2>1, <2>2 DEF IsMetric, OfMonotonic
<1> QED
  BY <1>1, <1>2, <1>3, <1>4, <1>5, <1>6, <1>7 DEF Agrees

-----------------------------------------------------------------------------
(***************************************************************************)
(* The invariant holds at first, and every step keeps it.                  *)
(***************************************************************************)
LEMMA InvInit == Init => MetricsInv
<1> SUFFICES ASSUME Init PROVE MetricsInv
  OBVIOUS
<1>1. /\ log = [c \in Contexts |-> <<>>] /\ before = [c \in Contexts |-> None]
      /\ metrics = <<>> /\ DOMAIN metrics = {} /\ points = <<>> /\ DOMAIN points = {}
      /\ workload \in Workloads /\ now = 0 /\ flushed = 0
      /\ sources = [s \in Sources |-> {}]
      /\ metric_count = 0 /\ num_discarded_old_points = 0 /\ submits = 0
      /\ stats = [metrics |-> 0, metrics_total |-> 0]
  BY DEF Init
<1>2. workload.max_time \in Nat /\ workload.max_submits \in Nat
  BY <1>1, AggregatorAssumption
<1>3. Shapes
  <2>1. log \in [Contexts -> Seq(Samples)] /\ before \in [Contexts -> Samples \cup {None}]
    BY <1>1
  <2>2. now \in 0 .. workload.max_time /\ flushed \in 0 .. now
    BY <1>1, <1>2
  <2> QED
    BY <1>1, <2>1, <2>2 DEF Shapes
<1>4. OfWorkload
  BY <1>1 DEF OfWorkload
<1>5. InTime
  <2>1. Since(None, <<>>) = <<>>
    BY DEF Since, Reference!Since
  <2> QED
    BY <1>1, <2>1 DEF InTime, Timely
<1>6. HoldsSamples /\ Sourced
  BY <1>1 DEF HoldsSamples, Sourced
<1>7. Counted
  <2>1. Reported(log) = {}
    BY <1>1 DEF Reported
  <2>2. IsFiniteSet({}) /\ Cardinality({}) = 0
    BY FS_EmptySet
  <2>3. /\ stats \in [{"metrics", "metrics_total"} -> Nat]
        /\ stats["metrics"] = 0 /\ stats["metrics_total"] = 0
    BY <1>1
  <2>4. 0 <= workload.max_submits /\ {0, 0, 0} \subseteq Nat
    BY <1>2
  <2> QED
    BY <1>1, <2>1, <2>2, <2>3, <2>4 DEF Counted
<1> QED
  BY <1>3, <1>4, <1>5, <1>6, <1>7 DEF MetricsInv

\* The facts about the workload that the steps need.
LEMMA WorkloadFacts ==
    ASSUME workload \in Workloads
    PROVE  /\ workload.sources \subseteq Sources /\ workload.contexts \subseteq Contexts
           /\ workload.mtypes \subseteq DOMAIN MetricResolver
           /\ workload.values \subseteq Int /\ workload.weights \subseteq Nat \ {0}
           /\ workload.max_time \in Nat /\ workload.max_submits \in Nat
           /\ EXPIRY \in Nat
BY AggregatorAssumption

\* A sample more is one more to report.
LEMMA ReportedGrows ==
    ASSUME NEW lg \in [Contexts -> Seq(Samples)], NEW c \in Contexts, NEW x \in Samples,
           IsFiniteSet(Reported(lg))
    PROVE  LET lg2 == [lg EXCEPT ![c] = Append(@, x)] IN
           /\ IsFiniteSet(Reported(lg2))
           /\ Cardinality(Reported(lg2)) = Cardinality(Reported(lg)) + 1
<1> DEFINE lg2 == [lg EXCEPT ![c] = Append(@, x)]
           n == Len(lg[c])
           u == <<c, n + 1>>
<1>1. n \in Nat /\ DOMAIN lg[c] = 1 .. n /\ DOMAIN Append(lg[c], x) = 1 .. n + 1
  <2>1. lg[c] \in Seq(Samples)
    OBVIOUS
  <2>2. Append(lg[c], x) \in Seq(Samples) /\ Len(Append(lg[c], x)) = n + 1
    BY <2>1
  <2> QED
    BY <2>1, <2>2
<1>2. /\ DOMAIN lg2[c] = (DOMAIN lg[c]) \cup {n + 1} /\ n + 1 \notin DOMAIN lg[c]
      /\ \A d \in Contexts : d # c => lg2[d] = lg[d]
  BY <1>1
<1> HIDE DEF lg2, n
<1>3. Reported(lg2) = Reported(lg) \cup {u}
  BY <1>2 DEF Reported
<1>4. u \notin Reported(lg)
  BY <1>2 DEF Reported
<1> HIDE DEF u
<1>5. /\ IsFiniteSet(Reported(lg2))
      /\ Cardinality(Reported(lg2)) = Cardinality(Reported(lg)) + 1
  BY <1>3, <1>4, FS_AddElement
<1> QED
  BY <1>5 DEF lg2

\* A call of submit_metric: the metric is there, of the class it was first given, and the
\* others are as they were.
LEMMA WithMetricFacts ==
    ASSUME MetricsInv, NEW c \in Contexts, NEW mtype \in DOMAIN MetricResolver
    PROVE  LET with == WithMetric(c, mtype) IN
           /\ DOMAIN with = DOMAIN metrics \cup {c}
           /\ \A d \in DOMAIN metrics : with[d] = metrics[d]
           /\ Agrees(with[c], before[c], log[c])
           /\ c \notin DOMAIN metrics => with[c].last = None /\ log[c] = <<>> /\ before[c] = None
<1> DEFINE with == WithMetric(c, mtype)
           m == New(MetricResolver[mtype])
<1>1. Agrees(m, None, <<>>) /\ m.last = None
  BY NewAgrees
<1> HIDE DEF m
<1>2. with = [d \in DOMAIN metrics \cup {c} |-> IF d \in DOMAIN metrics THEN metrics[d] ELSE m]
  BY DEF WithMetric, m
<1> HIDE DEF with
<1>3. /\ DOMAIN with = DOMAIN metrics \cup {c}
      /\ \A d \in DOMAIN metrics : with[d] = metrics[d]
      /\ c \notin DOMAIN metrics => with[c] = m
  BY <1>2
<1>4. /\ \A d \in DOMAIN metrics : Agrees(metrics[d], before[d], log[d])
      /\ \A d \in Contexts \ DOMAIN metrics : log[d] = <<>> /\ before[d] = None
  BY DEF MetricsInv, HoldsSamples
<1>5. CASE c \in DOMAIN metrics
  BY <1>3, <1>4, <1>5 DEF with
<1>6. CASE c \notin DOMAIN metrics
  BY <1>1, <1>3, <1>4, <1>6 DEF with
<1> QED
  BY <1>5, <1>6

\* A point that is too old.
LEMMA InvDiscarded ==
    ASSUME MetricsInv, UNCHANGED workload,
           NEW s \in workload.sources, NEW c \in workload.contexts, NEW mtype \in workload.mtypes,
           submits < workload.max_submits, submits' = submits + 1,
           sources' = WithSource(s, c), metrics' = WithMetric(c, mtype),
           num_discarded_old_points' = num_discarded_old_points + 1, points' = <<>>,
           UNCHANGED <<metric_count, log, now, stats, before, flushed>>
    PROVE  MetricsInv'
<1>0. /\ Shapes /\ OfWorkload /\ InTime /\ HoldsSamples /\ Sourced /\ Counted
  BY DEF MetricsInv
<1>1. /\ s \in Sources /\ c \in Contexts /\ mtype \in DOMAIN MetricResolver
      /\ workload.max_submits \in Nat
  BY <1>0, WorkloadFacts DEF Shapes
<1>2. /\ DOMAIN metrics' = DOMAIN metrics \cup {c}
      /\ \A d \in DOMAIN metrics : metrics'[d] = metrics[d]
      /\ Agrees(metrics'[c], before[c], log[c])
      /\ c \notin DOMAIN metrics => metrics'[c].last = None /\ log[c] = <<>> /\ before[c] = None
  BY <1>1, WithMetricFacts
<1>3. /\ sources' \in [Sources -> SUBSET Contexts] /\ c \in sources'[s]
      /\ \A t \in Sources : sources[t] \subseteq sources'[t]
  BY <1>0, <1>1 DEF Shapes, WithSource
<1>4. Shapes'
  BY <1>0, <1>1, <1>2, <1>3 DEF Shapes
<1>5. OfWorkload' /\ InTime'
  BY <1>0 DEF OfWorkload, InTime
<1>6. HoldsSamples'
  BY <1>0, <1>1, <1>2 DEF HoldsSamples
<1>7. Sourced'
  BY <1>0, <1>1, <1>2, <1>3 DEF Sourced
<1>8. Counted'
  <2>1. /\ metric_count \in Nat /\ num_discarded_old_points \in Nat /\ submits \in Nat
        /\ stats["metrics_total"] \in Nat
        /\ stats["metrics_total"] + metric_count + num_discarded_old_points <= submits
    BY <1>0 DEF Counted
  <2>2. /\ num_discarded_old_points + 1 \in Nat /\ submits + 1 \in Nat
        /\ stats["metrics_total"] + metric_count + (num_discarded_old_points + 1) <= submits + 1
    BY <2>1
  <2>3. submits + 1 <= workload.max_submits
    BY <1>1, <2>1
  <2> QED
    BY <1>0, <2>2, <2>3 DEF Counted
<1> QED
  BY <1>4, <1>5, <1>6, <1>7, <1>8 DEF MetricsInv

\* A point that is sampled.
LEMMA InvSampled ==
    ASSUME MetricsInv, UNCHANGED workload,
           NEW s \in workload.sources, NEW c \in workload.contexts, NEW mtype \in workload.mtypes,
           NEW v \in workload.values, NEW w \in workload.weights,
           submits < workload.max_submits, submits' = submits + 1,
           sources' = WithSource(s, c),
           metrics' = [WithMetric(c, mtype) EXCEPT ![c] = Sample(@, v, w, now)],
           metric_count' = metric_count + 1,
           log' = [log EXCEPT ![c] = Append(@, [value |-> v, weight |-> w, time |-> now])],
           points' = <<>>,
           UNCHANGED <<num_discarded_old_points, now, stats, before, flushed>>
    PROVE  /\ MetricsInv'
           /\ metrics'[c].class = WithMetric(c, mtype)[c].class
           /\ metrics'[c].last = now
<1>0. /\ Shapes /\ OfWorkload /\ InTime /\ HoldsSamples /\ Sourced /\ Counted
  BY DEF MetricsInv
<1>1. /\ s \in Sources /\ c \in Contexts /\ mtype \in DOMAIN MetricResolver
      /\ v \in Int /\ w \in Nat \ {0} /\ now \in Nat /\ workload.max_submits \in Nat
      /\ flushed \in 0 .. now /\ now \in flushed .. now
  BY <1>0, WorkloadFacts DEF Shapes
<1> DEFINE x == [value |-> v, weight |-> w, time |-> now]
           L == log[c]
           b == before[c]
           with == WithMetric(c, mtype)
<1>2. x \in Samples /\ x.value = v /\ x.weight = w /\ x.time = now
  BY <1>1 DEF Samples
<1>3. L \in Seq(Samples) /\ b \in Samples \cup {None}
  BY <1>0, <1>1 DEF Shapes
<1>4. /\ log'[c] = Append(L, x) /\ \A d \in Contexts : d # c => log'[d] = log[d]
      /\ log' \in [Contexts -> Seq(Samples)] /\ log' = [log EXCEPT ![c] = Append(@, x)]
  <2>1. log \in [Contexts -> Seq(Samples)]
    BY <1>0 DEF Shapes
  <2>2. Append(L, x) \in Seq(Samples)
    BY <1>2, <1>3
  <2>3. log' = [log EXCEPT ![c] = Append(@, x)]
    OBVIOUS
  <2> HIDE DEF x
  <2> QED
    BY <1>1, <2>1, <2>2, <2>3
<1> HIDE DEF x
<1>5. /\ DOMAIN with = DOMAIN metrics \cup {c}
      /\ \A d \in DOMAIN metrics : with[d] = metrics[d]
      /\ Agrees(with[c], b, L)
  BY <1>1, WithMetricFacts
<1>6. /\ DOMAIN metrics' = DOMAIN metrics \cup {c}
      /\ \A d \in DOMAIN metrics : d # c => metrics'[d] = metrics[d]
      /\ metrics'[c] = Sample(with[c], x.value, x.weight, x.time)
  <2> HIDE DEF with
  <2>1. metrics' = [with EXCEPT ![c] = Sample(with[c], v, w, now)]
    BY DEF with
  <2> QED
    BY <1>2, <1>5, <2>1
<1>7. /\ Agrees(metrics'[c], b, Append(L, x))
      /\ metrics'[c].last = now /\ metrics'[c].class = with[c].class
  <2> HIDE DEF with, L, b
  <2> QED
    BY <1>2, <1>3, <1>5, <1>6, SampleAgrees
<1>8. /\ sources' \in [Sources -> SUBSET Contexts] /\ c \in sources'[s]
      /\ \A t \in Sources : sources[t] \subseteq sources'[t]
  BY <1>0, <1>1 DEF Shapes, WithSource
<1>9. Shapes'
  BY <1>0, <1>1, <1>4, <1>6, <1>8 DEF Shapes
<1>10. OfWorkload'
  <2>1. \A d \in Contexts : before'[d] # None => before'[d].value \in workload'.values
    BY <1>0 DEF OfWorkload
  <2>2. \A i \in 1 .. Len(L) : L[i].value \in workload'.values
    BY <1>0, <1>1 DEF OfWorkload
  <2>3. \A i \in 1 .. Len(log'[c]) : log'[c][i].value \in workload'.values
    <3> HIDE DEF L
    <3>1. /\ Len(log'[c]) = Len(L) + 1 /\ Len(L) \in Nat
          /\ \A i \in 1 .. Len(L) : log'[c][i] = L[i]
          /\ log'[c][Len(L) + 1] = x
      BY <1>2, <1>3, <1>4
    <3> QED
      BY <1>2, <2>2, <3>1
  <2>4. \A d \in Contexts : d # c => \A i \in 1 .. Len(log'[d]) : log'[d][i].value \in workload'.values
    BY <1>0, <1>4 DEF OfWorkload
  <2> QED
    BY <2>1, <2>3, <2>4 DEF OfWorkload
<1>11. InTime'
  <2> DEFINE all == Since(b, L)
             more == Since(before'[c], log'[c])
  <2>1. /\ Timely(all) /\ \A i \in 1 .. Len(all) : all[i].time <= now
    BY <1>0, <1>1 DEF InTime
  <2>2. all \in Seq(Samples) /\ more = Append(all, x)
    <3>1. all \in Seq(Samples)
      BY <1>3, SinceFacts
    <3>2. Since(b, Append(L, x)) = Append(Since(b, L), x)
      BY <1>2, <1>3, SinceGrows
    <3> QED
      BY <1>4, <3>1, <3>2
  <2> HIDE DEF all, more
  <2>3. /\ Len(more) = Len(all) + 1 /\ Len(all) \in Nat /\ more[Len(all) + 1] = x
        /\ \A i \in 1 .. Len(all) : more[i] = all[i]
    BY <1>2, <2>2
  <2>4. \A i \in 1 .. Len(more) : more[i].time <= now
    BY <1>1, <1>2, <2>1, <2>3
  <2>5. Timely(more)
    <3> SUFFICES ASSUME NEW i \in 1 .. Len(more) - 1 PROVE more[i].time <= more[i + 1].time
      BY DEF Timely
    <3>1. i \in 1 .. Len(all) /\ more[i] = all[i]
      BY <2>3
    <3>2. CASE i = Len(all)
      BY <1>2, <2>1, <2>3, <3>1, <3>2
    <3>3. CASE i # Len(all)
      <4>1. i + 1 \in 1 .. Len(all) /\ i \in 1 .. Len(all) - 1
        BY <2>3, <3>1, <3>3
      <4> QED
        BY <2>1, <2>3, <3>1, <4>1 DEF Timely
    <3> QED
      BY <3>2, <3>3
  <2>6. \A d \in Contexts : d # c => Since(before'[d], log'[d]) = Since(before[d], log[d])
    BY <1>4
  <2>7. \A d \in Contexts : d # c =>
            LET those == Since(before'[d], log'[d]) IN
            Timely(those) /\ \A i \in 1 .. Len(those) : those[i].time <= now'
    BY <1>0, <2>6 DEF InTime
  <2>8. LET those == Since(before'[c], log'[c]) IN
        Timely(those) /\ \A i \in 1 .. Len(those) : those[i].time <= now'
    BY <2>4, <2>5 DEF more
  <2> QED
    BY <2>7, <2>8 DEF InTime
<1>12. HoldsSamples'
  <2>1. /\ Agrees(metrics'[c], before'[c], log'[c])
        /\ metrics'[c].last \in (0 .. now') \cup {None}
        /\ metrics'[c].last \in flushed' .. now'
    BY <1>1, <1>4, <1>7
  <2>2. \A d \in DOMAIN metrics : d # c =>
            /\ Agrees(metrics'[d], before'[d], log'[d])
            /\ metrics'[d].last \in (0 .. now') \cup {None}
            /\ log'[d] # <<>> => metrics'[d].last \in flushed' .. now'
    <3>1. \A d \in DOMAIN metrics : d # c =>
              /\ metrics'[d] = metrics[d] /\ before'[d] = before[d] /\ log'[d] = log[d]
      BY <1>0, <1>4, <1>6 DEF Shapes
    <3> QED
      BY <1>0, <3>1 DEF HoldsSamples
  <2>3. \A d \in Contexts \ DOMAIN metrics' : log'[d] = <<>> /\ before'[d] = None
    BY <1>0, <1>4, <1>6 DEF HoldsSamples
  <2>4. DOMAIN metrics' = DOMAIN metrics \cup {c}
    BY <1>6
  <2> QED
    BY <2>1, <2>2, <2>3, <2>4 DEF HoldsSamples
<1>13. Sourced'
  BY <1>0, <1>1, <1>6, <1>8 DEF Sourced
<1>14. Counted'
  <2>1. /\ IsFiniteSet(Reported(log')) /\ Cardinality(Reported(log')) = Cardinality(Reported(log)) + 1
    <3>1. log \in [Contexts -> Seq(Samples)] /\ IsFiniteSet(Reported(log))
      BY <1>0 DEF Shapes, Counted
    <3> DEFINE lg2 == [log EXCEPT ![c] = Append(@, x)]
    <3>2. IsFiniteSet(Reported(lg2)) /\ Cardinality(Reported(lg2)) = Cardinality(Reported(log)) + 1
      BY <1>1, <1>2, <3>1, ReportedGrows
    <3>3. log' = lg2
      BY <1>4
    <3> HIDE DEF lg2
    <3> QED
      BY <3>2, <3>3
  <2>2. /\ metric_count \in Nat /\ num_discarded_old_points \in Nat /\ submits \in Nat
        /\ stats["metrics"] \in Nat /\ stats["metrics_total"] \in Nat
    BY <1>0 DEF Counted
  <2>3. /\ stats \in [{"metrics", "metrics_total"} -> Nat]
        /\ stats["metrics"] <= stats["metrics_total"]
        /\ stats["metrics_total"] + metric_count + num_discarded_old_points <= submits
        /\ metric_count = Cardinality(Reported(log))
    BY <1>0 DEF Counted
  <2>4. stats["metrics_total"] + (metric_count + 1) + num_discarded_old_points <= submits + 1
    <3>1. \A i, j, k, l \in Nat : i + j + k <= l => i + (j + 1) + k <= l + 1
      OBVIOUS
    <3> QED
      BY <2>2, <2>3, <3>1
  <2>5. submits + 1 <= workload.max_submits
    BY <1>1, <2>2
  <2>6. metric_count + 1 = Cardinality(Reported(log'))
    BY <2>1, <2>3
  <2>7. metric_count + 1 \in Nat /\ submits + 1 \in Nat
    BY <2>2
  <2> QED
    BY <2>1, <2>2, <2>3, <2>4, <2>5, <2>6, <2>7 DEF Counted
<1> QED
  BY <1>7, <1>9, <1>10, <1>11, <1>12, <1>13, <1>14 DEF MetricsInv

\* A metric that was sampled lately stays.
Live == {c \in DOMAIN metrics : ~Expired(metrics[c])}

LEMMA LiveFacts ==
    ASSUME MetricsInv, NEW c \in DOMAIN metrics
    PROVE  c \in Live <=> metrics[c].last # None /\ now - metrics[c].last <= EXPIRY
<1>1. metrics[c].last \in (0 .. now) \cup {None} /\ now \in Nat /\ EXPIRY \in Nat
  BY WorkloadFacts DEF MetricsInv, HoldsSamples, Shapes
<1> QED
  BY <1>1 DEF Live, Expired

LEMMA InvFlushed ==
    ASSUME MetricsInv, UNCHANGED workload, flush
    PROVE  MetricsInv'
<1>0. /\ Shapes /\ OfWorkload /\ InTime /\ HoldsSamples /\ Sourced /\ Counted
  BY DEF MetricsInv
<1>1. /\ points' = [c \in Live |-> Points(metrics[c])]
      /\ metrics' = [c \in Live |-> Flushed(metrics[c])]
      /\ num_discarded_old_points' = 0
      /\ stats' = [metrics |-> metric_count, metrics_total |-> stats.metrics_total + metric_count]
      /\ metric_count' = 0
      /\ log' = [c \in Contexts |-> <<>>]
      /\ before' = [c \in Contexts |->
                      IF c \notin Live THEN None ELSE IF log[c] = <<>> THEN before[c] ELSE Last(log[c])]
      /\ flushed' = now
      /\ UNCHANGED <<now, sources, submits>>
  BY DEF flush, Live
<1>2. /\ Live \subseteq DOMAIN metrics /\ Live \subseteq Contexts
      /\ DOMAIN metrics' = Live /\ DOMAIN points' = Live
  BY <1>0, <1>1 DEF Live, Shapes
<1>3. \A c \in Contexts : log[c] \in Seq(Samples) /\ before[c] \in Samples \cup {None}
  BY <1>0 DEF Shapes
<1>4. \A c \in Contexts : After(before[c], log[c]) \in Samples \cup {None}
  BY <1>3 DEF After
<1>5. \A c \in Contexts : before'[c] = IF c \in Live THEN After(before[c], log[c]) ELSE None
  BY <1>1 DEF After, Last
<1>6. now \in Nat /\ workload.max_time \in Nat /\ workload.max_submits \in Nat
  BY <1>0, WorkloadFacts DEF Shapes
<1>7. Shapes'
  <2>1. before' \in [Contexts -> Samples \cup {None}]
    <3>1. \A c \in Contexts : before'[c] \in Samples \cup {None}
      BY <1>4, <1>5
    <3>2. before' = [c \in Contexts |-> before'[c]]
      BY <1>1
    <3> QED
      BY <3>1, <3>2
  <2>2. log' \in [Contexts -> Seq(Samples)]
    BY <1>1
  <2>3. flushed' \in 0 .. now'
    BY <1>1, <1>6
  <2> QED
    BY <1>0, <1>1, <1>2, <2>1, <2>2, <2>3 DEF Shapes
<1>8. OfWorkload'
  <2> SUFFICES ASSUME NEW c \in Contexts
               PROVE  /\ before'[c] # None => before'[c].value \in workload'.values
                      /\ \A i \in 1 .. Len(log'[c]) : log'[c][i].value \in workload'.values
    BY DEF OfWorkload
  <2>1. log'[c] = <<>> /\ Len(<<>>) = 0
    BY <1>1
  <2>2. ASSUME before'[c] # None PROVE before'[c].value \in workload'.values
    <3>1. before'[c] = After(before[c], log[c])
      BY <1>5, <2>2
    <3>2. CASE log[c] = <<>>
      BY <1>0, <2>2, <3>1, <3>2 DEF After, OfWorkload
    <3>3. CASE log[c] # <<>>
      <4>1. Len(log[c]) \in 1 .. Len(log[c]) /\ before'[c] = log[c][Len(log[c])]
        BY <1>3, <3>1, <3>3 DEF After
      <4> QED
        BY <1>0, <4>1 DEF OfWorkload
    <3> QED
      BY <3>2, <3>3
  <2> QED
    BY <2>1, <2>2
<1>9. InTime'
  <2> SUFFICES ASSUME NEW c \in Contexts
               PROVE  LET all == Since(before'[c], log'[c]) IN
                      Timely(all) /\ \A i \in 1 .. Len(all) : all[i].time <= now'
    BY DEF InTime
  <2> DEFINE a == before'[c]
             all == Since(before[c], log[c])
             late == Since(before'[c], log'[c])
  <2>1. late = IF a = None THEN <<>> ELSE <<a>>
    <3>1. log'[c] = <<>> /\ <<>> \in Seq(Samples)
      BY <1>1
    <3>2. a \in Samples \cup {None}
      BY <1>4, <1>5
    <3> HIDE DEF a
    <3>3. Since(a, <<>>) = IF a = None THEN <<>> ELSE <<a>>
      BY <3>1, <3>2, SinceFacts
    <3> QED
      BY <3>1, <3>3 DEF a
  <2>2. ASSUME a # None PROVE a.time <= now
    <3>1. a = After(before[c], log[c])
      BY <1>5, <2>2
    <3>2. all \in Seq(Samples) /\ all # <<>> /\ a = all[Len(all)]
      <4>1. CASE log[c] = <<>>
        <5>1. all = <<a>>
          BY <1>3, <2>2, <3>1, <4>1, SinceFacts DEF After
        <5>2. all \in Seq(Samples)
          BY <1>3, SinceFacts
        <5> HIDE DEF all, a
        <5> QED
          BY <5>1, <5>2
      <4>2. CASE log[c] # <<>>
        <5> DEFINE L == log[c]
                   b == before[c]
        <5>0. L \in Seq(Samples) /\ b \in Samples \cup {None} /\ L # <<>> /\ all = Since(b, L)
          BY <1>3, <4>2
        <5>1. all \in Seq(Samples) /\ all # <<>> /\ all[Len(all)] = log[c][Len(log[c])]
          <6>1. L = log[c]
            OBVIOUS
          <6> HIDE DEF L, b, all
          <6> QED
            BY <5>0, <6>1, SinceFacts
        <5>2. a = log[c][Len(log[c])]
          BY <3>1, <4>2 DEF After
        <5> HIDE DEF all, a
        <5> QED
          BY <5>1, <5>2
      <4> QED
        BY <4>1, <4>2
    <3>3. \A i \in 1 .. Len(all) : all[i].time <= now
      BY <1>0 DEF InTime
    <3> HIDE DEF all, a
    <3>4. Len(all) \in 1 .. Len(all)
      BY <3>2
    <3> QED
      BY <3>2, <3>3, <3>4
  <2> HIDE DEF a, late
  <2>3. Timely(late) /\ \A i \in 1 .. Len(late) : late[i].time <= now
    <3>1. CASE a = None
      BY <2>1, <3>1 DEF Timely
    <3>2. CASE a # None
      BY <2>1, <2>2, <3>2 DEF Timely
    <3> QED
      BY <3>1, <3>2
  <2> QED
    BY <1>1, <2>3 DEF late
<1>10. HoldsSamples'
  <2>1. ASSUME NEW c \in Live
        PROVE  /\ Agrees(metrics'[c], before'[c], log'[c])
               /\ metrics'[c].last \in (0 .. now') \cup {None}
               /\ log'[c] = <<>>
    <3>1. /\ metrics'[c] = Flushed(metrics[c]) /\ before'[c] = After(before[c], log[c])
          /\ log'[c] = <<>> /\ c \in Contexts /\ c \in DOMAIN metrics
      BY <1>1, <1>2, <1>5
    <3>2. Agrees(metrics[c], before[c], log[c]) /\ metrics[c].last \in (0 .. now) \cup {None}
      BY <1>0, <3>1 DEF HoldsSamples
    <3>3. /\ Agrees(Flushed(metrics[c]), After(before[c], log[c]), <<>>)
          /\ Flushed(metrics[c]).last = metrics[c].last
      BY <1>3, <3>1, <3>2, Apart, FlushedAgrees
    <3> QED
      BY <1>1, <3>1, <3>2, <3>3
  <2>2. \A c \in Contexts \ Live : log'[c] = <<>> /\ before'[c] = None
    BY <1>1, <1>5
  <2> QED
    BY <1>2, <2>1, <2>2 DEF HoldsSamples
<1>11. Sourced'
  BY <1>0, <1>1, <1>2 DEF Sourced
<1>12. Counted'
  <2>1. Reported(log') = {}
    BY <1>1 DEF Reported
  <2>2. IsFiniteSet({}) /\ Cardinality({}) = 0
    BY FS_EmptySet
  <2>3. /\ metric_count \in Nat /\ num_discarded_old_points \in Nat /\ submits \in Nat
        /\ stats["metrics"] \in Nat /\ stats["metrics_total"] \in Nat
        /\ stats["metrics_total"] + metric_count + num_discarded_old_points <= submits
        /\ submits <= workload.max_submits
    BY <1>0 DEF Counted
  <2>4. /\ stats'["metrics"] = metric_count
        /\ stats'["metrics_total"] = stats["metrics_total"] + metric_count
        /\ stats' \in [{"metrics", "metrics_total"} -> Nat]
    BY <1>1, <2>3
  <2>5. /\ stats'["metrics"] <= stats'["metrics_total"]
        /\ stats'["metrics_total"] + 0 + 0 <= submits
    BY <2>3, <2>4
  <2>6. metric_count' = 0 /\ num_discarded_old_points' = 0 /\ submits' = submits
    BY <1>1
  <2> QED
    BY <2>1, <2>2, <2>3, <2>4, <2>5, <2>6 DEF Counted
<1> QED
  BY <1>7, <1>8, <1>9, <1>10, <1>11, <1>12 DEF MetricsInv

LEMMA InvTicks ==
    ASSUME MetricsInv, UNCHANGED workload, Tick
    PROVE  MetricsInv'
<1>0. /\ Shapes /\ OfWorkload /\ InTime /\ HoldsSamples /\ Sourced /\ Counted
  BY DEF MetricsInv
<1>1. /\ now < workload.max_time /\ now' = now + 1 /\ points' = <<>> /\ DOMAIN points' = {}
      /\ UNCHANGED <<workload, metrics, sources, metric_count, num_discarded_old_points, stats,
                     log, before, flushed, submits>>
  BY DEF Tick
<1>2. now \in Nat /\ workload.max_time \in Nat /\ flushed \in 0 .. now
  BY <1>0, WorkloadFacts DEF Shapes
<1>3. Shapes'
  BY <1>0, <1>1, <1>2 DEF Shapes
<1>4. InTime'
  <2> SUFFICES ASSUME NEW c \in Contexts
               PROVE  LET all == Since(before[c], log[c]) IN
                      Timely(all) /\ \A i \in 1 .. Len(all) : all[i].time <= now + 1
    BY <1>1 DEF InTime
  <2> DEFINE all == Since(before[c], log[c])
  <2>1. all \in Seq(Samples)
    BY <1>0, SinceFacts DEF Shapes
  <2>2. Timely(all) /\ \A i \in 1 .. Len(all) : all[i].time <= now
    BY <1>0 DEF InTime
  <2> HIDE DEF all
  <2>3. \A i \in 1 .. Len(all) : all[i].time \in Nat
    <3>1. \A i \in 1 .. Len(all) : all[i] \in Samples
      BY <2>1
    <3>2. \A y \in Samples : y.time \in Nat
      BY DEF Samples
    <3> QED
      BY <3>1, <3>2
  <2>4. \A i \in 1 .. Len(all) : all[i].time <= now + 1
    BY <1>2, <2>2, <2>3
  <2> QED
    BY <2>2, <2>4 DEF all
<1>5. HoldsSamples'
  BY <1>0, <1>1, <1>2 DEF HoldsSamples
<1>6. OfWorkload' /\ Sourced' /\ Counted'
  BY <1>0, <1>1 DEF OfWorkload, Sourced, Counted
<1> QED
  BY <1>3, <1>4, <1>5, <1>6 DEF MetricsInv

\* A call of submit_metric discards the point or samples it.
SubmitsOf(s, c, mtype, v, w) ==
    /\ s \in workload.sources /\ c \in workload.contexts /\ mtype \in workload.mtypes
    /\ v \in workload.values /\ w \in workload.weights
    /\ submits < workload.max_submits /\ submits' = submits + 1
    /\ sources' = WithSource(s, c)
    /\ points' = <<>>
    /\ UNCHANGED <<now, stats, before, flushed>>

Discards(s, c, mtype, v, w) ==
    /\ SubmitsOf(s, c, mtype, v, w)
    /\ metrics' = WithMetric(c, mtype)
    /\ num_discarded_old_points' = num_discarded_old_points + 1
    /\ UNCHANGED <<metric_count, log>>

Stores(s, c, mtype, v, w) ==
    /\ SubmitsOf(s, c, mtype, v, w)
    /\ metrics' = [WithMetric(c, mtype) EXCEPT ![c] = Sample(@, v, w, now)]
    /\ metric_count' = metric_count + 1
    /\ log' = [log EXCEPT ![c] = Append(@, [value |-> v, weight |-> w, time |-> now])]
    /\ UNCHANGED num_discarded_old_points

LEMMA Cases ==
    ASSUME Next
    PROVE  /\ UNCHANGED workload
           /\ \/ \E s, c, mtype, v, w : Discards(s, c, mtype, v, w) \/ Stores(s, c, mtype, v, w)
              \/ flush
              \/ Tick
<1>1. UNCHANGED workload /\ (Submits \/ flush \/ Tick)
  BY DEF Next
<1>2. ASSUME Submits
      PROVE  \E s, c, mtype, v, w : Discards(s, c, mtype, v, w) \/ Stores(s, c, mtype, v, w)
  <2>1. PICK s \in workload.sources, c \in workload.contexts, mtype \in workload.mtypes,
             v \in workload.values, w \in workload.weights, age \in workload.ages :
                 submit_metric(s, c, mtype, v, w, age)
    BY <1>2 DEF Submits
  <2>2. CASE TooOld(age)
    <3>1. Discards(s, c, mtype, v, w)
      BY <2>1, <2>2 DEF submit_metric, Discards, SubmitsOf
    <3> QED
      BY <3>1
  <2>3. CASE ~TooOld(age)
    <3>1. Stores(s, c, mtype, v, w)
      BY <2>1, <2>3 DEF submit_metric, Stores, SubmitsOf
    <3> QED
      BY <3>1
  <2> QED
    BY <2>2, <2>3
<1> QED
  BY <1>1, <1>2

LEMMA InvStep == MetricsInv /\ [Next]_vars => MetricsInv'
<1> SUFFICES ASSUME MetricsInv, [Next]_vars PROVE MetricsInv'
  OBVIOUS
<1>1. CASE UNCHANGED vars
  <2>1. /\ workload' = workload /\ now' = now /\ metrics' = metrics /\ sources' = sources
        /\ metric_count' = metric_count
        /\ num_discarded_old_points' = num_discarded_old_points
        /\ stats' = stats /\ points' = points /\ log' = log /\ before' = before
        /\ flushed' = flushed /\ submits' = submits
    BY <1>1 DEF vars
  <2> QED
    BY <2>1 DEF MetricsInv, Shapes, OfWorkload, InTime, HoldsSamples, Sourced, Counted
<1>2. CASE Next
  <2>1. ASSUME NEW s, NEW c, NEW mtype, NEW v, NEW w, Discards(s, c, mtype, v, w), UNCHANGED workload
        PROVE  MetricsInv'
    BY <2>1, InvDiscarded DEF Discards, SubmitsOf
  <2>2. ASSUME NEW s, NEW c, NEW mtype, NEW v, NEW w, Stores(s, c, mtype, v, w), UNCHANGED workload
        PROVE  MetricsInv'
    BY <2>2, InvSampled DEF Stores, SubmitsOf
  <2> QED
    BY <1>2, <2>1, <2>2, Cases, InvFlushed, InvTicks
<1> QED
  BY <1>1, <1>2

LEMMA InvHolds == Spec => []MetricsInv
<1> QED
  BY InvInit, InvStep, PTL DEF Spec

-----------------------------------------------------------------------------
(***************************************************************************)
(* The theorems.                                                           *)
(***************************************************************************)
LEMMA InvIsConsistent == MetricsInv => Consistent
<1> SUFFICES ASSUME MetricsInv PROVE Consistent
  OBVIOUS
<1>0. /\ Shapes /\ OfWorkload /\ InTime /\ HoldsSamples /\ Sourced /\ Counted
  BY DEF MetricsInv
<1>1. ASSUME NEW c \in DOMAIN metrics
      PROVE  IsMetric(metrics[c]) /\ metrics[c].last \in (0 .. now) \cup {None}
  <2>1. /\ c \in Contexts /\ before[c] \in Samples \cup {None} /\ log[c] \in Seq(Samples)
    BY <1>0 DEF Shapes
  <2>2. /\ Agrees(metrics[c], before[c], log[c]) /\ metrics[c].last \in (0 .. now) \cup {None}
    BY <1>0 DEF HoldsSamples
  <2>3. Timely(Since(before[c], log[c]))
    BY <1>0, <2>1 DEF InTime
  <2> QED
    BY <2>1, <2>2, <2>3, AgreesIsMetric
<1>2. /\ {metric_count, num_discarded_old_points, submits} \subseteq 0 .. workload.max_submits
      /\ stats \in [{"metrics", "metrics_total"} -> 0 .. workload.max_submits]
  <2>1. /\ metric_count \in Nat /\ num_discarded_old_points \in Nat /\ submits \in Nat
        /\ stats["metrics"] \in Nat /\ stats["metrics_total"] \in Nat
        /\ stats \in [{"metrics", "metrics_total"} -> Nat]
        /\ stats["metrics"] <= stats["metrics_total"]
        /\ stats["metrics_total"] + metric_count + num_discarded_old_points <= submits
        /\ submits <= workload.max_submits
    BY <1>0 DEF Counted
  <2>2. workload.max_submits \in Nat
    BY <1>0, WorkloadFacts DEF Shapes
  <2>3. /\ metric_count \in 0 .. workload.max_submits
        /\ num_discarded_old_points \in 0 .. workload.max_submits
        /\ submits \in 0 .. workload.max_submits
        /\ stats["metrics"] \in 0 .. workload.max_submits
        /\ stats["metrics_total"] \in 0 .. workload.max_submits
    BY <2>1, <2>2
  <2> QED
    BY <2>1, <2>3
<1>3. \A c \in Contexts : before[c] = None \/ before[c].value \in workload.values
  BY <1>0 DEF OfWorkload
<1>4. TypeOK
  BY <1>0, <1>1, <1>2, <1>3 DEF TypeOK, Shapes
<1>5. Accounted
  BY <1>0 DEF Accounted, Sourced, Counted, Reported
<1> QED
  BY <1>4, <1>5 DEF Consistent

\* At any time every metric is one of its class, every counter is in its range, the
\* statistic counts the samples that the next flush is to report and every metric has a
\* source, for any contexts, sources, expiry and workload.
THEOREM ConsistentHolds == Spec => []Consistent
<1> QED
  BY InvHolds, InvIsConsistent, PTL

\* A flush keeps the metrics that were sampled within expiry_seconds and no others; when
\* flushes are no further apart than that, what expires has no sample to report.
THEOREM ExpiryHolding == Spec => ExpiryHolds
<1>1. ASSUME MetricsInv, flush
      PROVE  /\ \A c \in DOMAIN metrics' :
                   metrics[c].last # None /\ now - metrics[c].last <= EXPIRY
             /\ now - flushed <= EXPIRY
                   => \A c \in DOMAIN metrics \ DOMAIN metrics' : log[c] = <<>>
  <2>1. DOMAIN metrics' = Live
    BY <1>1 DEF flush, Live
  <2>2. \A c \in Live : c \in DOMAIN metrics
    BY DEF Live
  <2>3. now \in Nat /\ EXPIRY \in Nat /\ flushed \in 0 .. now
    BY <1>1, WorkloadFacts DEF MetricsInv, Shapes
  <2>4. ASSUME NEW c \in DOMAIN metrics, c \notin Live, now - flushed <= EXPIRY
        PROVE  log[c] = <<>>
    <3>1. log[c] # <<>> => metrics[c].last \in flushed .. now
      BY <1>1 DEF MetricsInv, HoldsSamples
    <3>2. metrics[c].last = None \/ ~ now - metrics[c].last <= EXPIRY
      BY <1>1, <2>4, LiveFacts
    <3>3. None \notin Int
      BY MetricTypesAssumption
    <3> QED
      BY <2>3, <2>4, <3>1, <3>2, <3>3
  <2> QED
    BY <1>1, <2>1, <2>2, <2>4, LiveFacts
<1>2. MetricsInv /\ [Next]_vars
        => [flush =>
              /\ \A c \in DOMAIN metrics' :
                    metrics[c].last # None /\ now - metrics[c].last <= EXPIRY
              /\ now - flushed <= EXPIRY
                    => \A c \in DOMAIN metrics \ DOMAIN metrics' : log[c] = <<>>]_vars
  BY <1>1
<1> QED
  BY <1>2, InvHolds, PTL DEF Spec, ExpiryHolds

-----------------------------------------------------------------------------
(***************************************************************************)
(* MetricsAggregator implements MetricsReference: the class and the last   *)
(* sample of a context are those of its metric.                            *)
(***************************************************************************)
class == [c \in Contexts |-> OfMetric(c, "class", None)]
last == [c \in Contexts |-> OfMetric(c, "last", None)]

LEMMA RefInit == Init => Reference!Init
<1> SUFFICES ASSUME Init PROVE Reference!Init
  OBVIOUS
<1>1. /\ log = [c \in Contexts |-> <<>>] /\ before = [c \in Contexts |-> None]
      /\ DOMAIN metrics = {} /\ points = <<>> /\ now = 0
  BY DEF Init
<1>2. /\ [c \in Contexts |-> OfMetric(c, "class", None)] = [c \in Contexts |-> None]
      /\ [c \in Contexts |-> OfMetric(c, "last", None)] = [c \in Contexts |-> None]
  BY <1>1 DEF OfMetric
<1> QED
  BY <1>1, <1>2 DEF Reference!Init

\* The class and the last sample of a context, of a metric or without one.
LEMMA MappedFacts ==
    /\ \A c \in Contexts : c \in DOMAIN metrics => class[c] = metrics[c].class /\ last[c] = metrics[c].last
    /\ \A c \in Contexts : c \notin DOMAIN metrics => class[c] = None /\ last[c] = None
    /\ \A c \in Contexts : c \in DOMAIN metrics' => class'[c] = metrics'[c].class /\ last'[c] = metrics'[c].last
    /\ \A c \in Contexts : c \notin DOMAIN metrics' => class'[c] = None /\ last'[c] = None
<1>1. /\ \A c \in Contexts : class[c] = IF c \in DOMAIN metrics THEN metrics[c]["class"] ELSE None
      /\ \A c \in Contexts : last[c] = IF c \in DOMAIN metrics THEN metrics[c]["last"] ELSE None
      /\ \A c \in Contexts : class'[c] = IF c \in DOMAIN metrics' THEN metrics'[c]["class"] ELSE None
      /\ \A c \in Contexts : last'[c] = IF c \in DOMAIN metrics' THEN metrics'[c]["last"] ELSE None
  BY DEF class, last, OfMetric
<1> QED
  BY <1>1

\* A metric keeps its class, and one that is new has one.
LEMMA KnownAfter ==
    ASSUME NEW c \in Contexts,
           DOMAIN metrics \subseteq Contexts, DOMAIN metrics' = DOMAIN metrics \cup {c},
           \A d \in DOMAIN metrics : d # c => metrics'[d] = metrics[d],
           metrics'[c].class # None,
           c \in DOMAIN metrics => metrics'[c].class = metrics[c].class
    PROVE  Reference!Known(c)
<1>1. \A d \in Contexts \ {c} : class'[d] = class[d]
  <2> TAKE d \in Contexts \ {c}
  <2>1. CASE d \in DOMAIN metrics
    BY <2>1, MappedFacts
  <2>2. CASE d \notin DOMAIN metrics
    BY <2>2, MappedFacts
  <2> QED
    BY <2>1, <2>2
<1>2. class'[c] # None /\ (class[c] # None => class'[c] = class[c])
  BY MappedFacts
<1> QED
  BY <1>1, <1>2 DEF Reference!Known, class

LEMMA RefDiscards ==
    ASSUME MetricsInv, UNCHANGED workload,
           NEW s, NEW c, NEW mtype, NEW v, NEW w, Discards(s, c, mtype, v, w)
    PROVE  c \in Contexts /\ Reference!Discard(c)
<1>0. /\ s \in workload.sources /\ c \in Contexts /\ mtype \in DOMAIN MetricResolver
      /\ DOMAIN metrics \subseteq Contexts
  BY WorkloadFacts DEF Discards, SubmitsOf, MetricsInv, Shapes
<1>1. /\ metrics' = WithMetric(c, mtype) /\ points' = <<>>
      /\ UNCHANGED <<now, log, before>>
  BY DEF Discards, SubmitsOf
<1>2. /\ DOMAIN metrics' = DOMAIN metrics \cup {c}
      /\ \A d \in DOMAIN metrics : metrics'[d] = metrics[d]
      /\ Agrees(metrics'[c], before[c], log[c])
      /\ c \notin DOMAIN metrics => metrics'[c].last = None
  BY <1>0, <1>1, WithMetricFacts
<1>3. metrics'[c].class # None
  BY <1>2, Apart
<1>4. Reference!Known(c)
  BY <1>0, <1>2, <1>3, KnownAfter
<1>5. \A d \in Contexts : last'[d] = last[d]
  BY <1>0, <1>2, MappedFacts
<1>6. last' = last
  BY <1>5 DEF last
<1> QED
  BY <1>0, <1>1, <1>4, <1>6 DEF Reference!Discard, last

LEMMA RefStores ==
    ASSUME MetricsInv, UNCHANGED workload,
           NEW s, NEW c, NEW mtype, NEW v, NEW w, Stores(s, c, mtype, v, w)
    PROVE  c \in Contexts /\ Reference!Submit(c)
<1>0. /\ s \in workload.sources /\ c \in workload.contexts /\ mtype \in workload.mtypes
      /\ v \in workload.values /\ w \in workload.weights
      /\ c \in Contexts /\ mtype \in DOMAIN MetricResolver
      /\ DOMAIN metrics \subseteq Contexts /\ log \in [Contexts -> Seq(Samples)]
  BY WorkloadFacts DEF Stores, SubmitsOf, MetricsInv, Shapes
<1> DEFINE x == [value |-> v, weight |-> w, time |-> now]
<1>1. /\ metrics' = [WithMetric(c, mtype) EXCEPT ![c] = Sample(@, v, w, now)]
      /\ log' = [log EXCEPT ![c] = Append(@, x)]
      /\ points' = <<>> /\ UNCHANGED <<now, before>>
  BY DEF Stores, SubmitsOf
<1>2. /\ DOMAIN WithMetric(c, mtype) = DOMAIN metrics \cup {c}
      /\ \A d \in DOMAIN metrics : WithMetric(c, mtype)[d] = metrics[d]
      /\ Agrees(WithMetric(c, mtype)[c], before[c], log[c])
  BY <1>0, WithMetricFacts
<1>3. /\ metrics'[c].class = WithMetric(c, mtype)[c].class
      /\ metrics'[c].last = now
  BY InvSampled DEF Stores, SubmitsOf
<1>4. /\ DOMAIN metrics' = DOMAIN metrics \cup {c}
      /\ \A d \in DOMAIN metrics : d # c => metrics'[d] = metrics[d]
  BY <1>1, <1>2
<1>5. /\ metrics'[c].class # None
      /\ c \in DOMAIN metrics => metrics'[c].class = metrics[c].class
  BY <1>2, <1>3, Apart
<1>6. Reference!Known(c)
  BY <1>0, <1>4, <1>5, KnownAfter
<1>7. /\ x \in Samples /\ x.time = now
  BY <1>0, WorkloadFacts DEF Samples, MetricsInv, Shapes
<1>8. /\ Len(log'[c]) = Len(log[c]) + 1
      /\ log'[c] = Append(log[c], x) /\ Reference!Last(log'[c]) = x
  <2>1. log[c] \in Seq(Samples) /\ log'[c] = Append(log[c], x)
    BY <1>0, <1>1
  <2> HIDE DEF x
  <2>2. Len(Append(log[c], x)) = Len(log[c]) + 1 /\ Append(log[c], x)[Len(log[c]) + 1] = x
    BY <1>7, <2>1, AppendProperties
  <2> QED
    BY <2>1, <2>2 DEF Reference!Last
<1>9. log' = [log EXCEPT ![c] = Append(@, Reference!Last(log'[c]))]
  <2> HIDE DEF x
  <2> QED
    BY <1>1, <1>8
<1>10. Reference!Last(log'[c]).time = now
  <2> HIDE DEF x
  <2> QED
    BY <1>7, <1>8
<1>11. last' = [last EXCEPT ![c] = now]
  <2>1. \A d \in Contexts : d # c => last'[d] = last[d]
    BY <1>0, <1>4, MappedFacts
  <2>2. last'[c] = now
    BY <1>0, <1>3, <1>4, MappedFacts
  <2>3. /\ last = [d \in Contexts |-> last[d]] /\ last' = [d \in Contexts |-> last'[d]]
    BY DEF last
  <2> HIDE DEF last
  <2> QED
    BY <1>0, <2>1, <2>2, <2>3
<1> HIDE DEF x
<1> QED
  BY <1>0, <1>1, <1>6, <1>8, <1>9, <1>10, <1>11 DEF Reference!Submit, last

LEMMA RefFlushes ==
    ASSUME MetricsInv, flush
    PROVE  Reference!Flush
<1>1. /\ points' = [c \in Live |-> Points(metrics[c])]
      /\ metrics' = [c \in Live |-> Flushed(metrics[c])]
      /\ log' = [c \in Contexts |-> <<>>]
      /\ before' = [c \in Contexts |->
                      IF c \notin Live THEN None ELSE IF log[c] = <<>> THEN before[c] ELSE Last(log[c])]
      /\ now' = now
  BY DEF flush, Live
<1>2. Live \subseteq DOMAIN metrics /\ DOMAIN metrics \subseteq Contexts /\ DOMAIN metrics' = Live
  BY <1>1 DEF Live, MetricsInv, Shapes
<1>3. \A c \in DOMAIN metrics :
          /\ Agrees(metrics[c], before[c], log[c]) /\ metrics[c].class # None
          /\ log[c] \in Seq(Samples) /\ before[c] \in Samples \cup {None}
          /\ Timely(Since(before[c], log[c]))
  <2> TAKE c \in DOMAIN metrics
  <2>1. Agrees(metrics[c], before[c], log[c])
    BY DEF MetricsInv, HoldsSamples
  <2> QED
    BY <1>2, <2>1, Apart DEF MetricsInv, Shapes, InTime
<1>4. \A c \in Live :
          /\ Reference!Promised(class[c], before[c], log[c], points'[c])
          /\ class'[c] = class[c] /\ last'[c] = last[c]
  <2> TAKE c \in Live
  <2>1. c \in DOMAIN metrics /\ c \in Contexts /\ c \in DOMAIN metrics'
    BY <1>2
  <2>2. Reference!Promised(metrics[c].class, before[c], log[c], Points(metrics[c]))
    BY <1>3, <2>1, PointsPromised
  <2>3. Flushed(metrics[c]).class = metrics[c].class /\ Flushed(metrics[c]).last = metrics[c].last
    BY <1>3, <2>1, Apart, FlushedAgrees
  <2> QED
    BY <1>1, <2>1, <2>2, <2>3, MappedFacts
<1>5. Live = {c \in Contexts : class[c] # None /\ ~(last[c] = None \/ now - last[c] > EXPIRY)}
  <2>1. ASSUME NEW c \in Contexts
        PROVE  c \in Live <=> class[c] # None /\ ~(last[c] = None \/ now - last[c] > EXPIRY)
    <3>1. CASE c \in DOMAIN metrics
      <4>1. c \in Live <=> metrics[c].last # None /\ now - metrics[c].last <= EXPIRY
        BY <3>1, LiveFacts
      <4>2. metrics[c].last \in (0 .. now) \cup {None} /\ now \in Nat /\ EXPIRY \in Nat
        BY <3>1, WorkloadFacts DEF MetricsInv, HoldsSamples, Shapes
      <4>3. class[c] # None /\ last[c] = metrics[c].last
        BY <1>3, <3>1, MappedFacts
      <4> QED
        BY <4>1, <4>2, <4>3
    <3>2. CASE c \notin DOMAIN metrics
      BY <1>2, <3>2, MappedFacts
    <3> QED
      BY <3>1, <3>2
  <2> QED
    BY <1>2, <2>1
<1>6. \A c \in Contexts : c \notin Live => class'[c] = None /\ last'[c] = None
  BY <1>2, MappedFacts
<1>7. /\ class' = [c \in Contexts |-> IF c \in Live THEN class[c] ELSE None]
      /\ last' = [c \in Contexts |-> IF c \in Live THEN last[c] ELSE None]
  <2>1. class' = [c \in Contexts |-> class'[c]] /\ last' = [c \in Contexts |-> last'[c]]
    BY DEF class, last
  <2> HIDE DEF class, last
  <2> QED
    BY <1>4, <1>6, <2>1
<1>8. before' = [c \in Contexts |->
                   IF c \notin Live THEN None
                   ELSE IF log[c] = <<>> THEN before[c] ELSE Reference!Last(log[c])]
  BY <1>1 DEF Last, Reference!Last
<1>9. DOMAIN points' = Live
  BY <1>1
<1> HIDE DEF Live
<1>10. Live = {c \in Contexts : class[c] # None /\ ~Reference!Forgotten(c)}
  BY <1>5 DEF Reference!Forgotten, last
<1> QED
  BY <1>1, <1>4, <1>7, <1>8, <1>9, <1>10 DEF Reference!Flush, class, last

LEMMA RefTicks ==
    ASSUME MetricsInv, Tick
    PROVE  Reference!Tick
<1>1. now' > now /\ points' = <<>> /\ UNCHANGED <<metrics, log, before>>
  BY DEF Tick, MetricsInv, Shapes
<1> QED
  BY <1>1 DEF Reference!Tick, OfMetric

LEMMA RefStep == MetricsInv /\ [Next]_vars => [Reference!Next]_(Reference!refVars)
<1> SUFFICES ASSUME MetricsInv, [Next]_vars PROVE [Reference!Next]_(Reference!refVars)
  OBVIOUS
<1>1. CASE UNCHANGED vars
  BY <1>1 DEF vars, Reference!refVars, OfMetric
<1>2. CASE Next
  <2>1. ASSUME NEW s, NEW c, NEW mtype, NEW v, NEW w, Discards(s, c, mtype, v, w), UNCHANGED workload
        PROVE  Reference!Next
    BY <2>1, RefDiscards DEF Reference!Next
  <2>2. ASSUME NEW s, NEW c, NEW mtype, NEW v, NEW w, Stores(s, c, mtype, v, w), UNCHANGED workload
        PROVE  Reference!Next
    BY <2>2, RefStores DEF Reference!Next
  <2>3. CASE flush
    BY <2>3, RefFlushes DEF Reference!Next
  <2>4. CASE Tick
    BY <2>4, RefTicks DEF Reference!Next
  <2> QED
    BY <1>2, <2>1, <2>2, <2>3, <2>4, Cases
<1> QED
  BY <1>1, <1>2

\* A flush reports of every context what its class promises of the samples it got since
\* the last flush and of the one before these.
THEOREM Implements == Spec => ImplementsReference
<1>1. Spec => Reference!Spec
  BY RefInit, RefStep, InvHolds, PTL DEF Spec, Reference!Spec
<1> QED
  BY <1>1 DEF ImplementsReference
====
