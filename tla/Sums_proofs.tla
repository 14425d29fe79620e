---------------------------- MODULE Sums_proofs -----------------------------
(***************************************************************************)
(* What a sum over 1..n is, for every n: it exists as defined, is an       *)
(* integer, is additive, and is zero if all summands are.  The induction   *)
(* over n is an argument about the least counterexample.                   *)
(***************************************************************************)
EXTENDS Sums, NaturalsInduction, WellFoundedInduction, TLAPS

\* A set of naturals that is not empty has a least element.
LEMMA LeastNatural ==
    ASSUME NEW T, T \subseteq Nat, T # {}
    PROVE  \E n \in T : \A m \in T : n <= m
<1> DEFINE Less == {p \in Nat \X Nat : p[1] < p[2]}
<1>1. IsWellFoundedOn(Less, Nat)
  BY NatLessThanWellFounded, Zenon DEF OpToRel
<1>2. PICK n \in T : \A m \in T : ~(<<m, n>> \in Less)
  <2> HIDE DEF Less
  <2> QED BY <1>1, WFMin
<1>3. ASSUME NEW m \in T
      PROVE  n <= m
  <2>1. <<m, n>> \in Nat \X Nat /\ <<m, n>>[1] = m /\ <<m, n>>[2] = n
    OBVIOUS
  <2>2. m < n => <<m, n>> \in Less
    BY <2>1
  <2>3. ~(m < n)
    BY <1>2, <2>2
  <2> QED BY <2>3
<1> QED BY <1>3

\* Induction up to n: a set with 0 that contains i with i - 1.
LEMMA UpTo ==
  ASSUME NEW n \in Nat, NEW T, 0 \in T, \A i \in 1 .. n : i - 1 \in T => i \in T
  PROVE  \A i \in 0 .. n : i \in T
  <1> DEFINE Bad == {i \in 0 .. n : i \notin T}
  <1>1. SUFFICES ASSUME Bad # {} PROVE FALSE
    OBVIOUS
  <1>2. Bad \subseteq Nat
    OBVIOUS
  <1>3. PICK k \in Bad : \A m \in Bad : k <= m
    <2> HIDE DEF Bad
    <2> QED BY <1>1, <1>2, LeastNatural
  <1>4. k \in 1 .. n /\ k - 1 \in 0 .. n /\ k \notin T /\ ~(k <= k - 1)
    OBVIOUS
  <1>5. k - 1 \in T
    BY <1>3, <1>4
  <1> QED BY <1>4, <1>5

\* The equations of PrefixSum.
IsPrefixSum(n, f, g) == g = [i \in 0..n |-> IF i = 0 THEN 0 ELSE g[i - 1] + f[i]]

\* They have a solution with integer values, by extension of one for n - 1.
LEMMA PrefixSumExists ==
    ASSUME NEW n \in Nat, NEW f \in [1..n -> Int]
    PROVE  \E g \in [0..n -> Int] : IsPrefixSum(n, f, g)
<1> DEFINE Good(k) == \E g \in [0..k -> Int] :
                        g = [i \in 0..k |-> IF i = 0 THEN 0 ELSE g[i - 1] + f[i]]
           Bad == {k \in 0..n : ~Good(k)}
<1>1. Good(0)
  <2> DEFINE g0 == [i \in 0..0 |-> 0]
  <2>1. g0 \in [0..0 -> Int]
    OBVIOUS
  <2>2. g0 = [i \in 0..0 |-> IF i = 0 THEN 0 ELSE g0[i - 1] + f[i]]
    OBVIOUS
  <2> QED BY <2>1, <2>2
<1>2. ASSUME NEW k \in 1..n, Good(k - 1)
      PROVE  Good(k)
  <2>1. PICK g \in [0..(k - 1) -> Int] :
          g = [i \in 0..(k - 1) |-> IF i = 0 THEN 0 ELSE g[i - 1] + f[i]]
    BY <1>2
  <2> DEFINE h == [i \in 0..k |-> IF i = k THEN g[k - 1] + f[k] ELSE g[i]]
  <2>2. h \in [0..k -> Int]
    OBVIOUS
  <2>3. ASSUME NEW i \in 0..k
        PROVE  h[i] = IF i = 0 THEN 0 ELSE h[i - 1] + f[i]
    <3>1. CASE i = k
      BY <3>1
    <3>2. CASE i < k
      <4>1. i \in 0..(k - 1)
        BY <3>2
      <4>2. g[i] = IF i = 0 THEN 0 ELSE g[i - 1] + f[i]
        BY <4>1, <2>1
      <4>3. i # 0 => h[i - 1] = g[i - 1]
        BY <3>2
      <4> QED BY <3>2, <4>1, <4>2, <4>3
    <3> QED BY <3>1, <3>2
  <2>4. h = [i \in 0..k |-> IF i = 0 THEN 0 ELSE h[i - 1] + f[i]]
    <3> HIDE DEF h
    <3> QED BY <2>2, <2>3
  <2> QED BY <2>2, <2>4
<1>3. Bad = {}
  <2> SUFFICES ASSUME Bad # {} PROVE FALSE
    OBVIOUS
  <2>1. PICK k \in Bad : \A m \in Bad : k <= m
    <3>1. Bad \subseteq Nat
      OBVIOUS
    <3> HIDE DEF Bad
    <3> QED BY <3>1, LeastNatural
  <2>2. k # 0
    BY <1>1
  <2> HIDE DEF Good
  <2>3. k \in 1..n /\ ~Good(k)
    BY <2>2
  <2>4. k - 1 \in 0..n /\ k - 1 \notin Bad
    <3>1. k - 1 \in 0..n /\ ~(k <= k - 1)
      BY <2>3
    <3> QED BY <3>1, <2>1
  <2>5. Good(k - 1)
    BY <2>4
  <2> QED BY <2>3, <2>5, <1>2
<1>4. Good(n)
  <2> HIDE DEF Good
  <2>1. n \in 0..n
    OBVIOUS
  <2> QED BY <2>1, <1>3
<1> QED BY <1>4 DEF IsPrefixSum

\* PrefixSum is that solution.
LEMMA PrefixSumDef ==
    ASSUME NEW n \in Nat, NEW f \in [1..n -> Int]
    PROVE  /\ PrefixSum(n, f) \in [0..n -> Int]
           /\ PrefixSum(n, f)[0] = 0
           /\ \A i \in 1..n : PrefixSum(n, f)[i] = PrefixSum(n, f)[i - 1] + f[i]
<1> DEFINE IsSum(g) == g = [i \in 0..n |-> IF i = 0 THEN 0 ELSE g[i - 1] + f[i]]
<1>1. PrefixSum(n, f) = CHOOSE g : IsSum(g)
  BY DEF PrefixSum
<1>2. \E g : IsSum(g)
  BY PrefixSumExists DEF IsPrefixSum
<1>3. IsSum(PrefixSum(n, f))
  <2> HIDE DEF IsSum
  <2> QED BY <1>1, <1>2
<1> DEFINE p == PrefixSum(n, f)
<1>4. PICK g \in [0..n -> Int] : IsSum(g)
  BY PrefixSumExists DEF IsPrefixSum
<1>5. /\ DOMAIN p = 0..n
      /\ p[0] = 0
      /\ \A i \in 1..n : p[i] = p[i - 1] + f[i]
  <2> HIDE DEF p
  <2>1. p = [i \in 0..n |-> IF i = 0 THEN 0 ELSE p[i - 1] + f[i]]
    BY <1>3 DEF p
  <2> QED BY <2>1
<1>6. g[0] = 0 /\ \A i \in 1..n : g[i] = g[i - 1] + f[i]
  <2>1. g = [i \in 0..n |-> IF i = 0 THEN 0 ELSE g[i - 1] + f[i]]
    BY <1>4
  <2> QED BY <2>1
<1>7. \A i \in 0..n : p[i] = g[i]
  <2> DEFINE Bad == {i \in 0..n : p[i] # g[i]}
  <2> HIDE DEF p
  <2>1. SUFFICES ASSUME Bad # {} PROVE FALSE
    OBVIOUS
  <2>2. PICK k \in Bad : \A m \in Bad : k <= m
    <3>1. Bad \subseteq Nat
      OBVIOUS
    <3> HIDE DEF Bad
    <3> QED BY <3>1, <2>1, LeastNatural
  <2>3. k \in 1..n
    BY <1>5, <1>6
  <2>4. p[k - 1] = g[k - 1]
    <3>1. k - 1 \in 0..n /\ ~(k <= k - 1)
      BY <2>3
    <3> QED BY <3>1, <2>2
  <2> QED BY <2>3, <2>4, <1>5, <1>6
<1>8. p \in [0..n -> Int]
  <2> HIDE DEF p
  <2>1. p = [i \in 0..n |-> IF i = 0 THEN 0 ELSE p[i - 1] + f[i]]
    BY <1>3 DEF p
  <2>2. \A i \in 0..n : p[i] \in Int
    BY <1>7
  <2>3. p = [i \in 0..n |-> p[i]]
    BY <2>1
  <2> QED BY <2>2, <2>3
<1> QED BY <1>5, <1>8

\* A sum of integers is an integer.
LEMMA SumType ==
    ASSUME NEW n \in Nat, NEW f \in [1..n -> Int]
    PROVE  Sum(n, f) \in Int
BY PrefixSumDef DEF Sum

\* Sums are additive.
LEMMA SumAdd ==
    ASSUME NEW n \in Nat,
           NEW f \in [1..n -> Int], NEW g \in [1..n -> Int], NEW h \in [1..n -> Int],
           \A i \in 1..n : h[i] = f[i] + g[i]
    PROVE  Sum(n, h) = Sum(n, f) + Sum(n, g)
<1> DEFINE F == PrefixSum(n, f)
           G == PrefixSum(n, g)
           H == PrefixSum(n, h)
           Bad == {i \in 0..n : H[i] # F[i] + G[i]}
<1>1. /\ F \in [0..n -> Int] /\ G \in [0..n -> Int] /\ H \in [0..n -> Int]
      /\ F[0] = 0 /\ G[0] = 0 /\ H[0] = 0
      /\ \A i \in 1..n : F[i] = F[i - 1] + f[i]
      /\ \A i \in 1..n : G[i] = G[i - 1] + g[i]
      /\ \A i \in 1..n : H[i] = H[i - 1] + h[i]
  BY PrefixSumDef
<1>2. Bad = {}
  <2> HIDE DEF F, G, H
  <2>1. SUFFICES ASSUME Bad # {} PROVE FALSE
    OBVIOUS
  <2>2. PICK k \in Bad : \A m \in Bad : k <= m
    <3>1. Bad \subseteq Nat
      OBVIOUS
    <3> HIDE DEF Bad
    <3> QED BY <3>1, <2>1, LeastNatural
  <2>3. k \in 1..n
    BY <1>1
  <2>4. H[k - 1] = F[k - 1] + G[k - 1]
    <3>1. k - 1 \in 0..n /\ ~(k <= k - 1)
      BY <2>3
    <3> QED BY <3>1, <2>2
  <2>5. /\ F[k] = F[k - 1] + f[k] /\ G[k] = G[k - 1] + g[k] /\ H[k] = H[k - 1] + h[k]
        /\ h[k] = f[k] + g[k]
    BY <1>1, <2>3
  <2>6. /\ F[k - 1] \in Int /\ G[k - 1] \in Int /\ H[k - 1] \in Int
        /\ f[k] \in Int /\ g[k] \in Int
    BY <1>1, <2>3
  <2>7. H[k] = F[k] + G[k]
    <3> HIDE DEF Bad
    <3>1. H[k] = (F[k - 1] + G[k - 1]) + (f[k] + g[k])
      BY <2>4, <2>5, <2>6
    <3>2. \A a, b, c, d \in Int : (a + b) + (c + d) = (a + c) + (b + d)
      OBVIOUS
    <3>3. H[k] = (F[k - 1] + f[k]) + (G[k - 1] + g[k])
      BY <3>1, <3>2, <2>6
    <3> QED BY <3>3, <2>5
  <2> QED BY <2>7
<1>3. H[n] = F[n] + G[n]
  <2> HIDE DEF F, G, H
  <2> QED BY <1>2
<1> QED BY <1>3 DEF Sum

\* Sums can be subtracted.
LEMMA SumSubtract ==
    ASSUME NEW n \in Nat,
           NEW f \in [1..n -> Int], NEW g \in [1..n -> Int], NEW h \in [1..n -> Int],
           \A i \in 1..n : h[i] = f[i] - g[i]
    PROVE  Sum(n, h) = Sum(n, f) - Sum(n, g)
<1>1. \A i \in 1..n : f[i] = h[i] + g[i]
  OBVIOUS
<1>2. Sum(n, f) = Sum(n, h) + Sum(n, g)
  BY <1>1, SumAdd
<1> QED BY <1>2, SumType

\* Sums grow with their parts.
LEMMA SumMonotone ==
    ASSUME NEW n \in Nat, NEW f \in [1..n -> Int], NEW g \in [1..n -> Int],
           \A i \in 1..n : f[i] <= g[i]
    PROVE  Sum(n, f) <= Sum(n, g)
<1> DEFINE F == PrefixSum(n, f)
           G == PrefixSum(n, g)
           Bad == {i \in 0..n : ~(F[i] <= G[i])}
<1>1. /\ F \in [0..n -> Int] /\ G \in [0..n -> Int]
      /\ F[0] = 0 /\ G[0] = 0
      /\ \A i \in 1..n : F[i] = F[i - 1] + f[i]
      /\ \A i \in 1..n : G[i] = G[i - 1] + g[i]
  BY PrefixSumDef
<1>2. Bad = {}
  <2> HIDE DEF F, G
  <2>1. SUFFICES ASSUME Bad # {} PROVE FALSE
    OBVIOUS
  <2>2. PICK k \in Bad : \A m \in Bad : k <= m
    <3>1. Bad \subseteq Nat
      OBVIOUS
    <3> HIDE DEF Bad
    <3> QED BY <3>1, <2>1, LeastNatural
  <2>3. k \in 1..n
    BY <1>1
  <2>4. F[k - 1] <= G[k - 1]
    <3>1. k - 1 \in 0..n /\ ~(k <= k - 1)
      BY <2>3
    <3> QED BY <3>1, <2>2
  <2>5. F[k] = F[k - 1] + f[k] /\ G[k] = G[k - 1] + g[k] /\ f[k] <= g[k]
    BY <1>1, <2>3
  <2>6. F[k - 1] \in Int /\ G[k - 1] \in Int /\ f[k] \in Int /\ g[k] \in Int
    BY <1>1, <2>3
  <2>7. F[k] <= G[k]
    <3> HIDE DEF Bad
    <3> QED BY <2>4, <2>5, <2>6
  <2> QED BY <2>7
<1>3. F[n] <= G[n]
  <2> HIDE DEF F, G
  <2> QED BY <1>2
<1> QED BY <1>3 DEF Sum

\* A sum that is at least f everywhere is at least that of f with one more
\* term exchanged.
LEMMA SumOneTerm ==
    ASSUME NEW n \in Nat, NEW f \in [1..n -> Int], NEW g \in [1..n -> Int],
           \A i \in 1..n : f[i] <= g[i], NEW k \in 1..n
    PROVE  Sum(n, f) + (g[k] - f[k]) <= Sum(n, g)
<1> DEFINE F == PrefixSum(n, f)
           G == PrefixSum(n, g)
           d == g[k] - f[k]
           Extra(i) == IF i >= k THEN d ELSE 0
           Bad == {i \in 0..n : ~(F[i] + Extra(i) <= G[i])}
<1>1. /\ F \in [0..n -> Int] /\ G \in [0..n -> Int]
      /\ F[0] = 0 /\ G[0] = 0
      /\ \A i \in 1..n : F[i] = F[i - 1] + f[i]
      /\ \A i \in 1..n : G[i] = G[i - 1] + g[i]
  BY PrefixSumDef
<1>2. Bad = {}
  <2> HIDE DEF F, G
  <2>1. SUFFICES ASSUME Bad # {} PROVE FALSE
    OBVIOUS
  <2>2. PICK j \in Bad : \A m \in Bad : j <= m
    <3>1. Bad \subseteq Nat
      OBVIOUS
    <3> HIDE DEF Bad
    <3> QED BY <3>1, <2>1, LeastNatural
  <2>3. j \in 1..n
    <3>1. Extra(0) = 0
      OBVIOUS
    <3> QED BY <1>1, <3>1
  <2>4. F[j - 1] + Extra(j - 1) <= G[j - 1]
    <3>1. j - 1 \in 0..n /\ ~(j <= j - 1)
      BY <2>3
    <3> QED BY <3>1, <2>2
  <2>5. F[j] = F[j - 1] + f[j] /\ G[j] = G[j - 1] + g[j] /\ f[j] <= g[j]
    BY <1>1, <2>3
  <2>6. F[j - 1] \in Int /\ G[j - 1] \in Int /\ f[j] \in Int /\ g[j] \in Int
    BY <1>1, <2>3
  <2>7. F[j] + Extra(j) <= G[j]
    <3>1. CASE j = k
      <4>1. Extra(j) = g[j] - f[j] /\ Extra(j - 1) = 0
        BY <3>1
      <4> HIDE DEF Bad, Extra, d
      <4> QED BY <2>4, <2>5, <2>6, <4>1
    <3>2. CASE j # k
      <4>1. Extra(j) = Extra(j - 1) /\ Extra(j) \in Int
        BY <2>3, <3>2
      <4> HIDE DEF Bad, Extra, d
      <4> QED BY <2>4, <2>5, <2>6, <4>1
    <3> QED BY <3>1, <3>2
  <2> QED BY <2>7
<1>3. Extra(n) = d
  OBVIOUS
<1>4. F[n] + Extra(n) <= G[n]
  <2> HIDE DEF Bad, F, G, Extra, d
  <2>1. n \in 0..n /\ n \notin Bad
    BY <1>2
  <2> QED BY <2>1, Zenon DEF Bad
<1> QED BY <1>3, <1>4 DEF Sum

\* A sum of zeros is zero, and one with a single term is that term.
LEMMA SumPoint ==
    ASSUME NEW n \in Nat, NEW f \in [1..n -> Int], NEW k \in 1..n,
           \A i \in 1..n : i # k => f[i] = 0
    PROVE  Sum(n, f) = f[k]
<1> DEFINE F == PrefixSum(n, f)
           Value(i) == IF i >= k THEN f[k] ELSE 0
           Bad == {i \in 0..n : F[i] # Value(i)}
<1>1. /\ F \in [0..n -> Int] /\ F[0] = 0
      /\ \A i \in 1..n : F[i] = F[i - 1] + f[i]
  BY PrefixSumDef
<1>2. Bad = {}
  <2> HIDE DEF F
  <2>1. SUFFICES ASSUME Bad # {} PROVE FALSE
    OBVIOUS
  <2>2. PICK j \in Bad : \A m \in Bad : j <= m
    <3>1. Bad \subseteq Nat
      OBVIOUS
    <3> HIDE DEF Bad
    <3> QED BY <3>1, <2>1, LeastNatural
  <2>3. j \in 1..n
    BY <1>1
  <2>4. F[j - 1] = Value(j - 1)
    <3>1. j - 1 \in 0..n /\ ~(j <= j - 1)
      BY <2>3
    <3> QED BY <3>1, <2>2
  <2>5. F[j] = F[j - 1] + f[j] /\ f[j] \in Int /\ f[k] \in Int
    BY <1>1, <2>3
  <2>6. CASE j = k
    BY <2>4, <2>5, <2>6
  <2>7. CASE j # k
    <3>1. f[j] = 0 /\ Value(j) = Value(j - 1) /\ Value(j - 1) \in Int
      BY <2>3, <2>5, <2>7
    <3> QED BY <2>4, <2>5, <3>1
  <2> QED BY <2>6, <2>7
<1>3. F[n] = f[k]
  <2> HIDE DEF F
  <2>1. n \in 0..n /\ n \notin Bad /\ Value(n) = f[k]
    BY <1>2
  <2> QED BY <2>1
<1> QED BY <1>3 DEF Sum

\* Exchanging one term.
LEMMA SumChange ==
    ASSUME NEW n \in Nat, NEW f \in [1..n -> Int], NEW g \in [1..n -> Int], NEW k \in 1..n,
           \A i \in 1..n : i # k => f[i] = g[i]
    PROVE  Sum(n, g) = Sum(n, f) + (g[k] - f[k])
<1> DEFINE h == [i \in 1..n |-> g[i] - f[i]]
<1>1. h \in [1..n -> Int] /\ \A i \in 1..n : h[i] = g[i] - f[i]
  OBVIOUS
<1>2. h[k] = g[k] - f[k] /\ \A i \in 1..n : i # k => h[i] = 0
  OBVIOUS
<1> HIDE DEF h
<1>3. Sum(n, h) = Sum(n, g) - Sum(n, f)
  BY <1>1, SumSubtract
<1>4. Sum(n, h) = h[k]
  BY <1>1, <1>2, SumPoint
<1>5. Sum(n, g) \in Int /\ Sum(n, f) \in Int /\ h[k] \in Int
  BY <1>1, SumType
<1> QED BY <1>2, <1>3, <1>4, <1>5

\* A sum of zeros.
LEMMA SumZero ==
    ASSUME NEW n \in Nat, NEW f \in [1..n -> Int], \A i \in 1..n : f[i] = 0
    PROVE  Sum(n, f) = 0
<1>1. CASE n = 0
  BY <1>1, PrefixSumDef DEF Sum
<1>2. CASE n # 0
  BY <1>2, SumPoint, 1 \in 1..n
<1> QED BY <1>1, <1>2

\* Dividing a positive number by a negative one rounds away from zero.
LEMMA FloorOfNegative ==
    ASSUME NEW n \in Nat, n > 0, NEW co \in Nat, co > 0
    PROVE  /\ floordiv(n, -co) \in Int
           /\ co * (-floordiv(n, -co)) >= n
<1> DEFINE q == n \div co
<1>1. q \in Nat /\ co * q <= n /\ n < co * (q + 1)
  OBVIOUS
<1>2. TruncDiv(n, -co) = -q
  BY DEF TruncDiv
<1> HIDE DEF q
<1>3. TruncDiv(n, -co) * (-co) = co * q /\ (n < 0) # (-co < 0)
  <2>1. (-q) * (-co) = co * q
    BY <1>1
  <2> QED BY <1>2, <2>1
<1>4. CASE n = co * q
  <2>1. floordiv(n, -co) = -q
    BY <1>2, <1>3, <1>4 DEF floordiv
  <2>2. -(-q) = q
    BY <1>1
  <2> QED BY <1>1, <1>4, <2>1, <2>2
<1>5. CASE n # co * q
  <2>1. floordiv(n, -co) = -q - 1
    BY <1>2, <1>3, <1>5 DEF floordiv
  <2>2. -(-q - 1) = q + 1
    BY <1>1
  <2> QED BY <1>1, <2>1, <2>2
<1> QED BY <1>4, <1>5
=============================================================================
