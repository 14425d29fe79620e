------------------------- MODULE Objective_proofs ---------------------------
(***************************************************************************)
(* The objective over solve steps and threads: costs, improvement and      *)
(* optimality, for any threads, variables, linear objectives and solutions *)
(* of the steps.                                                           *)
(*                                                                         *)
(* The argument has two parts. About the data: each round of the loop of   *)
(* simplify keeps the difference of the sum and its right hand side, so    *)
(* the constraint of a step is the objective stated so far up to a         *)
(* constant. About the search: the shared bound is one below the cost of   *)
(* the model shown, no thread is ahead of it, and the thread that holds    *)
(* the lock has a model that still improves it, so that a thread without   *)
(* assignments left proves the model optimal for all.                      *)
(***************************************************************************)
EXTENDS Objective, Sums_proofs, SequenceTheorems

-----------------------------------------------------------------------------
(* Recursion over the indices of a sequence.                               *)

\* A recursion that stays in S has a solution with values in S.
Iterates(n, base, f, g) == g = [i \in 0 .. n |-> IF i = 0 THEN base ELSE f[i][g[i - 1]]]

LEMMA IterationExists ==
  ASSUME NEW n \in Nat, NEW S, NEW base \in S, NEW f \in [1 .. n -> [S -> S]]
  PROVE  \E g \in [0 .. n -> S] : Iterates(n, base, f, g)
  <1> DEFINE T == {k \in 0 .. n : \E g \in [0 .. k -> S] : Iterates(k, base, f, g)}
  <1>1. 0 \in T
    <2> DEFINE g0 == [i \in 0 .. 0 |-> base]
    <2>1. g0 \in [0 .. 0 -> S]
      OBVIOUS
    <2>2. g0 = [i \in 0 .. 0 |-> IF i = 0 THEN base ELSE f[i][g0[i - 1]]]
      OBVIOUS
    <2> HIDE DEF g0
    <2>3. \E g \in [0 .. 0 -> S] : Iterates(0, base, f, g)
      BY <2>1, <2>2 DEF Iterates
    <2> QED BY <2>3
  <1>2. ASSUME NEW k \in 1 .. n, k - 1 \in T
        PROVE  k \in T
    <2>1. PICK g \in [0 .. (k - 1) -> S] :
            g = [i \in 0 .. (k - 1) |-> IF i = 0 THEN base ELSE f[i][g[i - 1]]]
      BY <1>2 DEF Iterates
    <2> DEFINE h == [i \in 0 .. k |-> IF i = k THEN f[k][g[k - 1]] ELSE g[i]]
    <2>2. k - 1 \in 0 .. (k - 1) /\ g[k - 1] \in S
      BY <2>1
    <2>3. f[k][g[k - 1]] \in S
      BY <2>2
    <2>4. h \in [0 .. k -> S]
      BY <2>3
    <2>5. ASSUME NEW i \in 0 .. k
          PROVE  h[i] = IF i = 0 THEN base ELSE f[i][h[i - 1]]
      <3>1. CASE i = k
        <4>1. i - 1 \in 0 .. k /\ i - 1 # k /\ i # 0
          BY <3>1
        <4> QED BY <3>1, <4>1
      <3>2. CASE i < k
        <4>1. i \in 0 .. (k - 1)
          BY <3>2
        <4>2. g[i] = IF i = 0 THEN base ELSE f[i][g[i - 1]]
          BY <4>1, <2>1
        <4>3. i # 0 => h[i - 1] = g[i - 1]
          BY <3>2
        <4> QED BY <3>2, <4>1, <4>2, <4>3
      <3> QED BY <3>1, <3>2
    <2>6. h = [i \in 0 .. k |-> IF i = 0 THEN base ELSE f[i][h[i - 1]]]
      <3> HIDE DEF h
      <3> QED BY <2>4, <2>5
    <2>7. \E d \in [0 .. k -> S] : Iterates(k, base, f, d)
      <3> HIDE DEF h
      <3> QED BY <2>4, <2>6 DEF Iterates
    <2> QED BY <2>7
  <1>3. n \in T
    <2> HIDE DEF T
    <2>1. \A i \in 0 .. n : i \in T
      BY <1>1, <1>2, UpTo
    <2> QED BY <2>1
  <1> QED BY <1>3

-----------------------------------------------------------------------------
(* Sums over sequences.                                                    *)

\* The last term of a sum.
LEMMA SumLast ==
  ASSUME NEW n \in Nat, NEW f \in [1 .. n -> Int], NEW h \in [1 .. n + 1 -> Int],
         \A i \in 1 .. n : h[i] = f[i]
  PROVE  Sum(n + 1, h) = Sum(n, f) + h[n + 1]
  <1> DEFINE F == PrefixSum(n, f)
             H == PrefixSum(n + 1, h)
             T == {i \in 0 .. n : H[i] = F[i]}
  <1>1. /\ F[0] = 0 /\ H[0] = 0
        /\ \A i \in 1 .. n : F[i] = F[i - 1] + f[i]
        /\ \A i \in 1 .. n + 1 : H[i] = H[i - 1] + h[i]
    <2>1. n + 1 \in Nat
      OBVIOUS
    <2> QED BY <2>1, PrefixSumDef
  <1>2. \A i \in 0 .. n : i \in T
    <2> HIDE DEF F, H
    <2>1. 0 \in T
      BY <1>1
    <2>2. \A i \in 1 .. n : i - 1 \in T => i \in T
      BY <1>1
    <2> HIDE DEF T
    <2> QED BY <2>1, <2>2, UpTo
  <1>3. H[n] = F[n]
    <2> HIDE DEF F, H
    <2> QED BY <1>2
  <1>4. H[n + 1] = H[n] + h[n + 1]
    <2> HIDE DEF F, H
    <2>1. n + 1 \in 1 .. n + 1 /\ (n + 1) - 1 = n
      OBVIOUS
    <2> QED BY <1>1, <2>1
  <1> QED BY <1>3, <1>4 DEF Sum

\* The empty sum.
LEMMA SumEmpty ==
  ASSUME NEW f \in [1 .. 0 -> Int]
  PROVE  Sum(0, f) = 0
  BY PrefixSumDef DEF Sum

\* The sum of two sequences.
LEMMA SumConcat ==
  ASSUME NEW n \in Nat, NEW m \in Nat, NEW f \in [1 .. n -> Int], NEW g \in [1 .. m -> Int],
         NEW h \in [1 .. n + m -> Int],
         \A i \in 1 .. n : h[i] = f[i], \A i \in 1 .. m : h[n + i] = g[i]
  PROVE  Sum(n + m, h) = Sum(n, f) + Sum(m, g)
  <1> DEFINE First(k) == [i \in 1 .. n + k |-> h[i]]
             Second(k) == [i \in 1 .. k |-> g[i]]
             T == {k \in 0 .. m : Sum(n + k, First(k)) = Sum(n, f) + Sum(k, Second(k))}
  <1>1. 0 \in T
    <2>1. First(0) = f /\ Second(0) \in [1 .. 0 -> Int] /\ n + 0 = n
      OBVIOUS
    <2>2. Sum(0, Second(0)) = 0 /\ Sum(n, f) \in Int
      BY <2>1, SumEmpty, SumType
    <2> QED BY <2>1, <2>2
  <1>2. ASSUME NEW k \in 1 .. m, k - 1 \in T
        PROVE  k \in T
    <2> DEFINE f0 == First(k - 1)
               f1 == First(k)
               g0 == Second(k - 1)
               g1 == Second(k)
    <2>1. /\ f0 \in [1 .. n + (k - 1) -> Int] /\ f1 \in [1 .. (n + (k - 1)) + 1 -> Int]
          /\ g0 \in [1 .. k - 1 -> Int] /\ g1 \in [1 .. (k - 1) + 1 -> Int]
      OBVIOUS
    <2>2. /\ \A i \in 1 .. n + (k - 1) : f1[i] = f0[i]
          /\ \A i \in 1 .. k - 1 : g1[i] = g0[i]
      OBVIOUS
    <2>3. f1[n + k] = g1[k] /\ g1[k] \in Int
      OBVIOUS
    <2>4. Sum(n + (k - 1), f0) = Sum(n, f) + Sum(k - 1, g0)
      BY <1>2
    <2> HIDE DEF f0, f1, g0, g1
    <2>5. n + (k - 1) \in Nat /\ k - 1 \in Nat /\ (n + (k - 1)) + 1 = n + k /\ (k - 1) + 1 = k
      OBVIOUS
    <2>6. Sum((n + (k - 1)) + 1, f1) = Sum(n + (k - 1), f0) + f1[(n + (k - 1)) + 1]
      BY <2>1, <2>2, <2>5, SumLast
    <2>7. Sum((k - 1) + 1, g1) = Sum(k - 1, g0) + g1[(k - 1) + 1]
      BY <2>1, <2>2, <2>5, SumLast
    <2>8. Sum(n, f) \in Int /\ Sum(k - 1, g0) \in Int
      BY <2>1, <2>5, SumType
    <2>9. Sum(n + k, f1) = Sum(n, f) + Sum(k, g1)
      <3>1. Sum(n + k, f1) = (Sum(n, f) + Sum(k - 1, g0)) + g1[k]
        BY <2>3, <2>4, <2>5, <2>6
      <3>2. Sum(k, g1) = Sum(k - 1, g0) + g1[k]
        BY <2>5, <2>7
      <3> QED BY <3>1, <3>2, <2>3, <2>8
    <2> QED BY <2>9 DEF f1, g1
  <1>3. m \in T
    <2> HIDE DEF T
    <2>1. \A i \in 0 .. m : i \in T
      BY <1>1, <1>2, UpTo
    <2> QED BY <2>1
  <1>4. First(m) = h /\ Second(m) = g
    OBVIOUS
  <1> QED BY <1>3, <1>4

-----------------------------------------------------------------------------
(* What simplify preserves.                                                *)

\* The terms of a sum.
TermValues(es, s) == [i \in DOMAIN es |-> MonoValue(es[i], s)]

\* No variable occurs twice.
Once(es) == \A i, j \in DOMAIN es : es[i].vars = es[j].vars => i = j

\* Only terms are left.
NoConstants(es) == \A i \in DOMAIN es : ~IsConstant(es[i])

\* The states of the loop of simplify.
Loops == {r \in [elems : Seq(LinearElems), rhs : Int] : Once(r.elems) /\ NoConstants(r.elems)}

\* The value of a linear monomial.
LEMMA LinearValue ==
  ASSUME NEW e \in LinearElems, NEW s \in [Vars -> Int]
  PROVE  /\ MonoValue(e, s) = IF e.vars = <<>> THEN e.co ELSE e.co * s[e.vars[1]]
         /\ MonoValue(e, s) \in Int
  <1> DEFINE IsProduct(p) ==
        p = [n \in 0 .. Len(e.vars) |-> IF n = 0 THEN e.co ELSE p[n - 1] * s[e.vars[n]]]
  <1>1. e.co \in Int /\ (e.vars = <<>> \/ \E v \in Vars : e.vars = <<v>>)
    BY DEF LinearElems
  <1>2. MonoValue(e, s) = (CHOOSE p : IsProduct(p))[Len(e.vars)]
    BY DEF MonoValue
  <1>3. CASE e.vars = <<>>
    <2>1. Len(e.vars) = 0
      BY <1>3
    <2> DEFINE p0 == [n \in 0 .. 0 |-> e.co]
    <2>2. p0 = [n \in 0 .. Len(e.vars) |-> IF n = 0 THEN e.co ELSE p0[n - 1] * s[e.vars[n]]]
      BY <2>1
    <2> HIDE DEF p0
    <2>3. IsProduct(p0)
      BY <2>2
    <2> HIDE DEF IsProduct
    <2>4. IsProduct(CHOOSE p : IsProduct(p))
      BY <2>3
    <2>5. PICK p : IsProduct(p) /\ MonoValue(e, s) = p[0]
      BY <2>1, <2>4, <1>2
    <2>6. p[0] = e.co
      BY <2>1, <2>5 DEF IsProduct
    <2> QED BY <1>1, <1>3, <2>5, <2>6
  <1>4. ASSUME NEW v \in Vars, e.vars = <<v>>
        PROVE  MonoValue(e, s) = e.co * s[v] /\ e.vars[1] = v /\ e.vars # <<>>
    <2>1. Len(e.vars) = 1 /\ e.vars[1] = v /\ e.vars # <<>>
      BY <1>4
    <2> DEFINE p1 == [n \in 0 .. 1 |-> IF n = 0 THEN e.co ELSE e.co * s[v]]
    <2>2. p1 = [n \in 0 .. Len(e.vars) |-> IF n = 0 THEN e.co ELSE p1[n - 1] * s[e.vars[n]]]
      BY <2>1
    <2> HIDE DEF p1
    <2>3. IsProduct(p1)
      BY <2>2
    <2> HIDE DEF IsProduct
    <2>4. IsProduct(CHOOSE p : IsProduct(p))
      BY <2>3
    <2>5. PICK p : IsProduct(p) /\ MonoValue(e, s) = p[1]
      BY <2>1, <2>4, <1>2
    <2>6. p[0] = e.co
      BY <2>1, <2>5 DEF IsProduct
    <2>7. p[1] = p[0] * s[v]
      <3>1. 1 \in 0 .. Len(e.vars) /\ 1 - 1 = 0
        BY <2>1
      <3>2. p[1] = p[1 - 1] * s[e.vars[1]]
        BY <2>5, <3>1 DEF IsProduct
      <3> QED BY <3>1, <3>2, <2>1
    <2> QED BY <2>1, <2>5, <2>6, <2>7
  <1> QED BY <1>1, <1>3, <1>4

\* Values of sums are integers.
LEMMA TermValuesType ==
  ASSUME NEW es \in Seq(LinearElems), NEW s \in [Vars -> Int]
  PROVE  /\ TermValues(es, s) \in [1 .. Len(es) -> Int]
         /\ \A i \in 1 .. Len(es) : TermValues(es, s)[i] = MonoValue(es[i], s)
         /\ ElemsValue(es, s) = Sum(Len(es), TermValues(es, s))
         /\ ElemsValue(es, s) \in Int
  <1>1. DOMAIN es = 1 .. Len(es) /\ \A i \in 1 .. Len(es) : es[i] \in LinearElems
    OBVIOUS
  <1>2. \A i \in 1 .. Len(es) : MonoValue(es[i], s) \in Int
    BY <1>1, LinearValue
  <1>3. /\ TermValues(es, s) \in [1 .. Len(es) -> Int]
        /\ \A i \in 1 .. Len(es) : TermValues(es, s)[i] = MonoValue(es[i], s)
    BY <1>1, <1>2 DEF TermValues
  <1>4. ElemsValue(es, s) = Sum(Len(es), TermValues(es, s))
    BY DEF ElemsValue, TermValues
  <1>5. Len(es) \in Nat
    OBVIOUS
  <1> QED BY <1>3, <1>4, <1>5, SumType

\* The empty sum.
LEMMA EmptyValue ==
  ASSUME NEW s \in [Vars -> Int]
  PROVE  ElemsValue(<<>>, s) = 0
  <1>1. <<>> \in Seq(LinearElems) /\ Len(<<>>) = 0
    OBVIOUS
  <1> QED BY <1>1, TermValuesType, SumEmpty

\* One more monomial.
LEMMA AppendValue ==
  ASSUME NEW es \in Seq(LinearElems), NEW e \in LinearElems, NEW s \in [Vars -> Int]
  PROVE  ElemsValue(Append(es, e), s) = ElemsValue(es, s) + MonoValue(e, s)
  <1>1. PICK as : as = Append(es, e)
    OBVIOUS
  <1>2. /\ as \in Seq(LinearElems) /\ Len(as) = Len(es) + 1 /\ Len(es) \in Nat
        /\ as[Len(es) + 1] = e /\ \A i \in 1 .. Len(es) : as[i] = es[i]
    BY <1>1
  <1>3. PICK f : f = TermValues(es, s)
    OBVIOUS
  <1>4. PICK h : h = TermValues(as, s)
    OBVIOUS
  <1>5. /\ f \in [1 .. Len(es) -> Int] /\ h \in [1 .. Len(es) + 1 -> Int]
        /\ ElemsValue(es, s) = Sum(Len(es), f) /\ ElemsValue(as, s) = Sum(Len(es) + 1, h)
    BY <1>2, <1>3, <1>4, TermValuesType
  <1>6. /\ \A i \in 1 .. Len(es) : f[i] = MonoValue(es[i], s)
        /\ \A i \in 1 .. Len(es) + 1 : h[i] = MonoValue(as[i], s)
    BY <1>2, <1>3, <1>4, TermValuesType
  <1>7. /\ \A i \in 1 .. Len(es) : h[i] = f[i]
        /\ h[Len(es) + 1] = MonoValue(e, s)
    <2>1. \A i \in 1 .. Len(es) : i \in 1 .. Len(es) + 1
      BY <1>2
    <2>2. Len(es) + 1 \in 1 .. Len(es) + 1
      BY <1>2
    <2>3. \A i \in 1 .. Len(es) : h[i] = f[i]
      BY <1>2, <1>6, <2>1
    <2>4. h[Len(es) + 1] = MonoValue(e, s)
      BY <1>2, <1>6, <2>2
    <2> QED BY <2>3, <2>4
  <1>8. Sum(Len(es) + 1, h) = Sum(Len(es), f) + h[Len(es) + 1]
    BY <1>2, <1>5, <1>7, SumLast
  <1> QED BY <1>1, <1>5, <1>7, <1>8

\* Two sums in a row.
LEMMA ConcatValue ==
  ASSUME NEW es \in Seq(LinearElems), NEW ds \in Seq(LinearElems), NEW s \in [Vars -> Int]
  PROVE  ElemsValue(es \o ds, s) = ElemsValue(es, s) + ElemsValue(ds, s)
  <1>1. PICK as : as = es \o ds
    OBVIOUS
  <1>2. /\ as \in Seq(LinearElems) /\ Len(as) = Len(es) + Len(ds)
        /\ Len(es) \in Nat /\ Len(ds) \in Nat
        /\ \A i \in 1 .. Len(es) : as[i] = es[i]
        /\ \A i \in 1 .. Len(ds) : as[Len(es) + i] = ds[i]
    BY <1>1
  <1>3. PICK f : f = TermValues(es, s)
    OBVIOUS
  <1>4. PICK g : g = TermValues(ds, s)
    OBVIOUS
  <1>5. PICK h : h = TermValues(as, s)
    OBVIOUS
  <1>6. /\ f \in [1 .. Len(es) -> Int] /\ g \in [1 .. Len(ds) -> Int]
        /\ h \in [1 .. Len(es) + Len(ds) -> Int]
        /\ ElemsValue(es, s) = Sum(Len(es), f) /\ ElemsValue(ds, s) = Sum(Len(ds), g)
        /\ ElemsValue(as, s) = Sum(Len(es) + Len(ds), h)
    BY <1>2, <1>3, <1>4, <1>5, TermValuesType
  <1>7. /\ \A i \in 1 .. Len(es) : f[i] = MonoValue(es[i], s)
        /\ \A i \in 1 .. Len(ds) : g[i] = MonoValue(ds[i], s)
        /\ \A i \in 1 .. Len(es) + Len(ds) : h[i] = MonoValue(as[i], s)
    BY <1>2, <1>3, <1>4, <1>5, TermValuesType
  <1>8. /\ \A i \in 1 .. Len(es) : h[i] = f[i]
        /\ \A i \in 1 .. Len(ds) : h[Len(es) + i] = g[i]
    <2>1. \A i \in 1 .. Len(es) : i \in 1 .. Len(es) + Len(ds)
      BY <1>2
    <2>2. \A i \in 1 .. Len(ds) : Len(es) + i \in 1 .. Len(es) + Len(ds)
      BY <1>2
    <2> QED BY <1>2, <1>7, <2>1, <2>2
  <1>9. Sum(Len(es) + Len(ds), h) = Sum(Len(es), f) + Sum(Len(ds), g)
    BY <1>2, <1>6, <1>8, SumConcat
  <1> QED BY <1>1, <1>6, <1>9

\* A combined monomial has the value of both.
LEMMA CombineValue ==
  ASSUME NEW es \in Seq(LinearElems), Once(es), NEW e \in LinearElems
  PROVE  /\ Combine(es, e) \in Seq(LinearElems)
         /\ Once(Combine(es, e))
         /\ NoConstants(es) /\ ~IsConstant(e) => NoConstants(Combine(es, e))
         /\ \A s \in [Vars -> Int] :
              ElemsValue(Combine(es, e), s) = ElemsValue(es, s) + MonoValue(e, s)
  <1>0. DOMAIN es = 1 .. Len(es) /\ Len(es) \in Nat
        /\ \A i \in 1 .. Len(es) : es[i] \in LinearElems
    OBVIOUS
  <1>1. CASE \E i \in DOMAIN es : es[i].vars = e.vars
    <2>1. PICK k \in 1 .. Len(es) : es[k].vars = e.vars
      BY <1>0, <1>1
    <2>2. PICK as : as = [i \in DOMAIN es |->
             IF es[i].vars = e.vars THEN Mono(es[i].co + e.co, e.vars) ELSE es[i]]
      OBVIOUS
    <2>3. Combine(es, e) = as
      BY <1>1, <2>2 DEF Combine
    <2>4. \A i \in 1 .. Len(es) : (es[i].vars = e.vars) <=> i = k
      BY <1>0, <2>1 DEF Once
    <2>5. as[k] = Mono(es[k].co + e.co, e.vars) /\ \A i \in 1 .. Len(es) : i # k => as[i] = es[i]
      BY <1>0, <2>1, <2>2, <2>4
    <2>6. es[k].co \in Int /\ e.co \in Int /\ es[k] \in LinearElems
      BY <1>0, <2>1 DEF LinearElems
    <2>7. as[k] \in LinearElems /\ as[k].co = es[k].co + e.co /\ as[k].vars = e.vars
      <3>1. as[k].co = es[k].co + e.co /\ as[k].vars = e.vars
        BY <2>5 DEF Mono
      <3>2. es[k].co + e.co \in Int
        BY <2>6
      <3> QED BY <3>1, <3>2, <2>5 DEF Mono, LinearElems
    <2>8. as \in [1 .. Len(es) -> LinearElems] /\ Len(as) = Len(es) /\ as \in Seq(LinearElems)
      <3>1. \A i \in 1 .. Len(es) : as[i] \in LinearElems
        BY <1>0, <2>5, <2>7
      <3>2. as \in [1 .. Len(es) -> LinearElems]
        BY <3>1, <2>2, <1>0
      <3>3. as \in Seq(LinearElems)
        BY <3>2, <1>0, SeqDef, Zenon
      <3>4. Len(as) = Len(es)
        <4>1. DOMAIN as = 1 .. Len(es) /\ DOMAIN as = 1 .. Len(as) /\ Len(as) \in Nat
          BY <3>2, <3>3, LenProperties
        <4>2. PICK a, b \in Nat : a = Len(as) /\ b = Len(es)
          BY <4>1, <1>0
        <4>3. 1 .. a = 1 .. b
          BY <4>1, <4>2
        <4>4. (a > 0 => a \in 1 .. b) /\ (b > 0 => b \in 1 .. a)
          BY <4>3
        <4>5. a = b
          BY <4>4
        <4> QED BY <4>2, <4>5
      <3> QED BY <3>2, <3>3, <3>4
    <2>9. Once(as)
      <3>1. \A i \in 1 .. Len(es) : as[i].vars = es[i].vars
        BY <2>5, <2>7, <2>1
      <3>2. DOMAIN as = 1 .. Len(es)
        BY <2>8
      <3> QED BY <3>1, <3>2, <1>0 DEF Once
    <2>10. ASSUME NEW s \in [Vars -> Int]
           PROVE  ElemsValue(as, s) = ElemsValue(es, s) + MonoValue(e, s)
      <3>1. PICK f : f = TermValues(es, s)
        OBVIOUS
      <3>2. PICK h : h = TermValues(as, s)
        OBVIOUS
      <3>3. /\ f \in [1 .. Len(es) -> Int] /\ h \in [1 .. Len(es) -> Int]
            /\ ElemsValue(es, s) = Sum(Len(es), f) /\ ElemsValue(as, s) = Sum(Len(es), h)
        BY <2>8, <3>1, <3>2, TermValuesType
      <3>4. /\ \A i \in 1 .. Len(es) : f[i] = MonoValue(es[i], s)
            /\ \A i \in 1 .. Len(es) : h[i] = MonoValue(as[i], s)
        BY <2>8, <3>1, <3>2, TermValuesType
      <3>5. \A i \in 1 .. Len(es) : i # k => f[i] = h[i]
        BY <2>5, <3>4
      <3>6. Sum(Len(es), h) = Sum(Len(es), f) + (h[k] - f[k])
        BY <1>0, <2>1, <3>3, <3>5, SumChange
      <3>7. MonoValue(as[k], s) = MonoValue(es[k], s) + MonoValue(e, s)
        <4>1. CASE e.vars = <<>>
          <5>1. /\ MonoValue(as[k], s) = as[k].co /\ MonoValue(es[k], s) = es[k].co
                /\ MonoValue(e, s) = e.co
            BY <4>1, <2>1, <2>6, <2>7, LinearValue
          <5> QED BY <5>1, <2>7
        <4>2. CASE e.vars # <<>>
          <5>1. PICK x \in Int : x = s[e.vars[1]]
            <6>1. PICK v \in Vars : e.vars = <<v>>
              BY <4>2 DEF LinearElems
            <6> QED BY <6>1
          <5>2. /\ MonoValue(as[k], s) = as[k].co * x /\ MonoValue(es[k], s) = es[k].co * x
                /\ MonoValue(e, s) = e.co * x
            BY <4>2, <5>1, <2>1, <2>6, <2>7, LinearValue
          <5>3. \A a, b \in Int : (a + b) * x = a * x + b * x
            BY <5>1
          <5> QED BY <5>2, <5>3, <2>6, <2>7
        <4> QED BY <4>1, <4>2
      <3>8. Sum(Len(es), f) \in Int /\ MonoValue(es[k], s) \in Int /\ MonoValue(e, s) \in Int
        BY <1>0, <2>6, <3>3, SumType, LinearValue
      <3>9. h[k] = MonoValue(as[k], s) /\ f[k] = MonoValue(es[k], s)
        BY <2>1, <3>4
      <3>10. PICK m, o \in Int : m = MonoValue(e, s) /\ o = MonoValue(es[k], s)
        BY <3>8
      <3>11. h[k] - f[k] = MonoValue(e, s)
        BY <3>7, <3>9, <3>10
      <3> QED BY <3>3, <3>6, <3>11
    <2>11. NoConstants(es) /\ ~IsConstant(e) => NoConstants(as)
      <3>1. \A i \in 1 .. Len(es) : as[i].vars = es[i].vars
        BY <2>5, <2>7, <2>1
      <3>2. DOMAIN as = 1 .. Len(es)
        BY <2>8
      <3> QED BY <3>1, <3>2, <1>0 DEF NoConstants, IsConstant
    <2> QED BY <2>3, <2>8, <2>9, <2>10, <2>11
  <1>2. CASE ~\E i \in DOMAIN es : es[i].vars = e.vars
    <2>1. PICK as : as = Append(es, e)
      OBVIOUS
    <2>2. Combine(es, e) = as
      BY <1>2, <2>1 DEF Combine
    <2>3. as \in Seq(LinearElems) /\ DOMAIN as = 1 .. Len(es) + 1
          /\ as[Len(es) + 1] = e /\ \A i \in 1 .. Len(es) : as[i] = es[i]
      BY <2>1
    <2>4. Once(as)
      <3>1. \A i, j \in 1 .. Len(es) : as[i].vars = as[j].vars => i = j
        BY <2>3, <1>0 DEF Once
      <3>2. \A i \in 1 .. Len(es) : as[i].vars # as[Len(es) + 1].vars
        BY <2>3, <1>0, <1>2
      <3>3. \A i \in 1 .. Len(es) + 1 : i \in 1 .. Len(es) \/ i = Len(es) + 1
        BY <1>0
      <3> QED BY <2>3, <3>1, <3>2, <3>3 DEF Once
    <2>5. \A s \in [Vars -> Int] : ElemsValue(as, s) = ElemsValue(es, s) + MonoValue(e, s)
      BY <2>1, AppendValue
    <2>6. NoConstants(es) /\ ~IsConstant(e) => NoConstants(as)
      <3>1. \A i \in 1 .. Len(es) + 1 : i \in 1 .. Len(es) \/ i = Len(es) + 1
        BY <1>0
      <3> QED BY <2>3, <3>1, <1>0 DEF NoConstants
    <2> QED BY <2>2, <2>3, <2>4, <2>5, <2>6
  <1> QED BY <1>1, <1>2

\* One round of the loop.
LEMMA VisitValue ==
  ASSUME NEW r \in Loops, NEW e \in LinearElems
  PROVE  /\ Visit(r, e) \in Loops
         /\ \A s \in [Vars -> Int] :
              ElemsValue(Visit(r, e).elems, s) - Visit(r, e).rhs
                = (ElemsValue(r.elems, s) - r.rhs) + MonoValue(e, s)
  <1>1. /\ r \in [elems : Seq(LinearElems), rhs : Int] /\ r.elems \in Seq(LinearElems)
        /\ r.rhs \in Int /\ Once(r.elems) /\ NoConstants(r.elems) /\ e.co \in Int
    BY DEF Loops, LinearElems
  <1>2. \A s \in [Vars -> Int] : ElemsValue(r.elems, s) \in Int /\ MonoValue(e, s) \in Int
    BY <1>1, TermValuesType, LinearValue
  <1>3. CASE e.co = 0
    <2>1. Visit(r, e) = r
      BY <1>3 DEF Visit
    <2>2. \A s \in [Vars -> Int] : MonoValue(e, s) = 0
      <3> SUFFICES ASSUME NEW s \in [Vars -> Int] PROVE MonoValue(e, s) = 0
        OBVIOUS
      <3>1. CASE e.vars = <<>>
        BY <3>1, <1>3, LinearValue
      <3>2. CASE e.vars # <<>>
        <4>1. PICK x \in Int : x = s[e.vars[1]]
          <5>1. PICK v \in Vars : e.vars = <<v>>
            BY <3>2 DEF LinearElems
          <5> QED BY <5>1
        <4>2. MonoValue(e, s) = 0 * x
          BY <3>2, <4>1, <1>3, LinearValue
        <4> QED BY <4>1, <4>2
      <3> QED BY <3>1, <3>2
    <2> QED BY <1>1, <1>2, <2>1, <2>2
  <1>4. CASE e.co # 0 /\ IsConstant(e)
    <2>1. PICK q : q = [r EXCEPT !.rhs = @ - e.co]
      OBVIOUS
    <2>2. Visit(r, e) = q
      BY <1>4, <2>1 DEF Visit
    <2>3. /\ q \in [elems : Seq(LinearElems), rhs : Int]
          /\ q.elems = r.elems /\ q.rhs = r.rhs - e.co
      BY <1>1, <2>1
    <2>4. \A s \in [Vars -> Int] : MonoValue(e, s) = e.co
      BY <1>4, LinearValue DEF IsConstant
    <2>5. q \in Loops
      BY <2>3, <1>1 DEF Loops
    <2>6. ASSUME NEW s \in [Vars -> Int]
          PROVE  ElemsValue(q.elems, s) - q.rhs = (ElemsValue(r.elems, s) - r.rhs) + MonoValue(e, s)
      <3>1. PICK x \in Int : x = ElemsValue(r.elems, s)
        BY <1>2
      <3>2. ElemsValue(q.elems, s) = x /\ MonoValue(e, s) = e.co
        BY <2>3, <2>4, <3>1
      <3>3. x - (r.rhs - e.co) = (x - r.rhs) + e.co
        BY <1>1, <3>1
      <3> QED BY <2>3, <3>1, <3>2, <3>3
    <2> QED BY <1>4, <2>2, <2>5, <2>6
  <1>5. CASE e.co # 0 /\ ~IsConstant(e)
    <2>1. PICK q : q = [r EXCEPT !.elems = Combine(r.elems, e)]
      OBVIOUS
    <2>2. Visit(r, e) = q
      BY <1>5, <2>1 DEF Visit
    <2>3. /\ Combine(r.elems, e) \in Seq(LinearElems)
          /\ Once(Combine(r.elems, e)) /\ NoConstants(Combine(r.elems, e))
          /\ \A s \in [Vars -> Int] :
               ElemsValue(Combine(r.elems, e), s) = ElemsValue(r.elems, s) + MonoValue(e, s)
      BY <1>1, <1>5, CombineValue
    <2>4. PICK c : c = Combine(r.elems, e)
      OBVIOUS
    <2>5. /\ q \in [elems : Seq(LinearElems), rhs : Int]
          /\ q.elems = c /\ q.rhs = r.rhs
      BY <1>1, <2>1, <2>3, <2>4
    <2>6. q \in Loops
      BY <2>3, <2>4, <2>5 DEF Loops
    <2>7. ASSUME NEW s \in [Vars -> Int]
          PROVE  ElemsValue(q.elems, s) - q.rhs = (ElemsValue(r.elems, s) - r.rhs) + MonoValue(e, s)
      <3>1. PICK x, y \in Int : x = ElemsValue(r.elems, s) /\ y = MonoValue(e, s)
        BY <1>2
      <3>2. ElemsValue(q.elems, s) = x + y
        BY <2>3, <2>4, <2>5, <3>1
      <3>3. (x + y) - r.rhs = (x - r.rhs) + y
        BY <1>1, <3>1
      <3> QED BY <2>5, <3>1, <3>2, <3>3
    <2> QED BY <2>2, <2>5, <2>6, <2>7
  <1> QED BY <1>3, <1>4, <1>5

\* The loop of simplify, round by round.
LEMMA SimplifyRuns ==
  ASSUME NEW es \in Seq(LinearElems)
  PROVE  \E g \in [0 .. Len(es) -> Loops] :
           /\ g[0] = [elems |-> <<>>, rhs |-> 0]
           /\ \A n \in 1 .. Len(es) : g[n] = Visit(g[n - 1], es[n])
           /\ Simplify(es) = [elems |-> NonZeros(g[Len(es)].elems), rhs |-> g[Len(es)].rhs]
  <1> DEFINE start == [elems |-> <<>>, rhs |-> 0]
             Runs(g) == g = [n \in 0 .. Len(es) |-> IF n = 0 THEN start ELSE Visit(g[n - 1], es[n])]
             f == [n \in 1 .. Len(es) |-> [r \in Loops |-> Visit(r, es[n])]]
  <1>1. Len(es) \in Nat /\ \A n \in 1 .. Len(es) : es[n] \in LinearElems
    OBVIOUS
  <1>2. start \in Loops
    <2>1. start \in [elems : Seq(LinearElems), rhs : Int]
      OBVIOUS
    <2>2. Once(<<>>) /\ NoConstants(<<>>)
      BY DEF Once, NoConstants
    <2> QED BY <2>1, <2>2 DEF Loops
  <1>3. f \in [1 .. Len(es) -> [Loops -> Loops]]
    <2>1. \A n \in 1 .. Len(es), r \in Loops : Visit(r, es[n]) \in Loops
      BY <1>1, VisitValue
    <2> QED BY <2>1
  <1>4. \A n \in 1 .. Len(es), r \in Loops : f[n][r] = Visit(r, es[n])
    OBVIOUS
  <1> HIDE DEF start, f
  <1>5. PICK g0 \in [0 .. Len(es) -> Loops] : Iterates(Len(es), start, f, g0)
    BY <1>1, <1>2, <1>3, IterationExists
  <1>6. Runs(g0)
    <2>1. \A n \in 0 .. Len(es) : g0[n] = IF n = 0 THEN start ELSE f[n][g0[n - 1]]
      BY <1>5 DEF Iterates
    <2>2. ASSUME NEW n \in 0 .. Len(es)
          PROVE  g0[n] = IF n = 0 THEN start ELSE Visit(g0[n - 1], es[n])
      <3>1. CASE n = 0
        BY <3>1, <2>1
      <3>2. CASE n # 0
        <4>1. n \in 1 .. Len(es) /\ n - 1 \in 0 .. Len(es)
          BY <3>2, <1>1
        <4>2. g0[n - 1] \in Loops
          BY <4>1, <1>5
        <4> QED BY <3>2, <4>1, <4>2, <2>1, <1>4
      <3> QED BY <3>1, <3>2
    <2>3. g0 = [n \in 0 .. Len(es) |-> g0[n]]
      BY <1>5
    <2> QED BY <2>2, <2>3
  <1>7. PICK g : Runs(g) /\ Simplify(es) = [elems |-> NonZeros(g[Len(es)].elems), rhs |-> g[Len(es)].rhs]
    <2>1. Simplify(es) = [elems |-> NonZeros((CHOOSE g : Runs(g))[Len(es)].elems),
                          rhs |-> (CHOOSE g : Runs(g))[Len(es)].rhs]
      BY DEF Simplify, start
    <2> HIDE DEF Runs
    <2>2. Runs(CHOOSE g : Runs(g))
      BY <1>6
    <2> QED BY <2>1, <2>2
  <1>8. /\ DOMAIN g = 0 .. Len(es) /\ g[0] = start
        /\ \A n \in 1 .. Len(es) : g[n] = Visit(g[n - 1], es[n])
    <2>1. 0 \in 0 .. Len(es) /\ \A n \in 1 .. Len(es) : n \in 0 .. Len(es) /\ n # 0
      BY <1>1
    <2> QED BY <1>7, <2>1
  <1>9. \A n \in 0 .. Len(es) : g[n] \in Loops
    <2> DEFINE T == {n \in 0 .. Len(es) : g[n] \in Loops}
    <2>1. 0 \in T
      BY <1>1, <1>2, <1>8
    <2>2. \A n \in 1 .. Len(es) : n - 1 \in T => n \in T
      BY <1>1, <1>8, VisitValue
    <2> HIDE DEF T
    <2>3. \A n \in 0 .. Len(es) : n \in T
      BY <1>1, <2>1, <2>2, UpTo
    <2> QED BY <2>3 DEF T
  <1>10. g \in [0 .. Len(es) -> Loops]
    <2>1. g = [n \in 0 .. Len(es) |-> g[n]]
      BY <1>7
    <2> HIDE DEF Runs
    <2> QED BY <1>9, <2>1
  <1> QED BY <1>7, <1>8, <1>10 DEF start

\* Dropping zeros, one by one.
LEMMA NonZerosValue ==
  ASSUME NEW es \in Seq(LinearElems)
  PROVE  /\ NonZeros(es) \in Seq(LinearElems)
         /\ NoConstants(es) => NoConstants(NonZeros(es))
         /\ \A s \in [Vars -> Int] : ElemsValue(NonZeros(es), s) = ElemsValue(es, s)
  <1> DEFINE S == Seq(LinearElems)
             Next0(x, n) == IF es[n].co # 0 THEN Append(x, es[n]) ELSE x
             Runs(g) == g = [n \in 0 .. Len(es) |-> IF n = 0 THEN <<>>
                              ELSE IF es[n].co # 0 THEN Append(g[n - 1], es[n]) ELSE g[n - 1]]
             f == [n \in 1 .. Len(es) |-> [x \in S |-> Next0(x, n)]]
  <1>1. Len(es) \in Nat /\ \A n \in 1 .. Len(es) : es[n] \in LinearElems
    OBVIOUS
  <1>2. <<>> \in S
    OBVIOUS
  <1>3. \A n \in 1 .. Len(es), x \in S : Next0(x, n) \in S
    BY <1>1
  <1>4. f \in [1 .. Len(es) -> [S -> S]] /\ \A n \in 1 .. Len(es), x \in S : f[n][x] = Next0(x, n)
    <2> HIDE DEF Next0, S
    <2> QED BY <1>3
  <1>5. PICK g0 \in [0 .. Len(es) -> S] : Iterates(Len(es), <<>>, f, g0)
    <2> HIDE DEF f, S
    <2> QED BY <1>1, <1>2, <1>4, IterationExists
  <1>6. Runs(g0)
    <2> HIDE DEF f, S
    <2>1. \A n \in 0 .. Len(es) : g0[n] = IF n = 0 THEN <<>> ELSE f[n][g0[n - 1]]
      BY <1>5 DEF Iterates
    <2>2. ASSUME NEW n \in 0 .. Len(es)
          PROVE  g0[n] = IF n = 0 THEN <<>> ELSE Next0(g0[n - 1], n)
      <3> HIDE DEF Next0
      <3>1. CASE n = 0
        BY <3>1, <2>1
      <3>2. CASE n # 0
        <4>1. n \in 1 .. Len(es) /\ n - 1 \in 0 .. Len(es)
          BY <3>2, <1>1
        <4>2. g0[n - 1] \in S
          BY <4>1, <1>5
        <4> QED BY <3>2, <4>1, <4>2, <2>1, <1>4
      <3> QED BY <3>1, <3>2
    <2>3. g0 = [n \in 0 .. Len(es) |-> g0[n]]
      BY <1>5
    <2> QED BY <2>2, <2>3
  <1>7. PICK g : Runs(g) /\ NonZeros(es) = g[Len(es)]
    <2>1. NonZeros(es) = (CHOOSE g : Runs(g))[Len(es)]
      BY DEF NonZeros
    <2> HIDE DEF Runs
    <2>2. Runs(CHOOSE g : Runs(g))
      BY <1>6
    <2> QED BY <2>1, <2>2
  <1>8. /\ g[0] = <<>>
        /\ \A n \in 1 .. Len(es) : g[n] = Next0(g[n - 1], n)
    <2>1. 0 \in 0 .. Len(es) /\ \A n \in 1 .. Len(es) : n \in 0 .. Len(es) /\ n # 0
      BY <1>1
    <2> QED BY <1>7, <2>1
  <1> HIDE DEF Runs
  <1>9. \A n \in 0 .. Len(es) : g[n] \in S
    <2> DEFINE T == {n \in 0 .. Len(es) : g[n] \in S}
    <2> HIDE DEF Next0, S
    <2>1. 0 \in T
      BY <1>1, <1>2, <1>8
    <2>2. \A n \in 1 .. Len(es) : n - 1 \in T => n \in T
      BY <1>1, <1>3, <1>8
    <2> HIDE DEF T
    <2>3. \A n \in 0 .. Len(es) : n \in T
      BY <1>1, <2>1, <2>2, UpTo
    <2> QED BY <2>3 DEF T
  <1>10. ASSUME NEW s \in [Vars -> Int]
         PROVE  ElemsValue(g[Len(es)], s) = ElemsValue(es, s)
    <2>1. PICK t : t = TermValues(es, s)
      OBVIOUS
    <2>2. PICK p : p = PrefixSum(Len(es), t)
      OBVIOUS
    <2>3. /\ t \in [1 .. Len(es) -> Int] /\ \A n \in 1 .. Len(es) : t[n] = MonoValue(es[n], s)
          /\ ElemsValue(es, s) = p[Len(es)]
      BY <2>1, <2>2, TermValuesType DEF Sum
    <2>4. p \in [0 .. Len(es) -> Int] /\ p[0] = 0 /\ \A n \in 1 .. Len(es) : p[n] = p[n - 1] + t[n]
      BY <1>1, <2>2, <2>3, PrefixSumDef
    <2> DEFINE T == {n \in 0 .. Len(es) : ElemsValue(g[n], s) = p[n]}
    <2>5. 0 \in T
      BY <1>1, <1>8, <2>4, EmptyValue
    <2>6. ASSUME NEW n \in 1 .. Len(es), n - 1 \in T
          PROVE  n \in T
      <3>1. /\ n - 1 \in 0 .. Len(es) /\ n \in 0 .. Len(es) /\ g[n - 1] \in S
            /\ ElemsValue(g[n - 1], s) = p[n - 1]
        BY <1>1, <1>9, <2>6
      <3>2. /\ es[n] \in LinearElems /\ t[n] = MonoValue(es[n], s) /\ t[n] \in Int
            /\ p[n - 1] \in Int /\ p[n] = p[n - 1] + t[n] /\ g[n] = Next0(g[n - 1], n)
        <4> HIDE DEF Next0, T
        <4> QED BY <1>1, <1>8, <2>3, <2>4, <3>1
      <3>3. CASE es[n].co # 0
        <4>1. g[n] = Append(g[n - 1], es[n])
          BY <3>2, <3>3
        <4>2. ElemsValue(g[n], s) = ElemsValue(g[n - 1], s) + MonoValue(es[n], s)
          BY <4>1, <3>1, <3>2, AppendValue
        <4> QED BY <4>2, <3>1, <3>2
      <3>4. CASE es[n].co = 0
        <4>1. g[n] = g[n - 1]
          BY <3>2, <3>4
        <4>2. MonoValue(es[n], s) = 0
          <5>1. <<>> \in Seq(LinearElems) /\ Once(<<>>) /\ NoConstants(<<>>)
            BY DEF Once, NoConstants
          <5>2. [elems |-> <<>>, rhs |-> 0] \in Loops
            BY <5>1 DEF Loops
          <5>3. PICK r \in Loops : r = [elems |-> <<>>, rhs |-> 0]
            BY <5>2
          <5>4. Visit(r, es[n]) = r
            BY <3>4 DEF Visit
          <5>5. ElemsValue(r.elems, s) - r.rhs = (ElemsValue(r.elems, s) - r.rhs) + MonoValue(es[n], s)
            BY <5>4, <3>2, VisitValue
          <5>6. ElemsValue(r.elems, s) = 0 /\ r.rhs = 0
            BY <5>3, EmptyValue
          <5> QED BY <5>5, <5>6, <3>2
        <4> QED BY <4>1, <4>2, <3>1, <3>2
      <3> QED BY <3>3, <3>4
    <2> HIDE DEF T
    <2>7. \A n \in 0 .. Len(es) : n \in T
      BY <1>1, <2>5, <2>6, UpTo
    <2>8. Len(es) \in T
      BY <1>1, <2>7
    <2> QED BY <2>3, <2>8 DEF T
  <1>11. g[Len(es)] \in S
    BY <1>1, <1>9
  <1>12. ASSUME NoConstants(es)
         PROVE  NoConstants(g[Len(es)])
    <2> DEFINE T == {n \in 0 .. Len(es) : NoConstants(g[n])}
    <2>1. 0 \in T
      BY <1>1, <1>8 DEF NoConstants
    <2>2. ASSUME NEW n \in 1 .. Len(es), n - 1 \in T
          PROVE  n \in T
      <3>1. PICK x \in Seq(LinearElems) : x = g[n - 1] /\ NoConstants(x)
        BY <1>1, <1>9, <2>2
      <3>2. g[n] = Next0(x, n) /\ n \in 0 .. Len(es)
        BY <1>1, <1>8, <3>1
      <3>3. ~IsConstant(es[n])
        BY <1>12 DEF NoConstants
      <3>4. NoConstants(Append(x, es[n]))
        <4>1. PICK k \in Nat : k = Len(x) /\ DOMAIN x = 1 .. k
          BY <3>1
        <4>2. PICK y : y = Append(x, es[n])
          OBVIOUS
        <4>3. DOMAIN y = 1 .. k + 1 /\ y[k + 1] = es[n] /\ \A i \in 1 .. k : y[i] = x[i]
          BY <1>1, <3>1, <4>1, <4>2
        <4>4. \A i \in 1 .. k + 1 : i \in 1 .. k \/ i = k + 1
          BY <4>1
        <4>5. NoConstants(y)
          BY <3>1, <3>3, <4>1, <4>3, <4>4 DEF NoConstants
        <4> QED BY <4>2, <4>5
      <3> QED BY <3>1, <3>2, <3>4
    <2> HIDE DEF T
    <2>3. \A n \in 0 .. Len(es) : n \in T
      BY <1>1, <2>1, <2>2, UpTo
    <2> QED BY <1>1, <2>3 DEF T
  <1> QED BY <1>7, <1>10, <1>11, <1>12

\* simplify keeps the value, less the constants moved to the right hand side.
LEMMA SimplifyValue ==
  ASSUME NEW es \in Seq(LinearElems)
  PROVE  /\ Simplify(es) \in [elems : Seq(LinearElems), rhs : Int]
         /\ NoConstants(Simplify(es).elems)
         /\ \A s \in [Vars -> Int] :
              ElemsValue(Simplify(es).elems, s) - Simplify(es).rhs = ElemsValue(es, s)
  <1>0. Len(es) \in Nat /\ Len(es) \in 0 .. Len(es) /\ \A n \in 1 .. Len(es) : es[n] \in LinearElems
    OBVIOUS
  <1>1. PICK g \in [0 .. Len(es) -> Loops] :
           /\ g[0] = [elems |-> <<>>, rhs |-> 0]
           /\ \A n \in 1 .. Len(es) : g[n] = Visit(g[n - 1], es[n])
           /\ Simplify(es) = [elems |-> NonZeros(g[Len(es)].elems), rhs |-> g[Len(es)].rhs]
    BY SimplifyRuns
  <1>2. \A n \in 0 .. Len(es) : g[n] \in Loops /\ g[n].elems \in Seq(LinearElems)
                              /\ NoConstants(g[n].elems) /\ g[n].rhs \in Int
    BY <1>1 DEF Loops
  <1>3. /\ Simplify(es).elems = NonZeros(g[Len(es)].elems) /\ Simplify(es).rhs = g[Len(es)].rhs
        /\ Simplify(es) \in [elems : Seq(LinearElems), rhs : Int]
        /\ NoConstants(NonZeros(g[Len(es)].elems))
    <2>1. NonZeros(g[Len(es)].elems) \in Seq(LinearElems) /\ NoConstants(NonZeros(g[Len(es)].elems))
      BY <1>0, <1>2, NonZerosValue
    <2> QED BY <2>1, <1>0, <1>1, <1>2
  <1>4. ASSUME NEW s \in [Vars -> Int]
        PROVE  ElemsValue(Simplify(es).elems, s) - Simplify(es).rhs = ElemsValue(es, s)
    <2>1. PICK t : t = TermValues(es, s)
      OBVIOUS
    <2>2. PICK p : p = PrefixSum(Len(es), t)
      OBVIOUS
    <2>3. /\ t \in [1 .. Len(es) -> Int] /\ \A n \in 1 .. Len(es) : t[n] = MonoValue(es[n], s)
          /\ ElemsValue(es, s) = p[Len(es)]
      BY <2>1, <2>2, TermValuesType DEF Sum
    <2>4. p \in [0 .. Len(es) -> Int] /\ p[0] = 0 /\ \A n \in 1 .. Len(es) : p[n] = p[n - 1] + t[n]
      BY <1>0, <2>2, <2>3, PrefixSumDef
    <2> DEFINE Value(n) == ElemsValue(g[n].elems, s) - g[n].rhs
               T == {n \in 0 .. Len(es) : Value(n) = p[n]}
    <2>5. 0 \in T
      <3>1. g[0].elems = <<>> /\ g[0].rhs = 0 /\ ElemsValue(<<>>, s) = 0
        BY <1>1, EmptyValue
      <3>2. Value(0) = 0
        BY <3>1
      <3> QED BY <3>2, <1>0, <2>4
    <2>6. ASSUME NEW n \in 1 .. Len(es), n - 1 \in T
          PROVE  n \in T
      <3>1. n - 1 \in 0 .. Len(es) /\ n \in 0 .. Len(es) /\ Value(n - 1) = p[n - 1]
        BY <1>0, <2>6
      <3>2. es[n] \in LinearElems /\ g[n - 1] \in Loops /\ g[n] = Visit(g[n - 1], es[n])
        BY <3>1, <1>0, <1>1, <1>2
      <3>3. Value(n) = Value(n - 1) + MonoValue(es[n], s)
        <4>1. PICK r \in Loops : r = g[n - 1]
          BY <3>2
        <4>2. ElemsValue(Visit(r, es[n]).elems, s) - Visit(r, es[n]).rhs
                = (ElemsValue(r.elems, s) - r.rhs) + MonoValue(es[n], s)
          BY <3>2, <4>1, VisitValue
        <4>3. g[n] = Visit(r, es[n])
          BY <3>2, <4>1
        <4> QED BY <4>1, <4>2, <4>3
      <3>4. p[n] = p[n - 1] + t[n] /\ t[n] = MonoValue(es[n], s)
        BY <2>3, <2>4
      <3> QED BY <3>1, <3>3, <3>4
    <2> HIDE DEF T, Value
    <2>7. \A n \in 0 .. Len(es) : n \in T
      BY <1>0, <2>5, <2>6, UpTo
    <2>8. Value(Len(es)) = p[Len(es)]
      BY <1>0, <2>7 DEF T
    <2>9. ElemsValue(NonZeros(g[Len(es)].elems), s) = ElemsValue(g[Len(es)].elems, s)
      BY <1>0, <1>2, NonZerosValue
    <2> QED BY <1>3, <2>3, <2>8, <2>9 DEF Value
  <1> QED BY <1>3, <1>4

\* Without constants the value is zero where all variables are.
LEMMA ValueAtZero ==
  ASSUME NEW es \in Seq(LinearElems), NoConstants(es)
  PROVE  ElemsValue(es, [v \in Vars |-> 0]) = 0
  <1>1. PICK z \in [Vars -> Int] : z = [v \in Vars |-> 0]
    <2>1. [v \in Vars |-> 0] \in [Vars -> Int]
      OBVIOUS
    <2> QED BY <2>1
  <1>2. PICK t : t = TermValues(es, z)
    OBVIOUS
  <1>3. /\ t \in [1 .. Len(es) -> Int] /\ ElemsValue(es, z) = Sum(Len(es), t)
        /\ \A i \in 1 .. Len(es) : t[i] = MonoValue(es[i], z)
    BY <1>2, TermValuesType
  <1>4. ASSUME NEW i \in 1 .. Len(es)
        PROVE  t[i] = 0
    <2>1. PICK e \in LinearElems : e = es[i] /\ e.vars # <<>>
      BY DEF NoConstants, IsConstant
    <2>2. e.co \in Int /\ \E v \in Vars : e.vars = <<v>>
      BY <2>1 DEF LinearElems
    <2>3. z[e.vars[1]] = 0
      BY <1>1, <2>2
    <2>4. MonoValue(e, z) = e.co * 0
      BY <2>1, <2>3, LinearValue
    <2> QED BY <1>3, <2>1, <2>2, <2>4
  <1>5. Len(es) \in Nat
    OBVIOUS
  <1>6. Sum(Len(es), t) = 0
    BY <1>3, <1>4, <1>5, SumZero
  <1> QED BY <1>1, <1>3, <1>6

-----------------------------------------------------------------------------
(* The invariant.                                                          *)

Constraints == [elems : Seq(LinearElems), adjust : Int]

\* The types of the variables.
ObjectiveType ==
  /\ program \in Programs /\ step \in 0 .. Len(program)
  /\ solutions \in SUBSET [Vars -> Int]
  /\ con \in Constraints /\ stated \in Seq(LinearElems)
  /\ NoConstants(con.elems) /\ (step = 0 <=> con = None)
  /\ step = 0 => stated = <<>> /\ solutions = {}
  /\ bound \in Int /\ lock \in SUBSET SearchThreads
  /\ pc \in [SearchThreads -> {"search", "total", "model", "done"}]
  /\ cand \in [SearchThreads -> [Vars -> Int] \cup {<<>>}]
  /\ seen \in [SearchThreads -> Int]

\* The sum of the constraint is the objective up to its constants.
UpToConstants ==
  \E k \in Int : \A s \in [Vars -> Int] : SumOf(s) = ElemsValue(stated, s) + k

\* The cost is the objective less twice the constants whose sign was changed,
\* and adjust is what is left of the constants.
CostsExact ==
  step > 0 =>
    /\ \A s \in [Vars -> Int] :
         Cost(s) = ElemsValue(stated, s) - 2 * ConstantsBefore(step, 1)
    /\ con.adjust = ConstantsBefore(step, 1) - ConstantsBefore(step, 0)

\* The model lock and the threads that check or show a model.
LockHeld ==
  /\ \A t \in SearchThreads : pc[t] = "model" <=> t \in lock
  /\ \A t, u \in lock : t = u
  /\ \A t \in SearchThreads : pc[t] \in {"total", "model"} => cand[t] \in solutions

\* The shared bound is one below the cost of the model shown.
BoundOfShown ==
  \/ shown = <<>> /\ bound = NoBound
  \/ /\ bound # NoBound
     /\ \E a \in solutions : /\ shown = << [cost |-> Cost(a), at |-> a] >>
                             /\ bound = Cost(a) - 1

\* No thread is ahead of the shared bound, and a model that passed the check
\* under the lock still improves it.
BoundsFollow ==
  /\ \A t \in SearchThreads : seen[t] = NoBound \/ (bound # NoBound /\ seen[t] >= bound + con.adjust)
  /\ \A t \in SearchThreads : pc[t] = "model" /\ bound # NoBound => SumOf(cand[t]) <= bound + con.adjust

\* Threads end together, when nothing is left below the bound.
EndsTogether ==
  /\ (\E t \in SearchThreads : pc[t] = "done") => Done
  /\ Done => \A s \in solutions : bound # NoBound /\ SumOf(s) > bound + con.adjust

SearchInv == /\ ObjectiveType /\ CostsFit(con, solutions)
             /\ LockHeld /\ BoundOfShown /\ BoundsFollow /\ EndsTogether

-----------------------------------------------------------------------------
(* Preparing the constraint.                                               *)

\* Scaling keeps monomials linear.
LEMMA ScaledType ==
  ASSUME NEW es \in Seq(LinearElems), NEW k \in Int
  PROVE  /\ Scaled(es, k) \in Seq(LinearElems)
         /\ Len(Scaled(es, k)) = Len(es)
  <1>1. PICK n \in Nat : n = Len(es) /\ DOMAIN es = 1 .. n
    OBVIOUS
  <1>2. PICK as : as = Scaled(es, k)
    OBVIOUS
  <1>3. /\ DOMAIN as = 1 .. n /\ as = [i \in 1 .. n |-> as[i]]
        /\ \A i \in 1 .. n : as[i] = [co |-> k * es[i].co, vars |-> es[i].vars]
    BY <1>1, <1>2 DEF Scaled, Mono
  <1>4. ASSUME NEW i \in 1 .. n
        PROVE  as[i] \in LinearElems
    <2>1. es[i] \in LinearElems
      BY <1>1
    <2>2. es[i].co \in Int /\ es[i].vars \in {<<>>} \cup {<<v>> : v \in Vars}
      BY <2>1 DEF LinearElems
    <2>3. k * es[i].co \in Int
      BY <2>2
    <2>4. as[i] = [co |-> k * es[i].co, vars |-> es[i].vars]
      BY <1>3
    <2>5. [co |-> k * es[i].co, vars |-> es[i].vars] \in LinearElems
      BY <2>2, <2>3 DEF LinearElems
    <2> QED BY <2>4, <2>5
  <1>5. as \in [1 .. n -> LinearElems]
    BY <1>3, <1>4
  <1>6. as \in Seq(LinearElems)
    BY <1>1, <1>5, SeqDef, Zenon
  <1>7. Len(as) = n
    <2>1. PICK m \in Nat : m = Len(as) /\ 1 .. m = 1 .. n
      BY <1>3, <1>6, LenProperties
    <2>0. n \in Nat /\ m \in Nat /\ 1 .. m = 1 .. n
      BY <2>1
    <2>2. (m > 0 => m \in 1 .. n) /\ (n > 0 => n \in 1 .. m)
      <3>1. \A i \in Nat : i > 0 => i \in 1 .. i
        OBVIOUS
      <3> QED BY <2>0, <3>1
    <2>3. m = n
      BY <2>2
    <2> QED BY <2>1, <2>3
  <1> QED BY <1>1, <1>2, <1>6, <1>7

\* The cost of the new constraint is the value of the new elements and the
\* elements of the old one, with its adjust as a constant.
LEMMA PrepareValue ==
  ASSUME NoBound \in Int, NEW old \in Constraints, NEW new \in Seq(LinearElems),
         NEW c, c = PrepareMinimize(old, new), c # None
  PROVE  /\ c \in Constraints
         /\ \A s \in [Vars -> Int] :
              ElemsValue(c.elems, s) - c.adjust
                = ElemsValue(new, s)
                  + (IF old = None THEN 0 ELSE ElemsValue(old.elems, s) + old.adjust)
         /\ NoConstants(c.elems)
  <1> DEFINE es == new \o OldElems(old)
             m == Mono(old.adjust, <<>>)
  <1>1. old.elems \in Seq(LinearElems) /\ old.adjust \in Int
    BY DEF Constraints
  <1>2. m \in LinearElems /\ <<m>> \in Seq(LinearElems) /\ m.co = old.adjust /\ m.vars = <<>>
    <2>1. m \in LinearElems /\ m.co = old.adjust /\ m.vars = <<>>
      BY <1>1 DEF Mono, LinearElems
    <2> HIDE DEF m
    <2> QED BY <2>1
  <1> HIDE DEF m
  <1>3. OldElems(old) = IF old = None THEN <<>> ELSE old.elems \o <<m>>
    BY DEF OldElems, m
  <1>4. OldElems(old) \in Seq(LinearElems)
    BY <1>1, <1>2, <1>3
  <1>5. es \in Seq(LinearElems)
    BY <1>4
  <1>6. c = [elems |-> Simplify(es).elems, adjust |-> Simplify(es).rhs]
    BY DEF PrepareMinimize
  <1>7. \A s \in [Vars -> Int] :
          ElemsValue(es, s) = ElemsValue(new, s)
             + (IF old = None THEN 0 ELSE ElemsValue(old.elems, s) + old.adjust)
    <2> SUFFICES ASSUME NEW s \in [Vars -> Int]
                 PROVE  ElemsValue(es, s) = ElemsValue(new, s)
                          + (IF old = None THEN 0 ELSE ElemsValue(old.elems, s) + old.adjust)
      OBVIOUS
    <2>1. ElemsValue(es, s) = ElemsValue(new, s) + ElemsValue(OldElems(old), s)
      BY <1>4, ConcatValue
    <2>2. CASE old = None
      <3>1. ElemsValue(OldElems(old), s) = 0
        BY <2>2, <1>3, EmptyValue
      <3> QED BY <2>1, <2>2, <3>1
    <2>3. CASE old # None
      <3>1. OldElems(old) = old.elems \o <<m>>
        BY <2>3, <1>3
      <3>2. ElemsValue(old.elems \o <<m>>, s) = ElemsValue(old.elems, s) + ElemsValue(<<m>>, s)
        BY <1>1, <1>2, ConcatValue
      <3>3. ElemsValue(<<m>>, s) = MonoValue(m, s)
        <4>1. <<>> \in Seq(LinearElems) /\ Append(<<>>, m) = <<m>>
          BY <1>2
        <4>2. ElemsValue(Append(<<>>, m), s) = ElemsValue(<<>>, s) + MonoValue(m, s)
          BY <4>1, <1>2, AppendValue
        <4>3. ElemsValue(<<>>, s) = 0 /\ MonoValue(m, s) \in Int
          BY <1>2, EmptyValue, LinearValue
        <4> QED BY <4>1, <4>2, <4>3
      <3>4. MonoValue(m, s) = old.adjust
        BY <1>2, LinearValue
      <3> QED BY <2>1, <2>3, <3>1, <3>2, <3>3, <3>4
    <2> QED BY <2>2, <2>3
  <1> HIDE DEF es
  <1>8. PICK r : r = Simplify(es)
    OBVIOUS
  <1>9. /\ r \in [elems : Seq(LinearElems), rhs : Int] /\ NoConstants(r.elems)
         /\ \A s \in [Vars -> Int] : ElemsValue(r.elems, s) - r.rhs = ElemsValue(es, s)
    BY <1>5, <1>8, SimplifyValue
  <1>10. c.elems = r.elems /\ c.adjust = r.rhs /\ c \in Constraints
    BY <1>6, <1>8, <1>9 DEF Constraints
  <1> QED BY <1>7, <1>9, <1>10

-----------------------------------------------------------------------------
(* The invariant is inductive.                                             *)

DataInv == ObjectiveType /\ UpToConstants
ExactInv == ObjectiveType /\ CostsExact

\* The numbers the search compares.
LEMMA SumsAreInts ==
  ASSUME ObjectiveType
  PROVE  /\ con.adjust \in Int
         /\ \A s \in [Vars -> Int] : SumOf(s) \in Int /\ Cost(s) = SumOf(s) - con.adjust
         /\ \A s \in solutions : s \in [Vars -> Int] /\ SumOf(s) \in Int
  <1>1. con.elems \in Seq(LinearElems) /\ con.adjust \in Int
    BY DEF ObjectiveType, Constraints
  <1>2. \A s \in [Vars -> Int] : SumOf(s) \in Int
    BY <1>1, TermValuesType DEF SumOf
  <1>3. \A s \in solutions : s \in [Vars -> Int]
    BY DEF ObjectiveType
  <1> QED BY <1>1, <1>2, <1>3 DEF Cost

\* Initially there is no objective and nothing to search.
LEMMA ObjectiveInitOk ==
  ASSUME ObjectiveAssumption, ObjectiveInit
  PROVE  SearchInv /\ UpToConstants /\ CostsExact
  <1>1. program \in Programs /\ program \in Seq(Statements) /\ NoBound \in Int
    BY DEF ObjectiveInit, ObjectiveAssumption
  <1>2. <<>> \in Seq(LinearElems) /\ 0 \in 0 .. Len(program)
    BY <1>1
  <1>3. None \in Constraints /\ None.elems = <<>> /\ None.adjust = NoBound
    BY <1>1, <1>2 DEF None, Constraints
  <1>4. ObjectiveType
    <2>1. NoConstants(con.elems)
      BY <1>3 DEF ObjectiveInit, NoConstants
    <2> QED BY <1>1, <1>2, <1>3, <2>1 DEF ObjectiveInit, ObjectiveType
  <1>5. CostsFit(con, solutions) /\ LockHeld /\ BoundOfShown /\ BoundsFollow /\ EndsTogether
    <2>1. CostsFit(con, solutions)
      BY DEF ObjectiveInit, CostsFit
    <2>2. LockHeld
      BY DEF ObjectiveInit, LockHeld
    <2>3. BoundOfShown
      BY DEF ObjectiveInit, BoundOfShown
    <2>4. BoundsFollow
      BY DEF ObjectiveInit, BoundsFollow
    <2>5. EndsTogether
      BY DEF ObjectiveInit, EndsTogether, Done
    <2> QED BY <2>1, <2>2, <2>3, <2>4, <2>5
  <1>6. UpToConstants
    <2>1. \A s \in [Vars -> Int] : SumOf(s) = 0 /\ ElemsValue(stated, s) = 0
      BY <1>3, EmptyValue DEF ObjectiveInit, SumOf
    <2> QED BY <2>1 DEF UpToConstants
  <1>7. CostsExact
    BY DEF ObjectiveInit, CostsExact
  <1> QED BY <1>4, <1>5, <1>6, <1>7 DEF SearchInv

\* Types in a step that begins.
LEMMA BeginType ==
  ASSUME ObjectiveAssumption, ObjectiveType, BeginStep
  PROVE  /\ ObjectiveType'
         /\ step' = step + 1 /\ step' \in 1 .. Len(program) /\ program' = program
         /\ program[step + 1] \in Statements
         /\ LET new == Scaled(program[step + 1].elems, program[step + 1].factor)
            IN  /\ new \in Seq(LinearElems)
                /\ stated' = stated \o new
                /\ con' = PrepareMinimize(con, new) /\ con' # None
  <1>1. /\ program \in Programs /\ program \in Seq(Statements) /\ NoBound \in Int
        /\ step \in 0 .. Len(program) /\ step < Len(program) /\ step + 1 \in 1 .. Len(program)
        /\ Len(program) \in Nat /\ DOMAIN program = 1 .. Len(program)
    BY DEF ObjectiveAssumption, ObjectiveType, BeginStep
  <1>2. PICK p : p = program[step + 1]
    OBVIOUS
  <1>3. p \in Statements
    BY <1>1, <1>2
  <1>4. /\ p.factor \in Int /\ p.elems \in Seq(LinearElems) /\ p.solutions \in SUBSET [Vars -> Int]
    BY <1>3 DEF Statements
  <1>5. PICK new : new = Scaled(p.elems, p.factor)
    OBVIOUS
  <1>6. /\ con' = PrepareMinimize(con, new) /\ con' # None /\ stated' = stated \o new
        /\ solutions' = p.solutions /\ step' = step + 1 /\ program' = program
        /\ bound' = NoBound /\ lock' = lock
        /\ seen' = [t \in SearchThreads |-> NoBound] /\ pc' = [t \in SearchThreads |-> "search"]
        /\ cand' = [t \in SearchThreads |-> <<>>]
    BY <1>2, <1>5 DEF BeginStep
  <1>7. new \in Seq(LinearElems)
    BY <1>4, <1>5, ScaledType
  <1>8. con' \in Constraints /\ NoConstants(con'.elems)
    <2>1. con \in Constraints
      BY DEF ObjectiveType
    <2>2. PICK c : c = con'
      OBVIOUS
    <2>3. c \in Constraints /\ NoConstants(c.elems)
      BY <1>1, <1>6, <1>7, <2>1, <2>2, PrepareValue
    <2> QED BY <2>2, <2>3
  <1>9. stated' \in Seq(LinearElems)
    BY <1>6, <1>7 DEF ObjectiveType
  <1>10. ObjectiveType'
    <2>1. step' # 0 /\ step' \in 0 .. Len(program')
      BY <1>1, <1>6
    <2>2. /\ program' \in Programs /\ solutions' \in SUBSET [Vars -> Int]
          /\ bound' \in Int /\ lock' \in SUBSET SearchThreads
          /\ pc' \in [SearchThreads -> {"search", "total", "model", "done"}]
          /\ cand' \in [SearchThreads -> [Vars -> Int] \cup {<<>>}]
          /\ seen' \in [SearchThreads -> Int]
      BY <1>1, <1>4, <1>6 DEF ObjectiveType
    <2> QED BY <1>6, <1>8, <1>9, <2>1, <2>2 DEF ObjectiveType
  <1> QED BY <1>1, <1>2, <1>3, <1>5, <1>6, <1>7, <1>10

\* The value of the constraint after a step has begun.
LEMMA BeginValue ==
  ASSUME ObjectiveAssumption, ObjectiveType, BeginStep, NEW s \in [Vars -> Int]
  PROVE  LET new == Scaled(program[step + 1].elems, program[step + 1].factor)
         IN  /\ con'.adjust \in Int /\ ElemsValue(new, s) \in Int
             /\ ElemsValue(con'.elems, s) - con'.adjust
                  = ElemsValue(new, s) + (IF con = None THEN 0 ELSE SumOf(s) + con.adjust)
             /\ ElemsValue(stated', s) = ElemsValue(stated, s) + ElemsValue(new, s)
  <1>1. PICK new : new = Scaled(program[step + 1].elems, program[step + 1].factor)
    OBVIOUS
  <1>2. /\ new \in Seq(LinearElems) /\ stated' = stated \o new
        /\ con' = PrepareMinimize(con, new) /\ con' # None /\ ObjectiveType'
    BY <1>1, BeginType
  <1>3. /\ con \in Constraints /\ stated \in Seq(LinearElems) /\ NoBound \in Int
    BY DEF ObjectiveType, ObjectiveAssumption
  <1>4. PICK c : c = con'
    OBVIOUS
  <1>5. /\ c \in Constraints
        /\ ElemsValue(c.elems, s) - c.adjust
             = ElemsValue(new, s) + (IF con = None THEN 0 ELSE ElemsValue(con.elems, s) + con.adjust)
    BY <1>2, <1>3, <1>4, PrepareValue
  <1>6. ElemsValue(stated', s) = ElemsValue(stated, s) + ElemsValue(new, s)
    BY <1>2, <1>3, ConcatValue
  <1>7. ElemsValue(new, s) \in Int /\ c.adjust \in Int
    BY <1>2, <1>5, TermValuesType DEF Constraints
  <1> QED BY <1>1, <1>3, <1>4, <1>5, <1>6, <1>7 DEF SumOf

\* The sum changes by constants only.
LEMMA BeginUpToConstants ==
  ASSUME ObjectiveAssumption, ObjectiveType, UpToConstants, BeginStep
  PROVE  UpToConstants'
  <1>1. PICK k \in Int : \A s \in [Vars -> Int] : SumOf(s) = ElemsValue(stated, s) + k
    BY DEF UpToConstants
  <1>2. PICK new : new = Scaled(program[step + 1].elems, program[step + 1].factor)
    OBVIOUS
  <1>3. con.adjust \in Int /\ con'.adjust \in Int /\ stated \in Seq(LinearElems)
        /\ (con = None => stated = <<>>) /\ ObjectiveType'
    BY BeginType DEF ObjectiveType, Constraints
  <1>4. PICK j \in Int : j = con'.adjust + (IF con = None THEN 0 ELSE k + con.adjust)
    BY <1>3
  <1>5. ASSUME NEW s \in [Vars -> Int]
        PROVE  ElemsValue(con'.elems, s) = ElemsValue(stated', s) + j
    <2>1. PICK a, d \in Int : a = con.adjust /\ d = con'.adjust
      BY <1>3
    <2>2. /\ ElemsValue(con'.elems, s) - d
               = ElemsValue(new, s) + (IF con = None THEN 0 ELSE SumOf(s) + a)
          /\ ElemsValue(stated', s) = ElemsValue(stated, s) + ElemsValue(new, s)
      BY <1>2, <2>1, BeginValue
    <2>3. ElemsValue(con'.elems, s) \in Int
      <3>1. con'.elems \in Seq(LinearElems)
        BY <1>3 DEF ObjectiveType, Constraints
      <3> QED BY <3>1, TermValuesType
    <2>4. ElemsValue(stated, s) \in Int /\ ElemsValue(new, s) \in Int
      BY <1>2, <1>3, TermValuesType, BeginValue
    <2>5. SumOf(s) = ElemsValue(stated, s) + k
      BY <1>1
    <2>6. CASE con = None
      <3>1. ElemsValue(stated, s) = 0
        BY <2>6, <1>3, EmptyValue
      <3> QED BY <2>1, <2>2, <2>3, <2>4, <2>6, <3>1, <1>4
    <2>7. CASE con # None
      <3>1. PICK x, y, z \in Int : /\ x = ElemsValue(con'.elems, s)
                                   /\ y = ElemsValue(stated, s) /\ z = ElemsValue(new, s)
        BY <2>3, <2>4
      <3>2. x - d = z + ((y + k) + a) /\ j = d + (k + a) /\ ElemsValue(stated', s) = y + z
        BY <2>1, <2>2, <2>5, <2>7, <3>1, <1>4
      <3>3. x = (y + z) + j
        BY <3>2
      <3> QED BY <3>1, <3>2, <3>3
    <2> QED BY <2>6, <2>7
  <1> QED BY <1>5 DEF UpToConstants, SumOf

\* What is a constant of one parity was one of the other a step before.
LEMMA ConstantsShift ==
  ASSUME ObjectiveAssumption, program \in Programs, NEW n \in Nat, n + 1 <= Len(program)
  PROVE  /\ ConstantOf(n + 1) \in Int
         /\ ConstantsBefore(n, 0) \in Int /\ ConstantsBefore(n, 1) \in Int
         /\ ConstantsBefore(n + 1, 1) = ConstantsBefore(n, 0)
         /\ ConstantsBefore(n + 1, 0) = ConstantsBefore(n, 1) + ConstantOf(n + 1)
  <1> DEFINE B(m, parity) == [k \in 1 .. m |-> IF (m - k) % 2 = parity THEN ConstantOf(k) ELSE 0]
  <1>1. ASSUME NEW k \in 1 .. n + 1
        PROVE  ConstantOf(k) \in Int
    <2>1. program \in Seq(Statements) /\ k \in 1 .. Len(program)
      BY DEF ObjectiveAssumption
    <2>2. PICK p \in Statements : p = program[k]
      BY <2>1
    <2>3. p.elems \in Seq(LinearElems) /\ p.factor \in Int
      BY DEF Statements
    <2>4. PICK es \in Seq(LinearElems) : es = Scaled(p.elems, p.factor)
      BY <2>3, ScaledType
    <2>5. [v \in Vars |-> 0] \in [Vars -> Int]
      OBVIOUS
    <2>6. ElemsValue(es, [v \in Vars |-> 0]) \in Int
      BY <2>5, TermValuesType
    <2> QED BY <2>2, <2>4, <2>6 DEF ConstantOf
  <1>2. \A parity \in {0, 1} : /\ B(n, parity) \in [1 .. n -> Int]
                               /\ B(n + 1, parity) \in [1 .. n + 1 -> Int]
    <2>1. \A k \in 1 .. n : k \in 1 .. n + 1
      OBVIOUS
    <2> QED BY <1>1, <2>1
  <1>3. \A k \in 1 .. n : /\ ((n + 1) - k) % 2 = 1 <=> (n - k) % 2 = 0
                          /\ ((n + 1) - k) % 2 = 0 <=> (n - k) % 2 = 1
    <2>1. \A d \in Nat : /\ (d + 1) % 2 = 1 <=> d % 2 = 0
                        /\ (d + 1) % 2 = 0 <=> d % 2 = 1
      OBVIOUS
    <2>2. \A k \in 1 .. n : n - k \in Nat /\ (n + 1) - k = (n - k) + 1
      OBVIOUS
    <2> QED BY <2>1, <2>2
  <1>4. /\ \A k \in 1 .. n : B(n + 1, 1)[k] = B(n, 0)[k] /\ B(n + 1, 0)[k] = B(n, 1)[k]
        /\ B(n + 1, 1)[n + 1] = 0 /\ B(n + 1, 0)[n + 1] = ConstantOf(n + 1)
    <2>1. n + 1 \in 1 .. n + 1 /\ ((n + 1) - (n + 1)) % 2 = 0
      OBVIOUS
    <2>2. \A k \in 1 .. n : k \in 1 .. n + 1
      OBVIOUS
    <2> QED BY <1>3, <2>1, <2>2
  <1>5. \A m \in Nat, parity \in {0, 1} : ConstantsBefore(m, parity) = Sum(m, B(m, parity))
    BY DEF ConstantsBefore
  <1> HIDE DEF B
  <1>6. /\ Sum(n + 1, B(n + 1, 1)) = Sum(n, B(n, 0)) + B(n + 1, 1)[n + 1]
        /\ Sum(n + 1, B(n + 1, 0)) = Sum(n, B(n, 1)) + B(n + 1, 0)[n + 1]
    BY <1>2, <1>4, SumLast
  <1>7. Sum(n, B(n, 0)) \in Int /\ Sum(n, B(n, 1)) \in Int
    BY <1>2, SumType
  <1>8. ConstantOf(n + 1) \in Int /\ n + 1 \in Nat
    BY <1>1
  <1> QED BY <1>4, <1>5, <1>6, <1>7, <1>8

\* Nothing was stated before the first step.
LEMMA ConstantsNone ==
  ConstantsBefore(0, 0) = 0 /\ ConstantsBefore(0, 1) = 0
  <1> DEFINE B(parity) == [k \in 1 .. 0 |-> IF (0 - k) % 2 = parity THEN ConstantOf(k) ELSE 0]
  <1>1. \A parity \in {0, 1} : B(parity) \in [1 .. 0 -> Int]
    OBVIOUS
  <1>2. ConstantsBefore(0, 0) = Sum(0, B(0)) /\ ConstantsBefore(0, 1) = Sum(0, B(1))
    BY DEF ConstantsBefore
  <1> HIDE DEF B
  <1> QED BY <1>1, <1>2, SumEmpty

\* The step that begins adds its constant to those of even distance, and all
\* others change sides.
LEMMA BeginCostsExact ==
  ASSUME ObjectiveAssumption, ObjectiveType, CostsExact, BeginStep
  PROVE  CostsExact'
  <1>1. PICK new : new = Scaled(program[step + 1].elems, program[step + 1].factor)
    OBVIOUS
  <1>2. /\ con.adjust \in Int /\ con'.adjust \in Int /\ stated \in Seq(LinearElems)
        /\ con.elems \in Seq(LinearElems) /\ con'.elems \in Seq(LinearElems)
        /\ NoConstants(con.elems) /\ NoConstants(con'.elems)
        /\ (con = None => stated = <<>>) /\ (con = None <=> step = 0) /\ ObjectiveType'
        /\ step' = step + 1 /\ program' = program /\ step \in Nat /\ step + 1 <= Len(program)
    <2>1. program \in Seq(Statements) /\ step \in 0 .. Len(program)
      BY DEF ObjectiveType, ObjectiveAssumption
    <2>2. step \in Nat /\ step + 1 <= Len(program)
      BY <2>1 DEF BeginStep
    <2> QED BY <1>1, <2>2, BeginType DEF ObjectiveType, Constraints
  <1>3. PICK c, even, odd \in Int : /\ c = ConstantOf(step + 1)
                                    /\ even = ConstantsBefore(step, 0)
                                    /\ odd = ConstantsBefore(step, 1)
                                    /\ ConstantsBefore(step + 1, 1) = even
                                    /\ ConstantsBefore(step + 1, 0) = odd + c
    BY <1>2, ConstantsShift DEF ObjectiveType
  <1>4. ConstantsBefore(step, 1)' = even /\ ConstantsBefore(step, 0)' = odd + c
    BY <1>2, <1>3 DEF ConstantsBefore, ConstantOf
  <1>5. IF con = None THEN even = 0 /\ odd = 0
        ELSE /\ con.adjust = odd - even
             /\ \A s \in [Vars -> Int] : SumOf(s) - con.adjust = ElemsValue(stated, s) - 2 * odd
    BY <1>2, <1>3, ConstantsNone DEF CostsExact, Cost
  <1>6. con'.adjust = even - (odd + c)
    <2>1. PICK z \in [Vars -> Int] : z = [v \in Vars |-> 0]
      <3>1. [v \in Vars |-> 0] \in [Vars -> Int]
        OBVIOUS
      <3> QED BY <3>1
    <2>2. ElemsValue(con'.elems, z) = 0 /\ SumOf(z) = 0 /\ ElemsValue(new, z) = c
      BY <1>1, <1>2, <1>3, <2>1, ValueAtZero DEF SumOf, ConstantOf
    <2>3. 0 - con'.adjust = c + (IF con = None THEN 0 ELSE 0 + con.adjust)
      BY <1>1, <2>2, BeginValue
    <2>0. PICK d \in Int : d = con'.adjust
      BY <1>2
    <2>4. CASE con = None
      <3>1. even = 0 /\ odd = 0 /\ 0 - d = c + 0
        BY <2>0, <2>3, <2>4, <1>5
      <3>2. d = even - (odd + c)
        BY <3>1
      <3> QED BY <2>0, <3>2
    <2>5. CASE con # None
      <3>1. 0 - d = c + (0 + (odd - even))
        BY <2>0, <2>3, <2>5, <1>5
      <3>2. d = even - (odd + c)
        BY <3>1
      <3> QED BY <2>0, <3>2
    <2> QED BY <2>4, <2>5
  <1>7. ASSUME NEW s \in [Vars -> Int]
        PROVE  ElemsValue(con'.elems, s) - con'.adjust = ElemsValue(stated', s) - 2 * even
    <2>1. /\ ElemsValue(con'.elems, s) - con'.adjust
               = ElemsValue(new, s) + (IF con = None THEN 0 ELSE SumOf(s) + con.adjust)
          /\ ElemsValue(stated', s) = ElemsValue(stated, s) + ElemsValue(new, s)
          /\ ElemsValue(new, s) \in Int
      BY <1>1, BeginValue
    <2>2. ElemsValue(stated, s) \in Int /\ SumOf(s) \in Int
      BY <1>2, TermValuesType, SumsAreInts
    <2>3. CASE con = None
      <3>1. ElemsValue(stated, s) = 0 /\ even = 0
        BY <2>3, <1>2, <1>5, EmptyValue
      <3> QED BY <2>1, <2>3, <3>1
    <2>4. CASE con # None
      <3>1. con.adjust = odd - even /\ SumOf(s) - con.adjust = ElemsValue(stated, s) - 2 * odd
        BY <2>4, <1>5
      <3>2. PICK x, y, n \in Int : x = SumOf(s) /\ y = ElemsValue(stated, s) /\ n = ElemsValue(new, s)
        BY <2>1, <2>2
      <3>3. x - (odd - even) = y - 2 * odd
        BY <3>1, <3>2
      <3>4. n + (x + (odd - even)) = (y + n) - 2 * even
        BY <3>3
      <3> QED BY <2>1, <2>4, <3>1, <3>2, <3>4
    <2> QED BY <2>3, <2>4
  <1> QED BY <1>4, <1>6, <1>7 DEF CostsExact, Cost, SumOf

\* A step begins without locks and bounds.
LEMMA BeginSearches ==
  ASSUME ObjectiveAssumption, SearchInv, BeginStep
  PROVE  SearchInv'
  <1>1. ObjectiveType'
    BY BeginType DEF SearchInv
  <1>2. /\ pc' = [t \in SearchThreads |-> "search"] /\ seen' = [t \in SearchThreads |-> NoBound]
        /\ bound' = NoBound /\ shown' = <<>> /\ lock' = lock /\ Done
        /\ CostsFit(con', solutions')
    BY DEF BeginStep
  <1>3. lock = {}
    BY <1>2 DEF SearchInv, ObjectiveType, LockHeld, Done
  <1>4. LockHeld'
    BY <1>2, <1>3 DEF LockHeld
  <1>5. BoundOfShown'
    BY <1>2 DEF BoundOfShown
  <1>6. BoundsFollow'
    BY <1>2 DEF BoundsFollow
  <1>7. EndsTogether'
    <2>1. ~(\E t \in SearchThreads : pc'[t] = "done") /\ SearchThreads # {}
      BY <1>2 DEF ObjectiveAssumption
    <2>2. ~Done'
      BY <2>1 DEF Done
    <2> QED BY <2>1, <2>2 DEF EndsTogether
  <1> QED BY <1>1, <1>2, <1>4, <1>5, <1>6, <1>7 DEF SearchInv

\* The numbers of a step do not change while it is searched.
LEMMA SearchKeeps ==
  ASSUME UNCHANGED shared, ObjectiveType
  PROVE  /\ con' = con /\ solutions' = solutions
         /\ program' = program /\ step' = step /\ stated' = stated
         /\ \A s : SumOf(s)' = SumOf(s) /\ Cost(s)' = Cost(s)
         /\ CostsFit(con, solutions) => CostsFit(con, solutions)'
         /\ con.adjust \in Int
  <1>1. con' = con /\ solutions' = solutions /\ program' = program /\ step' = step /\ stated' = stated
    BY DEF shared
  <1>2. con.adjust \in Int
    BY SumsAreInts
  <1> QED BY <1>1, <1>2 DEF SumOf, Cost, CostsFit

\* What a thread integrates is its bound or the shared one, whichever is less.
LEMMA IntegratedValue ==
  ASSUME ObjectiveAssumption, ObjectiveType, BoundsFollow, NEW t \in SearchThreads
  PROVE  /\ Integrated(t) \in Int /\ Integrated(t) <= seen[t]
         /\ Integrated(t) = NoBound \/ (bound # NoBound /\ Integrated(t) >= bound + con.adjust)
         /\ bound # NoBound => Integrated(t) <= bound + con.adjust
  <1>1. /\ bound \in Int /\ seen[t] \in Int /\ con.adjust \in Int /\ NoBound \in Int
        /\ seen[t] = NoBound \/ (bound # NoBound /\ seen[t] >= bound + con.adjust)
    BY SumsAreInts DEF ObjectiveType, BoundsFollow, ObjectiveAssumption
  <1>2. PICK n \in Int : n = bound + con.adjust
    BY <1>1
  <1>3. Integrated(t) = IF bound = NoBound \/ n >= seen[t] THEN seen[t] ELSE n
    BY <1>2 DEF Integrated
  <1> QED BY <1>1, <1>2, <1>3

\* Integrating the shared bound.
LEMMA CheckSearches ==
  ASSUME ObjectiveAssumption, SearchInv, NEW t \in SearchThreads, Check(t)
  PROVE  SearchInv'
  <1>1. /\ ObjectiveType /\ CostsFit(con, solutions) /\ LockHeld /\ BoundOfShown
        /\ BoundsFollow /\ EndsTogether
    BY DEF SearchInv
  <1>2. /\ UNCHANGED shared /\ bound' = bound /\ lock' = lock /\ pc' = pc /\ cand' = cand
        /\ shown' = shown /\ seen' = [seen EXCEPT ![t] = Integrated(t)]
    BY DEF Check
  <1>3. /\ con' = con /\ solutions' = solutions
        /\ program' = program /\ step' = step /\ stated' = stated
        /\ \A s : SumOf(s)' = SumOf(s) /\ Cost(s)' = Cost(s)
        /\ CostsFit(con, solutions)'
    BY <1>1, <1>2, SearchKeeps
  <1>4. /\ Integrated(t) \in Int
        /\ Integrated(t) = NoBound \/ (bound # NoBound /\ Integrated(t) >= bound + con.adjust)
    BY <1>1, IntegratedValue
  <1>5. seen' \in [SearchThreads -> Int] /\ seen'[t] = Integrated(t) /\ \A u \in SearchThreads : u # t => seen'[u] = seen[u]
    BY <1>1, <1>2, <1>4 DEF ObjectiveType
  <1>6. ObjectiveType'
    BY <1>1, <1>2, <1>3, <1>5 DEF ObjectiveType, NoConstants
  <1>7. LockHeld' /\ EndsTogether'
    BY <1>1, <1>2, <1>3 DEF LockHeld, EndsTogether, Done
  <1>8. BoundOfShown'
    BY <1>1, <1>2, <1>3 DEF BoundOfShown
  <1>9. BoundsFollow'
    BY <1>1, <1>2, <1>3, <1>4, <1>5 DEF BoundsFollow
  <1> QED BY <1>3, <1>6, <1>7, <1>8, <1>9 DEF SearchInv

\* A total assignment is found.
LEMMA FindSearches ==
  ASSUME ObjectiveAssumption, SearchInv, NEW t \in SearchThreads, FindTotal(t)
  PROVE  SearchInv'
  <1>1. /\ ObjectiveType /\ CostsFit(con, solutions) /\ LockHeld /\ BoundOfShown
        /\ BoundsFollow /\ EndsTogether
    BY DEF SearchInv
  <1>2. PICK s \in solutions : cand' = [cand EXCEPT ![t] = s]
    BY DEF FindTotal
  <1>3. /\ UNCHANGED shared /\ bound' = bound /\ lock' = lock /\ seen' = seen /\ shown' = shown
        /\ pc[t] = "search" /\ pc' = [pc EXCEPT ![t] = "total"]
    BY DEF FindTotal
  <1>4. /\ con' = con /\ solutions' = solutions
        /\ program' = program /\ step' = step /\ stated' = stated
        /\ \A a : SumOf(a)' = SumOf(a) /\ Cost(a)' = Cost(a)
        /\ CostsFit(con, solutions)'
    BY <1>1, <1>3, SearchKeeps
  <1>5. /\ s \in [Vars -> Int]
        /\ cand' \in [SearchThreads -> [Vars -> Int] \cup {<<>>}] /\ cand'[t] = s
        /\ \A u \in SearchThreads : u # t => cand'[u] = cand[u]
    BY <1>1, <1>2 DEF ObjectiveType
  <1>6. /\ pc' \in [SearchThreads -> {"search", "total", "model", "done"}] /\ pc'[t] = "total"
        /\ \A u \in SearchThreads : u # t => pc'[u] = pc[u]
    BY <1>1, <1>3 DEF ObjectiveType
  <1>7. ObjectiveType'
    BY <1>1, <1>3, <1>4, <1>5, <1>6 DEF ObjectiveType, NoConstants
  <1>8. LockHeld'
    BY <1>1, <1>3, <1>4, <1>5, <1>6 DEF LockHeld
  <1>9. BoundOfShown'
    BY <1>1, <1>3, <1>4 DEF BoundOfShown
  <1>10. BoundsFollow'
    BY <1>1, <1>3, <1>4, <1>5, <1>6 DEF BoundsFollow
  <1>11. EndsTogether'
    <2>1. \A u \in SearchThreads : pc[u] # "done"
      BY <1>1, <1>3 DEF EndsTogether, Done
    <2>2. \A u \in SearchThreads : pc'[u] # "done"
      BY <1>6, <2>1
    <2> QED BY <2>2 DEF EndsTogether, Done
  <1> QED BY <1>4, <1>7, <1>8, <1>9, <1>10, <1>11 DEF SearchInv

\* A total assignment is checked under the lock.
LEMMA CheckTotalSearches ==
  ASSUME ObjectiveAssumption, SearchInv, NEW t \in SearchThreads, CheckTotal(t)
  PROVE  SearchInv'
  <1>1. /\ ObjectiveType /\ CostsFit(con, solutions) /\ LockHeld /\ BoundOfShown
        /\ BoundsFollow /\ EndsTogether
    BY DEF SearchInv
  <1>2. /\ UNCHANGED shared /\ bound' = bound /\ cand' = cand /\ shown' = shown
        /\ pc[t] = "total" /\ lock = {} /\ seen' = [seen EXCEPT ![t] = Integrated(t)]
    BY DEF CheckTotal, MayLock
  <1>3. /\ con' = con /\ solutions' = solutions
        /\ program' = program /\ step' = step /\ stated' = stated
        /\ \A s : SumOf(s)' = SumOf(s) /\ Cost(s)' = Cost(s)
        /\ CostsFit(con, solutions)'
    BY <1>1, <1>2, SearchKeeps
  <1>4. /\ Integrated(t) \in Int
        /\ Integrated(t) = NoBound \/ (bound # NoBound /\ Integrated(t) >= bound + con.adjust)
        /\ bound # NoBound => Integrated(t) <= bound + con.adjust
        /\ bound \in Int /\ con.adjust \in Int
    BY <1>1, IntegratedValue, SumsAreInts DEF ObjectiveType
  <1>5. seen' \in [SearchThreads -> Int] /\ seen'[t] = Integrated(t) /\ \A u \in SearchThreads : u # t => seen'[u] = seen[u]
    BY <1>1, <1>2, <1>4 DEF ObjectiveType
  <1>6. /\ \A u \in SearchThreads : pc[u] # "model" /\ pc[u] # "done"
        /\ cand[t] \in solutions /\ SumOf(cand[t]) \in Int
    BY <1>1, <1>2, SumsAreInts DEF LockHeld, EndsTogether, Done
  <1>7. BoundOfShown'
    BY <1>1, <1>2, <1>3 DEF BoundOfShown
  <1>8. CASE SumOf(cand[t]) <= Integrated(t)
    <2>1. lock' = {t} /\ pc' = [pc EXCEPT ![t] = "model"]
      BY <1>2, <1>8 DEF CheckTotal
    <2>2. /\ pc' \in [SearchThreads -> {"search", "total", "model", "done"}] /\ pc'[t] = "model"
          /\ \A u \in SearchThreads : u # t => pc'[u] = pc[u]
      BY <1>1, <2>1 DEF ObjectiveType
    <2>3. ObjectiveType'
      BY <1>1, <1>2, <1>3, <1>5, <2>1, <2>2 DEF ObjectiveType, NoConstants
    <2>4. LockHeld'
      BY <1>1, <1>2, <1>3, <1>6, <2>1, <2>2 DEF LockHeld
    <2>5. BoundsFollow'
      <3>1. bound # NoBound => SumOf(cand[t]) <= bound + con.adjust
        BY <1>4, <1>6, <1>8
      <3>2. \A u \in SearchThreads : pc'[u] = "model" => u = t
        BY <1>6, <2>2
      <3> QED BY <1>1, <1>2, <1>3, <1>4, <1>5, <3>1, <3>2 DEF BoundsFollow
    <2>6. EndsTogether'
      <3>1. \A u \in SearchThreads : pc'[u] # "done"
        BY <1>6, <2>2
      <3> QED BY <3>1 DEF EndsTogether, Done
    <2> QED BY <1>3, <1>7, <2>3, <2>4, <2>5, <2>6 DEF SearchInv
  <1>9. CASE ~(SumOf(cand[t]) <= Integrated(t))
    <2>1. lock' = lock /\ pc' = [pc EXCEPT ![t] = "search"]
      BY <1>9 DEF CheckTotal
    <2>2. /\ pc' \in [SearchThreads -> {"search", "total", "model", "done"}] /\ pc'[t] = "search"
          /\ \A u \in SearchThreads : u # t => pc'[u] = pc[u]
      BY <1>1, <2>1 DEF ObjectiveType
    <2>3. ObjectiveType'
      BY <1>1, <1>2, <1>3, <1>5, <2>1, <2>2 DEF ObjectiveType, NoConstants
    <2>4. LockHeld'
      BY <1>1, <1>2, <1>3, <1>6, <2>1, <2>2 DEF LockHeld
    <2>5. BoundsFollow'
      <3>1. \A u \in SearchThreads : pc'[u] # "model"
        BY <1>6, <2>2
      <3> QED BY <1>1, <1>2, <1>3, <1>4, <1>5, <3>1 DEF BoundsFollow
    <2>6. EndsTogether'
      <3>1. \A u \in SearchThreads : pc'[u] # "done"
        BY <1>6, <2>2
      <3> QED BY <3>1 DEF EndsTogether, Done
    <2> QED BY <1>3, <1>7, <2>3, <2>4, <2>5, <2>6 DEF SearchInv
  <1> QED BY <1>8, <1>9

\* The cost of a model that is shown is within the shared bound.
LEMMA ModelWithinBound ==
  ASSUME ObjectiveAssumption, SearchInv, NEW t \in SearchThreads, pc[t] = "model"
  PROVE  /\ cand[t] \in solutions /\ cand[t] \in [Vars -> Int]
         /\ Cost(cand[t]) \in Int /\ SumOf(cand[t]) \in Int /\ SumOf(cand[t]) = Cost(cand[t]) + con.adjust
         /\ con.adjust \in Int /\ bound \in Int
         /\ Cost(cand[t]) < NoBound /\ Cost(cand[t]) <= bound
         /\ \A u \in SearchThreads : pc[u] = "model" => u = t
  <1>1. cand[t] \in solutions /\ \A u \in SearchThreads : pc[u] = "model" => u = t
    BY DEF SearchInv, LockHeld
  <1>2. PICK s \in [Vars -> Int] : s = cand[t]
    BY <1>1 DEF SearchInv, ObjectiveType
  <1>3. /\ con.adjust \in Int /\ bound \in Int /\ NoBound \in Int
        /\ SumOf(s) \in Int /\ Cost(s) = SumOf(s) - con.adjust
    BY SumsAreInts DEF SearchInv, ObjectiveType, ObjectiveAssumption
  <1>4. SumOf(s) - con.adjust < NoBound
    BY <1>1, <1>2 DEF SearchInv, CostsFit, SumOf
  <1>5. bound # NoBound => SumOf(s) <= bound + con.adjust
    BY <1>2 DEF SearchInv, BoundsFollow
  <1>6. Cost(s) <= bound /\ SumOf(s) = Cost(s) + con.adjust /\ Cost(s) \in Int
    <2>1. PICK n, a \in Int : n = SumOf(s) /\ a = con.adjust
      BY <1>3
    <2>2. Cost(s) = n - a /\ n - a < NoBound /\ (bound # NoBound => n <= bound + a)
      BY <1>3, <1>4, <1>5, <2>1
    <2> QED BY <1>3, <2>1, <2>2
  <1> QED BY <1>1, <1>2, <1>3, <1>4, <1>6

\* A model is shown, and tightens the shared bound.
LEMMA OnModelSearches ==
  ASSUME ObjectiveAssumption, SearchInv, NEW t \in SearchThreads, OnModel(t)
  PROVE  SearchInv'
  <1>1. /\ ObjectiveType /\ CostsFit(con, solutions) /\ LockHeld /\ BoundOfShown
        /\ BoundsFollow /\ EndsTogether
    BY DEF SearchInv
  <1>2. PICK a : a = cand[t]
    OBVIOUS
  <1>3. /\ UNCHANGED shared /\ cand' = cand /\ seen' = seen /\ pc[t] = "model"
        /\ lock' = lock \ {t} /\ pc' = [pc EXCEPT ![t] = "search"]
        /\ shown' = << [cost |-> Cost(a), at |-> a] >>
        /\ bound' = IF Cost(a) <= bound THEN Cost(a) - 1 ELSE bound
    BY <1>2 DEF OnModel, NextBound
  <1>4. /\ con' = con /\ solutions' = solutions
        /\ program' = program /\ step' = step /\ stated' = stated
        /\ \A s : SumOf(s)' = SumOf(s) /\ Cost(s)' = Cost(s)
        /\ CostsFit(con, solutions)'
    BY <1>1, <1>3, SearchKeeps
  <1>5. /\ a \in solutions /\ Cost(a) \in Int /\ con.adjust \in Int /\ bound \in Int
        /\ Cost(a) < NoBound /\ Cost(a) <= bound
        /\ \A u \in SearchThreads : pc[u] = "model" => u = t
    BY <1>2, <1>3, ModelWithinBound
  <1>6. bound' = Cost(a) - 1 /\ bound' \in Int /\ bound' # NoBound /\ bound' < bound
    <2>1. NoBound \in Int
      BY DEF ObjectiveAssumption
    <2> QED BY <1>3, <1>5, <2>1
  <1>7. /\ pc' \in [SearchThreads -> {"search", "total", "model", "done"}] /\ pc'[t] = "search"
        /\ \A u \in SearchThreads : u # t => pc'[u] = pc[u]
    BY <1>1, <1>3 DEF ObjectiveType
  <1>8. ObjectiveType'
    <2>1. lock' \in SUBSET SearchThreads
      BY <1>1, <1>3 DEF ObjectiveType
    <2> QED BY <1>1, <1>3, <1>4, <1>6, <1>7, <2>1 DEF ObjectiveType, NoConstants
  <1>9. LockHeld'
    BY <1>1, <1>3, <1>4, <1>5, <1>7 DEF LockHeld
  <1>10. BoundOfShown'
    <2>1. shown' = << [cost |-> Cost(a)', at |-> a] >> /\ bound' = Cost(a)' - 1 /\ a \in solutions'
      BY <1>3, <1>4, <1>5, <1>6
    <2> QED BY <1>6, <2>1 DEF BoundOfShown
  <1>11. BoundsFollow'
    <2>1. \A u \in SearchThreads : pc'[u] # "model"
      BY <1>5, <1>7
    <2>2. ASSUME NEW u \in SearchThreads, seen[u] # NoBound
          PROVE  seen[u] >= bound' + con.adjust
      <3>1. seen[u] >= bound + con.adjust /\ seen[u] \in Int
        BY <1>1, <2>2 DEF BoundsFollow, ObjectiveType
      <3> QED BY <3>1, <1>5, <1>6
    <2> QED BY <1>3, <1>4, <1>6, <2>1, <2>2 DEF BoundsFollow
  <1>12. EndsTogether'
    <2>1. \A u \in SearchThreads : pc[u] # "done"
      BY <1>1, <1>3 DEF EndsTogether, Done
    <2>2. \A u \in SearchThreads : pc'[u] # "done"
      BY <1>7, <2>1
    <2> QED BY <2>2 DEF EndsTogether, Done
  <1> QED BY <1>4, <1>8, <1>9, <1>10, <1>11, <1>12 DEF SearchInv

\* The search ends: nothing is left below the bound.
LEMMA ExhaustedSearches ==
  ASSUME ObjectiveAssumption, SearchInv, NEW t \in SearchThreads, Exhausted(t)
  PROVE  SearchInv'
  <1>1. /\ ObjectiveType /\ CostsFit(con, solutions) /\ LockHeld /\ BoundOfShown
        /\ BoundsFollow /\ EndsTogether
    BY DEF SearchInv
  <1>2. /\ UNCHANGED shared /\ bound' = bound /\ cand' = cand /\ seen' = seen /\ shown' = shown
        /\ lock = {} /\ lock' = lock /\ pc' = [u \in SearchThreads |-> "done"]
        /\ \A s \in solutions : SumOf(s) > seen[t]
    BY DEF Exhausted
  <1>3. /\ con' = con /\ solutions' = solutions
        /\ program' = program /\ step' = step /\ stated' = stated
        /\ \A s : SumOf(s)' = SumOf(s) /\ Cost(s)' = Cost(s)
        /\ CostsFit(con, solutions)'
    BY <1>1, <1>2, SearchKeeps
  <1>4. ObjectiveType'
    BY <1>1, <1>2, <1>3 DEF ObjectiveType, NoConstants
  <1>5. LockHeld'
    BY <1>2 DEF LockHeld
  <1>6. BoundOfShown'
    BY <1>1, <1>2, <1>3 DEF BoundOfShown
  <1>7. BoundsFollow'
    BY <1>1, <1>2, <1>3 DEF BoundsFollow
  <1>8. EndsTogether'
    <2>1. ASSUME NEW s \in solutions
          PROVE  bound # NoBound /\ SumOf(s) > bound + con.adjust
      <3>1. PICK n, k, a \in Int : n = SumOf(s) /\ k = seen[t] /\ a = con.adjust
        BY <1>1, <2>1, SumsAreInts DEF ObjectiveType
      <3>2. n > k /\ n < NoBound
        BY <1>1, <1>2, <2>1, <3>1 DEF CostsFit, SumOf
      <3>3. k = NoBound \/ (bound # NoBound /\ k >= bound + a)
        BY <1>1, <3>1 DEF BoundsFollow
      <3>4. bound \in Int /\ NoBound \in Int
        BY <1>1 DEF ObjectiveType, ObjectiveAssumption
      <3> QED BY <3>1, <3>2, <3>3, <3>4
    <2>2. Done'
      BY <1>2 DEF Done
    <2> QED BY <1>2, <1>3, <2>1, <2>2 DEF EndsTogether
  <1> QED BY <1>3, <1>4, <1>5, <1>6, <1>7, <1>8 DEF SearchInv

\* Steps of the threads leave the objective alone.
LEMMA ThreadKeeps ==
  ASSUME NEW t \in SearchThreads, Thread(t)
  PROVE  UNCHANGED shared
  BY DEF Thread, Check, FindTotal, CheckTotal, OnModel, Exhausted

\* Every step.
LEMMA SearchNext ==
  ASSUME ObjectiveAssumption, SearchInv, [ObjectiveNext]_objectiveVars
  PROVE  SearchInv'
  <1>1. CASE BeginStep
    BY <1>1, BeginSearches
  <1>2. ASSUME NEW t \in SearchThreads, Thread(t)
        PROVE  SearchInv'
    BY <1>2, CheckSearches, FindSearches, CheckTotalSearches, OnModelSearches, ExhaustedSearches
       DEF Thread
  <1>3. CASE UNCHANGED objectiveVars
    <2>1. /\ program' = program /\ step' = step /\ solutions' = solutions /\ con' = con
          /\ bound' = bound /\ lock' = lock /\ pc' = pc /\ cand' = cand /\ seen' = seen
          /\ stated' = stated /\ shown' = shown
      BY <1>3 DEF objectiveVars
    <2>2. ObjectiveType' /\ CostsFit(con, solutions)'
      BY <2>1 DEF SearchInv, ObjectiveType, CostsFit, NoConstants
    <2>3. LockHeld' /\ EndsTogether'
      BY <2>1 DEF SearchInv, LockHeld, EndsTogether, Done, SumOf
    <2>4. BoundOfShown' /\ BoundsFollow'
      BY <2>1 DEF SearchInv, BoundOfShown, BoundsFollow, Cost, SumOf
    <2> QED BY <2>2, <2>3, <2>4 DEF SearchInv
  <1> QED BY <1>1, <1>2, <1>3 DEF ObjectiveNext

\* The objective of every step.
LEMMA ObjectiveSteps ==
  ASSUME ObjectiveAssumption, ObjectiveType, [ObjectiveNext]_objectiveVars
  PROVE  /\ UpToConstants => UpToConstants'
         /\ CostsExact => CostsExact'
  <1>1. CASE BeginStep
    BY <1>1, BeginUpToConstants, BeginCostsExact
  <1>2. CASE UNCHANGED shared
    <2>1. con' = con /\ step' = step /\ program' = program /\ stated' = stated
      BY <1>2 DEF shared
    <2> QED BY <2>1 DEF UpToConstants, CostsExact, Cost, SumOf, ConstantsBefore, ConstantOf
  <1>3. CASE UNCHANGED objectiveVars
    BY <1>2, <1>3 DEF objectiveVars, shared
  <1> QED BY <1>1, <1>2, <1>3, ThreadKeeps DEF ObjectiveNext

\* Together.
ObjectiveIInv == SearchInv /\ UpToConstants /\ CostsExact

LEMMA ObjectiveInvariance ==
  ASSUME ObjectiveAssumption
  PROVE  ObjectiveSpec => []ObjectiveIInv
  <1>1. ObjectiveInit => ObjectiveIInv
    BY ObjectiveInitOk DEF ObjectiveIInv
  <1>2. ObjectiveIInv /\ [ObjectiveNext]_objectiveVars => ObjectiveIInv'
    <2> SUFFICES ASSUME ObjectiveIInv, [ObjectiveNext]_objectiveVars PROVE ObjectiveIInv'
      OBVIOUS
    <2>1. SearchInv'
      BY SearchNext DEF ObjectiveIInv
    <2>2. UpToConstants' /\ CostsExact'
      BY ObjectiveSteps DEF ObjectiveIInv, SearchInv
    <2> QED BY <2>1, <2>2 DEF ObjectiveIInv
  <1> QED BY <1>1, <1>2, PTL DEF ObjectiveSpec

-----------------------------------------------------------------------------
(* The properties.                                                         *)

\* The cost shown for a model is the value of the objective over all solve
\* steps, less twice the constants stated an odd number of steps before:
\* merging and simplifying the sums of the steps loses nothing else.
THEOREM CostsAreObjectives ==
  ASSUME ObjectiveAssumption
  PROVE  ObjectiveSpec => []CostIsObjective
  <1>1. ObjectiveIInv => CostIsObjective
    <2> SUFFICES ASSUME ObjectiveIInv, shown # <<>>
                 PROVE  shown[1].cost
                          = ElemsValue(stated, shown[1].at) - 2 * ConstantsBefore(step, 1)
      BY DEF CostIsObjective
    <2>1. PICK a \in solutions : shown = << [cost |-> Cost(a), at |-> a] >>
      BY DEF ObjectiveIInv, SearchInv, BoundOfShown
    <2>2. shown[1].cost = Cost(a) /\ shown[1].at = a
      BY <2>1
    <2>3. a \in [Vars -> Int]
      BY DEF ObjectiveIInv, SearchInv, ObjectiveType
    <2>4. step > 0
      <3>1. step # 0 /\ program \in Programs /\ step \in 0 .. Len(program)
        BY <2>1 DEF ObjectiveIInv, SearchInv, ObjectiveType
      <3>2. Len(program) \in Nat
        BY <3>1 DEF ObjectiveAssumption
      <3> QED BY <3>1, <3>2
    <2> QED BY <2>2, <2>3, <2>4 DEF ObjectiveIInv, CostsExact
  <1> QED BY <1>1, ObjectiveInvariance, PTL

\* When the search of a step ends, the last model shown is optimal for the
\* whole objective, whichever threads found models within outdated bounds.
THEOREM OptimaAreFound ==
  ASSUME ObjectiveAssumption
  PROVE  ObjectiveSpec => []OptimumFound
  <1>1. ObjectiveIInv => OptimumFound
    <2> SUFFICES ASSUME ObjectiveIInv, Done, NEW b \in solutions
                 PROVE  /\ shown # <<>>
                        /\ \A s \in solutions :
                             ElemsValue(stated, shown[1].at) <= ElemsValue(stated, s)
      BY DEF OptimumFound
    <2>1. ObjectiveType /\ \A s \in solutions : bound # NoBound /\ SumOf(s) > bound + con.adjust
      BY DEF ObjectiveIInv, SearchInv, EndsTogether
    <2>2. PICK a \in solutions : /\ shown = << [cost |-> Cost(a), at |-> a] >>
                                 /\ bound = Cost(a) - 1
      BY <2>1 DEF ObjectiveIInv, SearchInv, BoundOfShown
    <2>3. shown # <<>> /\ shown[1].at = a
      BY <2>2
    <2>4. PICK k \in Int : \A s \in [Vars -> Int] : SumOf(s) = ElemsValue(stated, s) + k
      BY DEF ObjectiveIInv, UpToConstants
    <2>5. ASSUME NEW s \in solutions
          PROVE  ElemsValue(stated, a) <= ElemsValue(stated, s)
      <3>1. /\ a \in [Vars -> Int] /\ s \in [Vars -> Int] /\ con.adjust \in Int
            /\ SumOf(a) \in Int /\ SumOf(s) \in Int /\ Cost(a) = SumOf(a) - con.adjust
        BY <2>1, SumsAreInts
      <3>2. PICK m, n, d \in Int : m = SumOf(a) /\ n = SumOf(s) /\ d = con.adjust
        BY <3>1
      <3>3. n > ((m - d) - 1) + d
        BY <2>1, <2>2, <3>1, <3>2
      <3>4. m <= n
        BY <3>3
      <3>5. PICK x, y \in Int : x = ElemsValue(stated, a) /\ y = ElemsValue(stated, s)
        BY <2>1, <3>1, TermValuesType DEF ObjectiveType
      <3>6. m = x + k /\ n = y + k
        BY <2>4, <3>1, <3>2, <3>5
      <3> QED BY <3>4, <3>5, <3>6
    <2> QED BY <2>3, <2>5
  <1> QED BY <1>1, ObjectiveInvariance, PTL

\* Every model shown in a step is strictly better than the one before: on_model
\* runs under the lock, so no other model can move the bound after the check.
THEOREM ShownModelsImprove ==
  ASSUME ObjectiveAssumption
  PROVE  ObjectiveSpec => ModelsImprove
  <1>1. ObjectiveIInv /\ [ObjectiveNext]_objectiveVars =>
          [\A t \in SearchThreads : pc[t] = "model" /\ pc'[t] = "search" /\ shown # <<>>
                                => shown'[1].cost < shown[1].cost]_objectiveVars
    <2> SUFFICES ASSUME ObjectiveIInv, ObjectiveNext, NEW t \in SearchThreads,
                        pc[t] = "model", pc'[t] = "search", shown # <<>>
                 PROVE  shown'[1].cost < shown[1].cost
      BY DEF objectiveVars
    <2>1. SearchInv /\ pc \in [SearchThreads -> {"search", "total", "model", "done"}]
      BY DEF ObjectiveIInv, SearchInv, ObjectiveType
    <2>2. OnModel(t)
      <3>1. ~BeginStep
        BY DEF BeginStep, Done
      <3>2. PICK u \in SearchThreads : Thread(u)
        BY <3>1 DEF ObjectiveNext
      <3>3. CASE u = t
        BY <3>2, <3>3 DEF Thread, Check, FindTotal, CheckTotal, Exhausted
      <3>4. CASE u # t
        <4>1. pc'[t] = pc[t] \/ pc'[t] = "done"
          BY <2>1, <3>2, <3>4 DEF Thread, Check, FindTotal, CheckTotal, OnModel, Exhausted
        <4> QED BY <4>1
      <3> QED BY <3>3, <3>4
    <2>3. PICK n \in Int : n = Cost(cand[t]) /\ n <= bound /\ bound \in Int
      BY <2>1, ModelWithinBound
    <2>4. shown'[1].cost = n
      BY <2>2, <2>3 DEF OnModel
    <2>5. PICK a \in solutions : /\ shown = << [cost |-> Cost(a), at |-> a] >>
                                 /\ bound = Cost(a) - 1
      BY <2>1 DEF SearchInv, BoundOfShown
    <2>6. shown[1].cost = Cost(a) /\ Cost(a) \in Int
      <3>1. Cost(a) \in Int
        BY <2>1, SumsAreInts DEF SearchInv
      <3> QED BY <2>5, <3>1
    <2> QED BY <2>3, <2>4, <2>5, <2>6
  <1> QED BY <1>1, ObjectiveInvariance, PTL DEF ObjectiveSpec, ModelsImprove
=============================================================================
