---------------------------- MODULE Support_proofs ----------------------------
(***************************************************************************)
(* The parts around the solver. Interval sets stay canonical and stand for *)
(* exactly the values added; statistics and iteration of the C interface;  *)
(* terms are evaluated exactly and the partial sums of accepted sums fit,  *)
(* for any sets, numbers of theories and threads, and widths of integers.  *)
(***************************************************************************)
EXTENDS IntervalSet, TheoryInterface, TermArithmetic, Sums_proofs, SequenceTheorems,
        FiniteSetTheorems

-----------------------------------------------------------------------------
(***************************************************************************)
(* Interval sets stay canonical and stand for exactly the values added,    *)
(* for any intervals over the integers and any number of calls.            *)
(*                                                                         *)
(* The argument: while an interval is added, the intervals behind the      *)
(* position of the loop lie behind the interval, and the position is not   *)
(* behind its right end (Behind); the values of the set are those of the   *)
(* map and of the interval in the making (Stands). The queries look at one *)
(* interval of the map, the last that starts early enough; the others end  *)
(* before it, so its answer is that of the whole set.                      *)
(***************************************************************************)

In(n, p) == Left(p) <= n /\ n < Right(p)

\* The loop has dealt with all intervals from its position on.
Behind ==
  work # Idle =>
    /\ work.it <= work.b + 1
    /\ \A p \in map : Left(p) >= work.it => work.b < Left(p)

\* What the map and the interval in the making stand for.
Stands ==
  \A n \in Int :
    n \in covered <=> \/ \E p \in map : In(n, p)
                      \/ work # Idle /\ work.a <= n /\ n < work.b

IInv == TypeOK /\ Canonical /\ Behind /\ Stands

-----------------------------------------------------------------------------
\* An interval of the map and its ends.
LEMMA MapType ==
  ASSUME TypeOK, NEW p \in map
  PROVE  Left(p) \in Int /\ Right(p) \in Int /\ Left(p) < Right(p) /\ p = <<Left(p), Right(p)>>
  BY DEF TypeOK, Left, Right

\* The interval in the making.
LEMMA WorkType ==
  ASSUME TypeOK, work # Idle
  PROVE  /\ work.a \in Int /\ work.b \in Int /\ work.it \in Int /\ work.a < work.b
         /\ work \in [a : Int, b : Int, it : Int]
  BY DEF TypeOK

\* Intervals before the last one that starts before the position end before it.
LEMMA BeforeLast ==
  ASSUME TypeOK, Canonical, NEW k \in Int, NEW p \in map, IsLast(p, Before(map, k)),
         NEW q \in map, q # p, Left(q) < k
  PROVE  Right(q) < Left(p)
  <1>1. Left(q) <= Left(p)
    BY DEF IsLast, Before
  <1>2. /\ Left(p) \in Int /\ Right(p) \in Int /\ Left(p) < Right(p)
        /\ Left(q) \in Int /\ Right(q) \in Int /\ Left(q) < Right(q)
    BY MapType
  <1>3. Right(p) < Left(q) \/ Right(q) < Left(p)
    BY DEF Canonical
  <1> QED
    BY <1>1, <1>2, <1>3

-----------------------------------------------------------------------------
\* A separate interval is added to the map when the loop ends.
LEMMA Emplaced ==
  ASSUME IInv, work # Idle, \A q \in map : Left(q) < work.it => Right(q) < work.a,
         map' = map \cup {<<work.a, work.b>>}, work' = Idle, covered' = covered
  PROVE  IInv'
  <1> USE DEF IInv
  <1> DEFINE i == <<work.a, work.b>>
  <1>1. /\ work.a \in Int /\ work.b \in Int /\ work.it \in Int /\ work.a < work.b
    BY WorkType
  <1>2. i \in Int \X Int /\ Left(i) = work.a /\ Right(i) = work.b
    BY <1>1 DEF Left, Right
  <1> HIDE DEF i
  <1>3. map' = map \cup {i}
    BY DEF i
  <1>4. TypeOK'
    BY <1>1, <1>2, <1>3 DEF TypeOK
  <1>5. \A q \in map : Right(q) < Left(i) \/ Right(i) < Left(q)
    <2> SUFFICES ASSUME NEW q \in map
                 PROVE  Right(q) < Left(i) \/ Right(i) < Left(q)
      OBVIOUS
    <2>1. Left(q) \in Int
      BY MapType
    <2>2. CASE Left(q) < work.it
      BY <2>2, <1>2
    <2>3. CASE Left(q) >= work.it
      BY <2>3, <1>2 DEF Behind
    <2> QED
      BY <2>1, <2>2, <2>3, <1>1
  <1>6. Canonical'
    BY <1>3, <1>5 DEF Canonical
  <1>7. Behind'
    BY DEF Behind
  <1>8. Stands'
    <2> SUFFICES ASSUME NEW n \in Int
                 PROVE  n \in covered <=> \E p \in map \cup {i} : In(n, p)
      BY <1>3 DEF Stands
    <2>1. In(n, i) <=> work.a <= n /\ n < work.b
      BY <1>2 DEF In
    <2>2. n \in covered <=> (\E p \in map : In(n, p)) \/ In(n, i)
      BY <2>1 DEF Stands
    <2> QED
      BY <2>2
  <1> QED
    BY <1>4, <1>6, <1>7, <1>8

\* An interval that starts before the new one is extended.
LEMMA Widened ==
  ASSUME IInv, work # Idle, NEW p \in map, IsLast(p, Before(map, work.it)),
         ~ Separate(p, work.a), Left(p) < work.a,
         map' = (map \ {p}) \cup {<<Left(p), Later(work.b, Right(p))>>},
         work' = Idle, covered' = covered
  PROVE  IInv'
  <1> USE DEF IInv
  <1> DEFINE b == Later(work.b, Right(p))
             i == <<Left(p), b>>
  <1>1. /\ work.a \in Int /\ work.b \in Int /\ work.it \in Int /\ work.a < work.b
    BY WorkType
  <1>2. Left(p) \in Int /\ Right(p) \in Int /\ Left(p) < Right(p) /\ work.a <= Right(p)
    BY <1>1, MapType DEF Separate
  <1>3. b \in Int /\ work.b <= b /\ Right(p) <= b /\ (b = work.b \/ b = Right(p))
    BY <1>1, <1>2 DEF Later
  <1> HIDE DEF b
  <1>4. i \in Int \X Int /\ Left(i) = Left(p) /\ Right(i) = b
    BY <1>2, <1>3 DEF Left, Right
  <1>5. map' = (map \ {p}) \cup {i}
    BY DEF b
  <1> HIDE DEF i
  <1>6. TypeOK'
    BY <1>2, <1>3, <1>4, <1>5 DEF TypeOK
  <1>7. \A q \in map \ {p} : Right(q) < Left(i) \/ Right(i) < Left(q)
    <2> SUFFICES ASSUME NEW q \in map, q # p
                 PROVE  Right(q) < Left(p) \/ b < Left(q)
      BY <1>4
    <2>1. Left(q) \in Int /\ Right(q) \in Int /\ Left(q) < Right(q)
      BY MapType
    <2>2. CASE Left(q) < work.it
      BY <2>2, <1>1, BeforeLast
    <2>3. CASE Left(q) >= work.it
      <3>1. work.b < Left(q)
        BY <2>3 DEF Behind
      <3>2. Right(p) < Left(q) \/ Right(q) < Left(p)
        BY DEF Canonical
      <3> QED
        BY <3>1, <3>2, <1>3
    <2> QED
      BY <2>1, <2>2, <2>3, <1>1
  <1>8. Canonical'
    BY <1>5, <1>7 DEF Canonical
  <1>9. Behind'
    BY DEF Behind
  <1>10. Stands'
    <2> SUFFICES ASSUME NEW n \in Int
                 PROVE  n \in covered <=> \E q \in (map \ {p}) \cup {i} : In(n, q)
      BY <1>5 DEF Stands
    <2>1. In(n, i) <=> In(n, p) \/ (work.a <= n /\ n < work.b)
      BY <1>1, <1>2, <1>3, <1>4 DEF In
    <2>2. n \in covered <=> (\E q \in map : In(n, q)) \/ (work.a <= n /\ n < work.b)
      BY DEF Stands
    <2> QED
      BY <2>1, <2>2
  <1> QED
    BY <1>6, <1>8, <1>9, <1>10

\* An interval covered by the new one, or that extends it, is removed.
LEMMA Absorbed ==
  ASSUME IInv, work # Idle, NEW p \in map, IsLast(p, Before(map, work.it)),
         ~ Separate(p, work.a), ~ (Left(p) < work.a),
         map' = map \ {p}, covered' = covered,
         work' = [work EXCEPT !.b = Later(work.b, Right(p)), !.it = Left(p)]
  PROVE  IInv'
  <1> USE DEF IInv
  <1> DEFINE b == Later(work.b, Right(p))
  <1>1. /\ work.a \in Int /\ work.b \in Int /\ work.it \in Int /\ work.a < work.b
        /\ work \in [a : Int, b : Int, it : Int]
    BY WorkType
  <1>2. Left(p) \in Int /\ Right(p) \in Int /\ Left(p) < Right(p) /\ work.a <= Left(p)
    BY <1>1, MapType
  <1>3. b \in Int /\ work.b <= b /\ Right(p) <= b /\ (b = work.b \/ b = Right(p))
    BY <1>1, <1>2 DEF Later
  <1>4. Left(p) <= work.b
    <2>1. Left(p) < work.it
      BY DEF IsLast, Before
    <2> QED
      BY <2>1, <1>1, <1>2 DEF Behind
  <1>5. /\ work' \in [a : Int, b : Int, it : Int]
        /\ work'.a = work.a /\ work'.b = b /\ work'.it = Left(p)
    BY <1>1, <1>2, <1>3
  <1>6. work' # Idle
    <2>1. DOMAIN work' = {"a", "b", "it"} /\ DOMAIN Idle = {}
      BY <1>1 DEF Idle
    <2> QED
      BY <2>1
  <1> HIDE DEF b
  <1>7. TypeOK'
    BY <1>1, <1>3, <1>5 DEF TypeOK
  <1>8. Canonical'
    BY DEF Canonical
  <1>9. Behind'
    <2>1. \A q \in map \ {p} : Left(q) >= Left(p) => b < Left(q)
      <3> SUFFICES ASSUME NEW q \in map, q # p, Left(q) >= Left(p)
                   PROVE  b < Left(q)
        OBVIOUS
      <3>1. Left(q) \in Int /\ Right(q) \in Int /\ Left(q) < Right(q)
        BY MapType
      <3>2. Left(q) >= work.it
        <4>1. CASE Left(q) < work.it
          BY <4>1, <1>1, <1>2, <3>1, BeforeLast
        <4> QED
          BY <4>1, <1>1, <3>1
      <3>3. work.b < Left(q)
        BY <3>2 DEF Behind
      <3>4. Right(p) < Left(q) \/ Right(q) < Left(p)
        BY DEF Canonical
      <3> QED
        BY <3>1, <3>3, <3>4, <1>2, <1>3
    <2> QED
      BY <2>1, <1>1, <1>2, <1>3, <1>4, <1>5 DEF Behind
  <1>10. Stands'
    <2> SUFFICES ASSUME NEW n \in Int
                 PROVE  n \in covered <=> \/ \E q \in map \ {p} : In(n, q)
                                          \/ work.a <= n /\ n < b
      BY <1>5, <1>6 DEF Stands
    <2>1. work.a <= n /\ n < b <=> In(n, p) \/ (work.a <= n /\ n < work.b)
      BY <1>1, <1>2, <1>3, <1>4 DEF In
    <2>2. n \in covered <=> (\E q \in map : In(n, q)) \/ (work.a <= n /\ n < work.b)
      BY DEF Stands
    <2> QED
      BY <2>1, <2>2
  <1> QED
    BY <1>7, <1>8, <1>9, <1>10

-----------------------------------------------------------------------------
\* The invariant holds initially.
LEMMA IntervalInit == Init => IInv
  BY DEF Init, IInv, TypeOK, Canonical, Behind, Stands

\* Every step of add and clear keeps it.
LEMMA IntervalStep == IInv /\ [Next]_vars => IInv'
  <1> SUFFICES ASSUME IInv, [Next]_vars
               PROVE  IInv'
    OBVIOUS
  <1> USE DEF IInv
  <1>1. CASE Add
    <2>1. PICK a \in Ends, b \in Ends :
            IF NonEmpty(a, b)
            THEN /\ work' = [a |-> a, b |-> b, it |-> b + 1]
                 /\ covered' = covered \cup (a .. b - 1)
            ELSE UNCHANGED <<work, covered>>
      BY <1>1 DEF Add
    <2>2. a \in Int /\ b \in Int /\ work = Idle /\ map' = map
      BY <1>1, EndsAssumption DEF Add
    <2>3. CASE ~ NonEmpty(a, b)
      BY <2>1, <2>2, <2>3 DEF TypeOK, Canonical, Behind, Stands, In
    <2>4. CASE NonEmpty(a, b)
      <3>1. /\ work' \in [a : Int, b : Int, it : Int] /\ a < b
            /\ work'.a = a /\ work'.b = b /\ work'.it = b + 1
            /\ covered' = covered \cup (a .. b - 1)
        BY <2>1, <2>2, <2>4 DEF NonEmpty
      <3>2. work' # Idle
        <4>1. DOMAIN work' = {"a", "b", "it"} /\ DOMAIN Idle = {}
          BY <2>1, <2>4 DEF Idle
        <4> QED
          BY <4>1
      <3>3. TypeOK'
        BY <2>2, <3>1 DEF TypeOK
      <3>4. Canonical'
        BY <2>2 DEF Canonical
      <3>5. Behind'
        <4>1. \A p \in map : Left(p) >= b + 1 => b < Left(p)
          BY <2>2, MapType
        <4> QED
          BY <4>1, <2>2, <3>1 DEF Behind
      <3>6. Stands'
        <4> SUFFICES ASSUME NEW n \in Int
                     PROVE  n \in covered' <=> (\E p \in map : In(n, p)) \/ (a <= n /\ n < b)
          BY <2>2, <3>1, <3>2 DEF Stands
        <4>1. n \in covered <=> \E p \in map : In(n, p)
          BY <2>2 DEF Stands
        <4>2. n \in a .. b - 1 <=> a <= n /\ n < b
          BY <2>2
        <4> QED
          BY <4>1, <4>2, <3>1
      <3> QED
        BY <3>3, <3>4, <3>5, <3>6
    <2> QED
      BY <2>3, <2>4
  <1>2. CASE Merge
    <2>1. PICK p \in map :
            /\ IsLast(p, Before(map, work.it))
            /\ IF Separate(p, work.a)
               THEN /\ map' = map \cup {<<work.a, work.b>>}
                    /\ work' = Idle
               ELSE LET b == Later(work.b, Right(p))
                    IN  IF Left(p) < work.a
                        THEN /\ map' = (map \ {p}) \cup {<<Left(p), b>>}
                             /\ work' = Idle
                        ELSE /\ map' = map \ {p}
                             /\ work' = [work EXCEPT !.b = b, !.it = Left(p)]
      BY <1>2 DEF Merge
    <2>2. work # Idle /\ covered' = covered
      BY <1>2 DEF Merge
    <2>3. CASE Separate(p, work.a)
      <3>1. \A q \in map : Left(q) < work.it => Right(q) < work.a
        <4> SUFFICES ASSUME NEW q \in map, Left(q) < work.it, q # p
                     PROVE  Right(q) < work.a
          BY <2>3 DEF Separate
        <4>1. work.a \in Int /\ work.it \in Int
          BY <2>2, WorkType
        <4>2. Right(q) < Left(p)
          BY <2>1, <4>1, BeforeLast
        <4> QED
          BY <4>1, <4>2, <2>3, MapType DEF Separate
      <3> QED
        BY <2>1, <2>2, <2>3, <3>1, Emplaced
    <2>4. CASE ~ Separate(p, work.a) /\ Left(p) < work.a
      BY <2>1, <2>2, <2>4, Widened
    <2>5. CASE ~ Separate(p, work.a) /\ ~ (Left(p) < work.a)
      BY <2>1, <2>2, <2>5, Absorbed
    <2> QED
      BY <2>3, <2>4, <2>5
  <1>3. CASE Emplace
    <2>1. \A q \in map : Left(q) < work.it => Right(q) < work.a
      BY <1>3 DEF Emplace, Before
    <2> QED
      BY <1>3, <2>1, Emplaced DEF Emplace
  <1>4. CASE Clear
    BY <1>4 DEF Clear, TypeOK, Canonical, Behind, Stands
  <1>5. CASE UNCHANGED vars
    BY <1>5 DEF vars, TypeOK, Canonical, Behind, Stands
  <1> QED
    BY <1>1, <1>2, <1>3, <1>4, <1>5 DEF Next

\* The inductive invariant of IntervalSet::add and clear.
THEOREM IntervalInvariance == Spec => []IInv
  <1>1. Init => IInv
    BY IntervalInit
  <1>2. IInv /\ [Next]_vars => IInv'
    BY IntervalStep
  <1> QED
    BY <1>1, <1>2, PTL DEF Spec

-----------------------------------------------------------------------------
\* Intervals of the set neither overlap nor touch, whatever is added: the
\* loop of add merges all intervals that it should.
THEOREM StaysCanonical == Spec => []Canonical
  <1>1. IInv => Canonical
    BY DEF IInv
  <1> QED
    BY <1>1, IntervalInvariance, PTL

\* Between calls of add the intervals of the map contain the values added
\* and no others.
THEOREM StandsForAdded == Spec => []CoversAdded
  <1>1. IInv => CoversAdded
    <2> SUFFICES ASSUME IInv, work = Idle
                 PROVE  covered = UNION {Values(p) : p \in map}
      BY DEF CoversAdded
    <2> USE DEF IInv
    <2>1. \A p \in map : Left(p) \in Int /\ Right(p) \in Int
      BY MapType
    <2>2. \A n : n \in UNION {Values(p) : p \in map} <=> n \in Int /\ \E p \in map : In(n, p)
      BY <2>1 DEF Values, In
    <2>3. \A n \in Int : n \in covered <=> \E p \in map : In(n, p)
      BY DEF Stands
    <2>4. covered \subseteq Int
      BY DEF TypeOK
    <2> QED
      BY <2>2, <2>3, <2>4
  <1> QED
    BY <1>1, IntervalInvariance, PTL

\* Looking at a single interval, contains answers for the whole set: values
\* that follow each other are never in different intervals.
LEMMA ContainsExact ==
  ASSUME IInv, work = Idle, NEW a \in Int, NEW b \in Int, a < b
  PROVE  Contains(map, a, b) <=> a .. b - 1 \subseteq covered
  <1> USE DEF IInv
  <1>1. \A n \in Int : n \in covered <=> \E p \in map : In(n, p)
    BY DEF Stands
  <1>2. ASSUME Contains(map, a, b)
        PROVE  a .. b - 1 \subseteq covered
    <2>1. PICK p \in map : Left(p) <= a /\ b <= Right(p)
      BY <1>2 DEF Contains
    <2>2. Left(p) \in Int /\ Right(p) \in Int
      BY MapType
    <2>3. \A n \in a .. b - 1 : n \in Int /\ In(n, p)
      BY <2>1, <2>2 DEF In
    <2> QED
      BY <1>1, <2>3
  <1>3. ASSUME a .. b - 1 \subseteq covered
        PROVE  Contains(map, a, b)
    <2>1. a \in covered
      BY <1>3
    <2>2. PICK p \in map : In(a, p)
      BY <1>1, <2>1
    <2>3. Left(p) \in Int /\ Right(p) \in Int /\ Left(p) <= a /\ a < Right(p)
      BY <2>2, MapType DEF In
    <2>4. b <= Right(p)
      <3> SUFFICES ASSUME Right(p) < b
                   PROVE  FALSE
        BY <2>3
      <3>1. Right(p) \in covered
        BY <1>3, <2>3
      <3>2. PICK q \in map : In(Right(p), q)
        BY <1>1, <2>3, <3>1
      <3>3. Left(q) \in Int /\ Right(q) \in Int /\ Left(q) <= Right(p) /\ Right(p) < Right(q)
        BY <3>2, MapType DEF In
      <3>4. Right(p) < Left(q) \/ Right(q) < Left(p)
        BY <3>3, <2>3 DEF Canonical
      <3> QED
        BY <2>3, <3>3, <3>4
    <2>5. IsLast(p, Before(map, b))
      <3>1. \A q \in Before(map, b) : Left(q) <= Left(p)
        <4> SUFFICES ASSUME NEW q \in map, Left(q) < b, q # p
                     PROVE  Left(q) <= Left(p)
          BY <2>3 DEF Before
        <4>1. Left(q) \in Int /\ Right(q) \in Int /\ Left(q) < Right(q)
          BY MapType
        <4>2. Right(p) < Left(q) \/ Right(q) < Left(p)
          BY DEF Canonical
        <4> QED
          BY <2>3, <2>4, <4>1, <4>2
      <3>2. p \in Before(map, b)
        BY <2>3 DEF Before
      <3> QED
        BY <3>1, <3>2 DEF IsLast
    <2> QED
      BY <2>3, <2>4, <2>5 DEF Contains
  <1> QED
    BY <1>2, <1>3

\* If an interval holds a value below b, then there is a last one that starts
\* before b: their left ends are bounded.
LEMMA LastExists ==
  ASSUME TypeOK, NEW b \in Int, NEW n \in Int, n < b, NEW q \in map, In(n, q)
  PROVE  \E p \in map : IsLast(p, Before(map, b))
  <1> DEFINE Gaps == {k \in Nat : \E p \in map : Left(p) = b - 1 - k}
  <1>1. Left(q) \in Int /\ Left(q) <= n
    BY MapType DEF In
  <1>2. b - 1 - Left(q) \in Gaps
    BY <1>1
  <1>3. PICK k \in Gaps : \A j \in Gaps : k <= j
    <2> HIDE DEF Gaps
    <2>1. Gaps \subseteq Nat
      BY DEF Gaps
    <2> QED
      BY <1>2, <2>1, LeastNatural
  <1>4. PICK p \in map : Left(p) = b - 1 - k
    OBVIOUS
  <1>5. p \in Before(map, b)
    BY <1>4 DEF Before
  <1>6. \A r \in Before(map, b) : Left(r) <= Left(p)
    <2> SUFFICES ASSUME NEW r \in map, Left(r) < b
                 PROVE  Left(r) <= Left(p)
      BY DEF Before
    <2>1. Left(r) \in Int
      BY MapType
    <2>2. b - 1 - Left(r) \in Gaps
      BY <2>1
    <2>3. k <= b - 1 - Left(r)
      BY <1>3, <2>2
    <2> QED
      BY <1>4, <2>1, <2>3
  <1> QED
    BY <1>5, <1>6 DEF IsLast

\* Only the last interval before b can reach a value that is not behind the
\* others: if some interval holds n < b, the last one ends behind n.
LEMMA LastReaches ==
  ASSUME TypeOK, Canonical, NEW b \in Int, NEW p \in map, IsLast(p, Before(map, b)),
         NEW n \in Int, n < b, NEW q \in map, In(n, q)
  PROVE  n < Right(p)
  <1>1. /\ Left(p) \in Int /\ Right(p) \in Int /\ Left(p) < Right(p)
        /\ Left(q) \in Int /\ Right(q) \in Int /\ Left(q) <= n /\ n < Right(q)
    BY MapType DEF In
  <1>2. Left(q) <= Left(p)
    BY <1>1 DEF IsLast, Before
  <1>3. q = p \/ Right(p) < Left(q) \/ Right(q) < Left(p)
    BY DEF Canonical
  <1> QED
    BY <1>1, <1>2, <1>3

\* intersects finds a common value if there is one: if the last interval
\* before b ends behind a, the larger of a and its left end is one.
LEMMA IntersectsExact ==
  ASSUME IInv, work = Idle, NEW a \in Int, NEW b \in Int
  PROVE  Intersects(map, a, b) <=> \E n \in a .. b - 1 : n \in covered
  <1> USE DEF IInv
  <1>1. \A n \in Int : n \in covered <=> \E p \in map : In(n, p)
    BY DEF Stands
  <1>2. ASSUME Intersects(map, a, b)
        PROVE  \E n \in a .. b - 1 : n \in covered
    <2>1. PICK p \in map : IsLast(p, Before(map, b)) /\ a < Right(p)
      BY <1>2 DEF Intersects
    <2>2. Left(p) \in Int /\ Right(p) \in Int /\ Left(p) < Right(p) /\ Left(p) < b /\ a < b
      BY <1>2, <2>1, MapType DEF IsLast, Before, Intersects
    <2>3. CASE Left(p) <= a
      <3>1. In(a, p)
        BY <2>1, <2>3 DEF In
      <3> QED
        BY <1>1, <2>2, <3>1
    <2>4. CASE a < Left(p)
      <3>1. In(Left(p), p) /\ Left(p) \in a .. b - 1
        BY <2>2, <2>4 DEF In
      <3> QED
        BY <1>1, <2>2, <3>1
    <2> QED
      BY <2>2, <2>3, <2>4
  <1>3. ASSUME NEW n \in a .. b - 1, n \in covered
        PROVE  Intersects(map, a, b)
    <2>1. PICK q \in map : In(n, q)
      BY <1>1, <1>3
    <2>2. n \in Int /\ a <= n /\ n < b
      OBVIOUS
    <2>3. PICK p \in map : IsLast(p, Before(map, b))
      BY <2>1, <2>2, LastExists
    <2>4. n < Right(p)
      BY <2>1, <2>2, <2>3, LastReaches
    <2>5. Right(p) \in Int
      BY MapType
    <2> QED
      BY <2>2, <2>3, <2>4, <2>5 DEF Intersects
  <1> QED
    BY <1>2, <1>3

\* The same for a single value.
LEMMA ContainsValueExact ==
  ASSUME IInv, work = Idle, NEW a \in Int
  PROVE  ContainsValue(map, a) <=> a \in covered
  <1> USE DEF IInv
  <1>1. \A n \in Int : n \in covered <=> \E p \in map : In(n, p)
    BY DEF Stands
  <1>2. ASSUME ContainsValue(map, a)
        PROVE  a \in covered
    <2>1. PICK p \in map : IsLast(p, Before(map, a + 1)) /\ a < Right(p)
      BY <1>2 DEF ContainsValue
    <2>2. Left(p) \in Int /\ Left(p) < a + 1
      BY <2>1, MapType DEF IsLast, Before
    <2>3. In(a, p)
      BY <2>1, <2>2 DEF In
    <2> QED
      BY <1>1, <2>3
  <1>3. ASSUME a \in covered
        PROVE  ContainsValue(map, a)
    <2>1. PICK q \in map : In(a, q)
      BY <1>1, <1>3
    <2>2. PICK p \in map : IsLast(p, Before(map, a + 1))
      BY <2>1, LastExists
    <2>3. a < Right(p)
      BY <2>1, <2>2, LastReaches
    <2> QED
      BY <2>2, <2>3 DEF ContainsValue
  <1> QED
    BY <1>2, <1>3

\* Looking at the one interval that contains and intersects look at is enough,
\* for every interval asked for: the answers are those for all values added.
THEOREM QueriesAreExact == Spec => []QueriesExact
  <1>1. IInv => QueriesExact
    <2> SUFFICES ASSUME IInv, work = Idle, NEW a \in Ends, NEW b \in Ends
                 PROVE  /\ a < b => (Contains(map, a, b) <=> a .. b - 1 \subseteq covered)
                        /\ Intersects(map, a, b) <=> \E n \in a .. b - 1 : n \in covered
                        /\ ContainsValue(map, a) <=> a \in covered
      BY DEF QueriesExact
    <2>1. a \in Int /\ b \in Int
      BY EndsAssumption
    <2> QED
      BY <2>1, ContainsExact, IntersectsExact, ContainsValueExact
  <1> QED
    BY <1>1, IntervalInvariance, PTL

-----------------------------------------------------------------------------
(***************************************************************************)
(* The statistics and the iteration of the C interface, for any number of  *)
(* theories, threads and variables.                                        *)
(***************************************************************************)

-----------------------------------------------------------------------------
(* Lists of counters, one for each thread that has been started.           *)

ValueAt(list, i) == IF i < Len(list) THEN list[i + 1] ELSE 0

\* A function on an initial segment of the naturals is a sequence.
LEMMA IsList ==
    ASSUME NEW n \in Nat, NEW f \in [1..n -> Nat]
    PROVE  f \in Seq(Nat) /\ Len(f) = n /\ DOMAIN f = 1..n
OBVIOUS

\* Values in a list made of two.
LEMMA ValueInConcat ==
    ASSUME NEW s \in Seq(Nat), NEW t \in Seq(Nat), NEW k \in Nat
    PROVE  /\ s \o t \in Seq(Nat)
           /\ ValueAt(s \o t, k) = IF k < Len(s) THEN s[k + 1] ELSE ValueAt(t, k - Len(s))
<1>1. /\ s \o t \in Seq(Nat) /\ Len(s \o t) = Len(s) + Len(t)
      /\ \A i \in 1..(Len(s) + Len(t)) : (s \o t)[i] = IF i <= Len(s) THEN s[i] ELSE t[i - Len(s)]
  BY ConcatProperties
<1> DEFINE all == s \o t   m == Len(s)   n == Len(t)
<1>2. m \in Nat /\ n \in Nat
  BY LenProperties
<1>3. Len(all) = m + n /\ \A i \in 1..(m + n) : all[i] = IF i <= m THEN s[i] ELSE t[i - m]
  BY <1>1
<1> HIDE DEF all, m, n
<1>4. CASE k < m
  <2>1. k + 1 \in 1..(m + n) /\ k + 1 <= m /\ k < m + n
    BY <1>2, <1>4
  <2>2. all[k + 1] = s[k + 1]
    BY <1>3, <2>1
  <2> QED BY <1>1, <1>3, <1>4, <2>1, <2>2 DEF ValueAt, all, m
<1>5. CASE ~(k < m) /\ k < m + n
  <2>1. k + 1 \in 1..(m + n) /\ ~(k + 1 <= m) /\ k - m < n /\ k + 1 - m = k - m + 1
    BY <1>2, <1>5
  <2>2. all[k + 1] = t[k - m + 1]
    <3>1. all[k + 1] = t[k + 1 - m]
      BY <1>2, <1>3, <2>1, SMTT(30)
    <3> QED BY <2>1, <3>1
  <2> QED BY <1>1, <1>3, <1>5, <2>1, <2>2 DEF ValueAt, all, m, n
<1>6. CASE ~(k < m) /\ ~(k < m + n)
  <2>1. ~(k - m < n)
    BY <1>2, <1>6
  <2> QED BY <1>1, <1>3, <1>6, <2>1 DEF ValueAt, all, m, n
<1> QED BY <1>2, <1>4, <1>5, <1>6

\* Threads that are started begin with nothing counted.
LEMMA ExtendedKeeps ==
    ASSUME NEW list \in Seq(Nat), NEW i \in Nat, NEW k \in Nat
    PROVE  /\ SolverStats(list, i) \in Seq(Nat)
           /\ ValueAt(SolverStats(list, i), k) = ValueAt(list, k)
<1> DEFINE n == i + 1 - Len(list)
           size == IF n > 0 THEN n ELSE 0
           zeros == [j \in 1..n |-> 0]
<1>1. n \in Int /\ size \in Nat /\ Len(list) \in Nat
  OBVIOUS
<1>2. 1..n = 1..size
  BY <1>1
<1>3. zeros \in [1..size -> Nat] /\ \A j \in 1..size : zeros[j] = 0
  BY <1>2
<1> HIDE DEF zeros
<1>4. zeros \in Seq(Nat) /\ Len(zeros) = size
  BY <1>1, <1>3, IsList
<1>5. SolverStats(list, i) = list \o zeros
  BY DEF SolverStats, Extended, zeros
<1> HIDE DEF size, n
<1>6. k - Len(list) \in Nat \/ k < Len(list)
  BY <1>1
<1>7. ValueAt(zeros, k - Len(list)) = 0 \/ k < Len(list)
  BY <1>1, <1>3, <1>4, <1>6 DEF ValueAt
<1> QED BY <1>4, <1>5, <1>7, ValueInConcat DEF ValueAt

\* Accumulating adds the counters of each thread.
LEMMA AccumulatedAdds ==
    ASSUME NEW accu \in Seq(Nat), NEW step \in Seq(Nat), NEW k \in Nat
    PROVE  /\ Accumulated(accu, step) \in Seq(Nat)
           /\ ValueAt(Accumulated(accu, step), k) = ValueAt(accu, k) + ValueAt(step, k)
<1> DEFINE m == Len(accu)   n == Len(step)
           old  == [j \in DOMAIN accu |-> accu[j] + IF j \in DOMAIN step THEN step[j] ELSE 0]
           tail == SubSeq(step, m + 1, n)
<1>1. /\ m \in Nat /\ DOMAIN accu = 1..m /\ \A j \in 1..m : accu[j] \in Nat
      /\ n \in Nat /\ DOMAIN step = 1..n /\ \A j \in 1..n : step[j] \in Nat
  BY LenProperties, ElementOfSeq
<1>2. Accumulated(accu, step) = old \o tail
  BY DEF Accumulated
<1>3. /\ tail \in Seq(Nat)
      /\ Len(tail) = IF m + 1 <= n THEN n - m ELSE 0
      /\ \A j \in 1..(n - m) : tail[j] = step[m + j]
  <2>1. \A j \in (m + 1)..n : step[j] \in Nat
    BY <1>1
  <2>2. m + 1 \in Int /\ n \in Int
    BY <1>1
  <2>3. /\ tail \in Seq(Nat)
        /\ Len(tail) = IF m + 1 <= n THEN n - (m + 1) + 1 ELSE 0
        /\ \A j \in 1..(n - (m + 1) + 1) : tail[j] = step[m + 1 + j - 1]
    <3> HIDE DEF m, n
    <3> QED BY <2>1, <2>2, SubSeqProperties
  <2> HIDE DEF m, n, tail
  <2>4. n - (m + 1) + 1 = n - m /\ \A j \in 1..(n - m) : m + 1 + j - 1 = m + j
    BY <1>1
  <2> QED BY <2>3, <2>4
<1> HIDE DEF m, n, tail
<1>4. \A j \in 1..m : accu[j] + (IF j \in 1..n THEN step[j] ELSE 0) \in Nat
  BY <1>1
<1>5. old \in [1..m -> Nat] /\ \A j \in 1..m : old[j] = accu[j] + IF j \in 1..n THEN step[j] ELSE 0
  BY <1>1, <1>4
<1> HIDE DEF old
<1>6. old \in Seq(Nat) /\ Len(old) = m
  BY <1>1, <1>5, IsList
<1>7. /\ Accumulated(accu, step) \in Seq(Nat)
      /\ ValueAt(Accumulated(accu, step), k) = IF k < m THEN old[k + 1] ELSE ValueAt(tail, k - m)
  <2>1. /\ old \o tail \in Seq(Nat)
        /\ ValueAt(old \o tail, k) = IF k < Len(old) THEN old[k + 1] ELSE ValueAt(tail, k - Len(old))
    BY <1>3, <1>6, ValueInConcat
  <2> QED BY <1>2, <1>6, <2>1
<1>8. CASE k < m
  <2>1. k + 1 \in 1..m /\ (k + 1 \in 1..n <=> k < n)
    BY <1>1, <1>8
  <2>2. old[k + 1] = accu[k + 1] + IF k < n THEN step[k + 1] ELSE 0
    BY <1>5, <2>1
  <2> QED BY <1>7, <1>8, <2>2 DEF ValueAt, m, n
<1>9. CASE ~(k < m) /\ k < n
  <2>1. k - m < n - m /\ m + 1 <= n /\ k - m + 1 \in 1..(n - m) /\ m + (k - m + 1) = k + 1 /\ k + 1 \in 1..n
    BY <1>1, <1>9
  <2>2. ValueAt(tail, k - m) = step[k + 1]
    BY <1>3, <2>1 DEF ValueAt
  <2>3. ValueAt(accu, k) = 0 /\ ValueAt(step, k) = step[k + 1] /\ step[k + 1] \in Nat
    BY <1>1, <1>9, <2>1 DEF ValueAt, m, n
  <2> QED BY <1>7, <1>9, <2>2, <2>3
<1>10. CASE ~(k < m) /\ ~(k < n)
  <2>1. ~(k - m < Len(tail))
    BY <1>1, <1>3, <1>10
  <2>2. ValueAt(tail, k - m) = 0 /\ ValueAt(accu, k) = 0 /\ ValueAt(step, k) = 0
    BY <1>10, <2>1 DEF ValueAt, m, n
  <2> QED BY <1>7, <1>10, <2>2
<1> QED BY <1>1, <1>7, <1>8, <1>9, <1>10

\* Counters that are reset are zero.
LEMMA ResetClears ==
    ASSUME NEW list \in Seq(Nat), NEW k \in Nat
    PROVE  Reset(list) \in Seq(Nat) /\ ValueAt(Reset(list), k) = 0
<1>1. DOMAIN list = 1..Len(list) /\ Len(list) \in Nat
  OBVIOUS
<1>2. Reset(list) \in [1..Len(list) -> Nat] /\ \A j \in 1..Len(list) : Reset(list)[j] = 0
  BY <1>1 DEF Reset
<1>3. Reset(list) \in Seq(Nat) /\ Len(Reset(list)) = Len(list)
  BY <1>1, <1>2, IsList
<1>4. CASE k < Len(list)
  <2>1. k + 1 \in 1..Len(list)
    BY <1>1, <1>4
  <2> QED BY <1>2, <1>3, <2>1 DEF ValueAt
<1>5. CASE ~(k < Len(list))
  BY <1>3, <1>5 DEF ValueAt
<1> QED BY <1>3, <1>4, <1>5

-----------------------------------------------------------------------------
(* Statistics.                                                             *)

Counters == [step : Seq(Nat), accu : Seq(Nat)]
Balanced(c, n) == \A i \in Threads : ValueAt(c.accu, i) + ValueAt(c.step, i) = n[i]

StatsInv ==
    /\ stats \in [Theories -> Counters]
    /\ counted \in [Theories -> [Threads -> Nat]]
    /\ \A h \in Theories : Balanced(stats[h], counted[h])

\* What a step does to the statistics.
LEMMA StatsSteps ==
    ASSUME InterfaceNext
    PROVE  \/ UNCHANGED statsVars
           \/ \E h \in Theories :
                \/ \E i \in Threads : StartThreads(h, i) \/ Count(h, i)
                \/ OnStatistics(h)
BY DEF InterfaceNext, Options, ParseOption, Configure, ValidateOptions, Register, SetRange, AssignmentBegin,
       AssignmentNext, AssignmentEnd, statsVars

\* One theory at a time.
LEMMA StatsOfOne ==
    ASSUME StatsInv, NEW h \in Theories, NEW c \in Counters, NEW n \in [Threads -> Nat],
           Balanced(c, n), stats' = [stats EXCEPT ![h] = c], counted' = [counted EXCEPT ![h] = n]
    PROVE  StatsInv'
<1>1. stats' \in [Theories -> Counters] /\ counted' \in [Theories -> [Threads -> Nat]]
  BY DEF StatsInv
<1>2. ASSUME NEW g \in Theories PROVE Balanced(stats'[g], counted'[g])
  <2>1. CASE g = h
    <3>1. stats'[g] = c /\ counted'[g] = n
      BY <2>1 DEF StatsInv
    <3> QED BY <3>1
  <2>2. CASE g # h
    <3>1. stats'[g] = stats[g] /\ counted'[g] = counted[g]
      BY <2>2 DEF StatsInv
    <3>2. Balanced(stats[g], counted[g])
      BY DEF StatsInv
    <3> QED BY <3>1, <3>2
  <2> QED BY <2>1, <2>2
<1>3. \A g \in Theories : Balanced(stats[g], counted[g])'
  BY <1>2 DEF Balanced
<1> QED BY <1>1, <1>3 DEF StatsInv

LEMMA StepReplaced ==
    ASSUME NEW c \in Counters, NEW s
    PROVE  [c EXCEPT !.step = s] = [step |-> s, accu |-> c.accu]
BY DEF Counters

LEMMA StartKeeps ==
    ASSUME StatsInv, NEW h \in Theories, NEW i \in Threads, StartThreads(h, i)
    PROVE  StatsInv'
<1> DEFINE step == stats[h].step
           more == SolverStats(step, i)
           c == [step |-> more, accu |-> stats[h].accu]
<1>1. stats[h] \in Counters /\ step \in Seq(Nat) /\ stats[h].accu \in Seq(Nat)
  BY DEF StatsInv, Counters
<1>2. i \in Nat /\ Threads \subseteq Nat
  BY InterfaceAssumption DEF Threads
<1>3. more \in Seq(Nat) /\ \A k \in Nat : ValueAt(more, k) = ValueAt(step, k)
  BY <1>1, <1>2, ExtendedKeeps
<1>4. stats' = [stats EXCEPT ![h] = c] /\ counted' = [counted EXCEPT ![h] = counted[h]]
  <2>1. stats' = [stats EXCEPT ![h].step = more] /\ counted' = counted
    BY DEF StartThreads
  <2> HIDE DEF more
  <2>2. [stats[h] EXCEPT !.step = more] = c
    BY <1>1, StepReplaced
  <2> HIDE DEF c
  <2> QED BY <2>1, <2>2 DEF StatsInv
<1> HIDE DEF more
<1>5. c \in Counters /\ c.step = more /\ c.accu = stats[h].accu
  BY <1>1, <1>3 DEF Counters
<1>6. counted[h] \in [Threads -> Nat] /\ Balanced(stats[h], counted[h])
  BY DEF StatsInv
<1> HIDE DEF c
<1>7. Balanced(c, counted[h])
  BY <1>2, <1>3, <1>5, <1>6 DEF Balanced
<1> QED BY <1>4, <1>5, <1>6, <1>7, StatsOfOne

LEMMA CountKeeps ==
    ASSUME StatsInv, NEW h \in Theories, NEW i \in Threads, Count(h, i)
    PROVE  StatsInv'
<1> DEFINE step == stats[h].step
           accu == stats[h].accu
           more == [step EXCEPT ![i + 1] = @ + 1]
           c == [step |-> more, accu |-> accu]
           n == [counted[h] EXCEPT ![i] = @ + 1]
<1>1. stats[h] \in Counters /\ step \in Seq(Nat) /\ accu \in Seq(Nat)
  BY DEF StatsInv, Counters
<1>2. i \in Nat /\ Threads \subseteq Nat /\ Len(step) \in Nat
  BY <1>1, InterfaceAssumption DEF Threads
<1>3. i < Len(step) /\ i + 1 \in 1..Len(step)
  BY <1>1, <1>2 DEF Count
<1>4. step[i + 1] \in Nat /\ step[i + 1] + 1 \in Nat
  <2> HIDE DEF step
  <2>1. step[i + 1] \in Nat
    BY <1>1, <1>3, ElementOfSeq
  <2> QED BY <2>1
<1>5. /\ more \in Seq(Nat) /\ Len(more) = Len(step)
      /\ \A j \in 1..Len(step) : more[j] = IF j = i + 1 THEN step[i + 1] + 1 ELSE step[j]
  <2> HIDE DEF step
  <2> QED BY <1>1, <1>3, <1>4, ExceptSeq
<1>6. stats' = [stats EXCEPT ![h] = c] /\ counted' = [counted EXCEPT ![h] = n]
  <2>1. stats' = [stats EXCEPT ![h].step[i + 1] = @ + 1] /\ counted' = [counted EXCEPT ![h][i] = @ + 1]
    BY DEF Count
  <2>2. [stats[h] EXCEPT !.step[i + 1] = @ + 1] = c
    <3>1. [stats[h] EXCEPT !.step[i + 1] = @ + 1] = [stats[h] EXCEPT !.step = more]
      OBVIOUS
    <3> HIDE DEF more
    <3>2. [stats[h] EXCEPT !.step = more] = c
      BY <1>1, StepReplaced
    <3> HIDE DEF c
    <3> QED BY <3>1, <3>2
  <2>3. [stats EXCEPT ![h].step[i + 1] = @ + 1] = [stats EXCEPT ![h] = [stats[h] EXCEPT !.step[i + 1] = @ + 1]]
    BY DEF StatsInv
  <2> HIDE DEF more, c
  <2> QED BY <2>1, <2>2, <2>3 DEF StatsInv
<1>7. counted[h] \in [Threads -> Nat] /\ Balanced(stats[h], counted[h])
  BY DEF StatsInv
<1>8. n \in [Threads -> Nat] /\ \A k \in Threads : n[k] = IF k = i THEN counted[h][i] + 1 ELSE counted[h][k]
  BY <1>7
<1>9. c \in Counters /\ c.step = more /\ c.accu = accu
  BY <1>1, <1>5 DEF Counters
<1>10. ASSUME NEW k \in Threads PROVE ValueAt(accu, k) + ValueAt(more, k) = n[k]
  <2> HIDE DEF step, more, n, accu
  <2>1. k \in Nat /\ ValueAt(accu, k) \in Nat /\ ValueAt(accu, k) + ValueAt(step, k) = counted[h][k]
    <3>1. k \in Nat /\ ValueAt(accu, k) + ValueAt(step, k) = counted[h][k]
      BY <1>2, <1>7 DEF Balanced, accu, step
    <3>2. CASE k < Len(accu)
      <4>1. Len(accu) \in Nat /\ k + 1 \in 1..Len(accu)
        BY <1>1, <3>1, <3>2
      <4>2. accu[k + 1] \in Nat
        BY <1>1, <4>1, ElementOfSeq
      <4> QED BY <3>1, <3>2, <4>2 DEF ValueAt
    <3>3. CASE ~(k < Len(accu))
      BY <3>1, <3>3 DEF ValueAt
    <3> QED BY <3>1, <3>2, <3>3
  <2>2. CASE k = i
    <3>1. ValueAt(more, k) = step[k + 1] + 1 /\ ValueAt(step, k) = step[k + 1] /\ step[k + 1] \in Nat
      BY <1>3, <1>4, <1>5, <2>2 DEF ValueAt
    <3> QED BY <1>8, <2>1, <2>2, <3>1
  <2>3. CASE k # i /\ k < Len(step)
    <3>1. k + 1 \in 1..Len(step) /\ k + 1 # i + 1
      BY <1>2, <2>1, <2>3
    <3>2. ValueAt(more, k) = ValueAt(step, k)
      BY <1>5, <2>3, <3>1 DEF ValueAt
    <3> QED BY <1>8, <2>1, <2>3, <3>2
  <2>4. CASE k # i /\ ~(k < Len(step))
    <3>1. ValueAt(more, k) = ValueAt(step, k)
      BY <1>5, <2>4 DEF ValueAt
    <3> QED BY <1>8, <2>1, <2>4, <3>1
  <2> QED BY <2>2, <2>3, <2>4
<1> HIDE DEF c, n
<1>11. Balanced(c, n)
  BY <1>9, <1>10 DEF Balanced
<1> QED BY <1>6, <1>8, <1>9, <1>11, StatsOfOne

LEMMA AccumulateKeeps ==
    ASSUME StatsInv, NEW h \in Theories, OnStatistics(h)
    PROVE  StatsInv'
<1> DEFINE step == stats[h].step
           accu == stats[h].accu
           sum == Accumulated(accu, step)
           zeros == Reset(step)
           c == [accu |-> sum, step |-> zeros]
<1>1. stats[h] \in Counters /\ step \in Seq(Nat) /\ accu \in Seq(Nat)
  BY DEF StatsInv, Counters
<1>2. Threads \subseteq Nat
  BY InterfaceAssumption DEF Threads
<1>3. stats' = [stats EXCEPT ![h] = c] /\ counted' = [counted EXCEPT ![h] = counted[h]]
  <2>1. stats' = [stats EXCEPT ![h] = c] /\ counted' = counted
    BY DEF OnStatistics, statsVars, StatsInv
  <2> QED BY <2>1 DEF StatsInv
<1>4. zeros \in Seq(Nat) /\ \A k \in Nat : ValueAt(zeros, k) = 0
  BY <1>1, ResetClears
<1>5. sum \in Seq(Nat) /\ \A k \in Nat : ValueAt(sum, k) = ValueAt(accu, k) + ValueAt(step, k)
  BY <1>1, AccumulatedAdds, EmptySeq
<1> HIDE DEF zeros, sum
<1>6. c \in Counters /\ c.step = zeros /\ c.accu = sum
  BY <1>4, <1>5 DEF Counters
<1>7. counted[h] \in [Threads -> Nat] /\ Balanced(stats[h], counted[h])
  BY DEF StatsInv
<1> HIDE DEF c
<1>8. ASSUME NEW k \in Threads PROVE ValueAt(c.accu, k) + ValueAt(c.step, k) = counted[h][k]
  <2>1. ValueAt(accu, k) + ValueAt(step, k) = counted[h][k] /\ counted[h][k] \in Nat
    BY <1>7 DEF Balanced
  <2>2. ValueAt(sum, k) = ValueAt(accu, k) + ValueAt(step, k) /\ ValueAt(zeros, k) = 0
    BY <1>2, <1>4, <1>5
  <2> QED BY <1>6, <2>1, <2>2
<1>9. Balanced(c, counted[h])
  BY <1>8 DEF Balanced
<1> QED BY <1>3, <1>6, <1>7, <1>9, StatsOfOne

\* No event is lost or counted twice, however many threads are started
\* between two rounds of statistics.
THEOREM StatisticsCorrect == InterfaceSpec => []StatisticsAddUp
<1>1. InterfaceInit => StatsInv
  <2> SUFFICES ASSUME InterfaceInit PROVE StatsInv
    OBVIOUS
  <2>1. <<>> \in Seq(Nat) /\ Len(<<>>) = 0
    BY EmptySeq
  <2>2. [step |-> <<>>, accu |-> <<>>] \in Counters
    BY <2>1 DEF Counters
  <2>3. stats \in [Theories -> Counters] /\ counted \in [Theories -> [Threads -> Nat]]
    BY <2>2 DEF InterfaceInit
  <2>4. ASSUME NEW h \in Theories PROVE Balanced(stats[h], counted[h])
    <3>1. stats[h] = [step |-> <<>>, accu |-> <<>>] /\ counted[h] = [i \in Threads |-> 0]
      BY DEF InterfaceInit
    <3>2. \A k \in Nat : ValueAt(<<>>, k) = 0
      BY <2>1 DEF ValueAt
    <3> QED BY <3>1, <3>2, InterfaceAssumption DEF Balanced, Threads
  <2> QED BY <2>3, <2>4 DEF StatsInv
<1>2. StatsInv /\ [InterfaceNext]_interfaceVars => StatsInv'
  <2> SUFFICES ASSUME StatsInv, [InterfaceNext]_interfaceVars PROVE StatsInv'
    OBVIOUS
  <2>1. CASE UNCHANGED statsVars
    BY <2>1 DEF StatsInv, statsVars, Balanced
  <2>2. CASE InterfaceNext
    BY <2>1, <2>2, StatsSteps, StartKeeps, CountKeeps, AccumulateKeeps
  <2>3. CASE UNCHANGED interfaceVars
    BY <2>1, <2>3 DEF interfaceVars, statsVars
  <2> QED BY <2>2, <2>3
<1>3. StatsInv => StatisticsAddUp
  BY DEF StatsInv, Balanced, StatisticsAddUp, ValueAt
<1> QED BY <1>1, <1>2, <1>3, PTL DEF InterfaceSpec

-----------------------------------------------------------------------------
(* Iteration: what is behind the index has been visited.                   *)

VisitedBehind ==
    /\ named \subseteq Nat /\ index \in Nat /\ visited \in Seq(Nat)
    /\ \A n \in 1..Len(visited) : visited[n] \in named /\ visited[n] < index
    /\ \A v \in named : v < index => \E n \in 1..Len(visited) : visited[n] = v
    /\ \A m, n \in 1..Len(visited) : m < n => visited[m] < visited[n]

IterInv == index = NotIterating \/ VisitedBehind

LEMMA IterationSteps ==
    ASSUME InterfaceNext
    PROVE  \/ UNCHANGED iterationVars
           \/ \E vs \in SUBSET (0..(NumVars - 1)) : AssignmentBegin(vs)
           \/ AssignmentNext
           \/ AssignmentEnd
<1>1. ASSUME NEW h \in Theories, ValidateOptions(h) \/ Register(h) \/ OnStatistics(h)
      PROVE  UNCHANGED iterationVars
  BY <1>1 DEF ValidateOptions, Register, OnStatistics
<1>2. ASSUME NEW h \in Theories, Options(h)
      PROVE  UNCHANGED iterationVars
  BY <1>2 DEF Options, ParseOption, Configure
<1>3. ASSUME NEW h \in Theories, \E empty \in BOOLEAN : SetRange(h, empty)
      PROVE  UNCHANGED iterationVars
  BY <1>3 DEF SetRange
<1>4. ASSUME NEW h \in Theories, NEW i \in Threads, StartThreads(h, i) \/ Count(h, i)
      PROVE  UNCHANGED iterationVars
  BY <1>4 DEF StartThreads, Count
<1> QED BY <1>1, <1>2, <1>3, <1>4 DEF InterfaceNext

LEMMA BeginKeeps ==
    ASSUME NEW vs \in SUBSET (0..(NumVars - 1)), AssignmentBegin(vs)
    PROVE  IterInv'
<1>1. named' \subseteq Nat /\ index' = 0 /\ visited' = <<>>
  BY DEF AssignmentBegin
<1>2. visited' \in Seq(Nat) /\ Len(visited') = 0
  BY <1>1, EmptySeq
<1>3. 1..0 = {} /\ \A v \in Nat : ~(v < 0)
  OBVIOUS
<1> QED BY <1>1, <1>2, <1>3 DEF IterInv, VisitedBehind

LEMMA NextKeeps ==
    ASSUME IterInv, AssignmentNext
    PROVE  IterInv'
<1>1. VisitedBehind
  BY DEF IterInv, AssignmentNext
<1>2. /\ named' = named /\ index' = index + 1 /\ index \in Nat
      /\ visited' = IF index \in named THEN Append(visited, index) ELSE visited
  <2>1. /\ named' = named /\ index' = index + 1 /\ index \in Nat
        /\ visited' = IF index' - 1 \in named THEN Append(visited, index' - 1) ELSE visited
    BY <1>1 DEF AssignmentNext, HasValue, VisitedBehind
  <2>2. index' - 1 = index
    BY <2>1
  <2> QED BY <2>1, <2>2
<1>3. \A v \in named : v < index' <=> v < index \/ v = index
  BY <1>1, <1>2 DEF VisitedBehind
<1>4. CASE index \notin named
  BY <1>1, <1>2, <1>3, <1>4 DEF IterInv, VisitedBehind
<1>5. CASE index \in named
  <2> DEFINE size == Len(visited)
  <2>1. visited \in Seq(Nat) /\ size \in Nat
    BY <1>1, LenProperties DEF VisitedBehind
  <2>2. /\ visited' \in Seq(Nat) /\ Len(visited') = size + 1
        /\ \A n \in 1..size : visited'[n] = visited[n]
        /\ visited'[size + 1] = index
    BY <1>2, <1>5, <2>1, AppendProperties
  <2>3. \A n \in 1..Len(visited') : n \in 1..size \/ n = size + 1
    BY <2>1, <2>2
  <2>4. \A n \in 1..size : n \in 1..Len(visited') /\ visited[n] \in named /\ visited[n] < index
    BY <1>1, <2>1, <2>2 DEF VisitedBehind
  <2>5. size + 1 \in 1..Len(visited')
    BY <2>1, <2>2
  <2>6. \A n \in 1..Len(visited') : visited'[n] \in named' /\ visited'[n] < index'
    BY <1>2, <1>3, <1>5, <2>2, <2>3, <2>4
  <2>7. ASSUME NEW v \in named', v < index' PROVE \E n \in 1..Len(visited') : visited'[n] = v
    <3>1. v \in named /\ (v < index \/ v = index)
      BY <1>2, <1>3, <2>7
    <3>2. CASE v = index
      BY <2>2, <2>5, <3>2
    <3>3. CASE v < index
      <4>1. PICK n \in 1..size : visited[n] = v
        BY <1>1, <3>1, <3>3 DEF VisitedBehind
      <4> QED BY <2>2, <2>4, <4>1
    <3> QED BY <3>1, <3>2, <3>3
  <2>8. ASSUME NEW m \in 1..Len(visited'), NEW n \in 1..Len(visited'), m < n
        PROVE  visited'[m] < visited'[n]
    <3>1. m \in 1..size /\ (n \in 1..size \/ n = size + 1)
      <4>1. Len(visited') = size + 1 /\ m \in 1..(size + 1) /\ n \in 1..(size + 1)
        BY <2>2
      <4> HIDE DEF size
      <4> QED BY <2>1, <2>8, <4>1
    <3>2. visited'[m] = visited[m] /\ visited[m] < index
      BY <2>2, <2>4, <3>1
    <3>3. CASE n = size + 1
      BY <2>2, <3>2, <3>3
    <3>4. CASE n \in 1..size
      <4>1. visited[m] < visited[n]
        BY <1>1, <2>8, <3>1, <3>4 DEF VisitedBehind
      <4> QED BY <2>2, <3>2, <3>4, <4>1
    <3> QED BY <3>1, <3>3, <3>4
  <2>9. named' \subseteq Nat /\ index' \in Nat
    BY <1>1, <1>2 DEF VisitedBehind
  <2> QED BY <2>2, <2>6, <2>7, <2>8, <2>9 DEF IterInv, VisitedBehind
<1> QED BY <1>4, <1>5

\* An iteration that ends has visited every variable with a name, once and
\* in order.
THEOREM IterationComplete == InterfaceSpec => []AssignmentComplete
<1>1. InterfaceInit => IterInv
  BY DEF InterfaceInit, IterInv
<1>2. IterInv /\ [InterfaceNext]_interfaceVars => IterInv'
  <2> SUFFICES ASSUME IterInv, [InterfaceNext]_interfaceVars PROVE IterInv'
    OBVIOUS
  <2>1. CASE UNCHANGED iterationVars
    BY <2>1 DEF IterInv, VisitedBehind, iterationVars
  <2>2. CASE InterfaceNext
    <3>1. CASE AssignmentEnd
      BY <3>1 DEF AssignmentEnd, IterInv
    <3> QED BY <2>1, <2>2, <3>1, IterationSteps, BeginKeeps, NextKeeps
  <2>3. CASE UNCHANGED interfaceVars
    BY <2>1, <2>3 DEF interfaceVars, iterationVars
  <2> QED BY <2>2, <2>3
<1>3. IterInv => AssignmentComplete
  <2> SUFFICES ASSUME IterInv, index # NotIterating, ~HasNext
               PROVE  /\ {visited[n] : n \in DOMAIN visited} = named
                      /\ \A m, n \in DOMAIN visited : m < n => visited[m] < visited[n]
    BY DEF AssignmentComplete
  <2>1. VisitedBehind /\ DOMAIN visited = 1..Len(visited)
    BY LenProperties DEF IterInv, VisitedBehind
  <2>2. \A v \in named : v < index
    BY <2>1 DEF HasNext, VisitedBehind
  <2> QED BY <2>1, <2>2 DEF VisitedBehind
<1> QED BY <1>1, <1>2, <1>3, PTL DEF InterfaceSpec

-----------------------------------------------------------------------------
(* Options are applied in any order: a round is a fold over the options.   *)

OptionVals == (UNION {OptionValues[t] : t \in Targets}) \cup {Initial[t] : t \in Targets}
Settings == [Targets -> OptionVals]
Configs == [default : Settings, solvers : Seq(Settings)]
Keys == Targets \X (Threads \cup {All})

First(s) == CHOOSE x \in s : TRUE

\* Two functions agree on a set if they do without its first element.
Agree(S, f, g) ==
  \A s \in SUBSET S : (s # {} => f[s \ {First(s)}] = g[s \ {First(s)}]) => f[s] = g[s]

\* Then they are the same on a finite set.
LEMMA SameFold ==
  ASSUME NEW S, IsFiniteSet(S), NEW f, NEW g, Agree(S, f, g)
  PROVE  f[S] = g[S]
  <1> DEFINE T == {n \in Nat : \A s \in SUBSET S : Cardinality(s) = n => f[s] = g[s]}
             n == Cardinality(S)
  <1>1. n \in Nat
    BY FS_CardinalityType
  <1>2. 0 \in T
    <2> SUFFICES ASSUME NEW s \in SUBSET S, Cardinality(s) = 0 PROVE f[s] = g[s]
      OBVIOUS
    <2>1. s = {}
      BY FS_Subset, FS_EmptySet
    <2> QED BY <2>1 DEF Agree
  <1>3. ASSUME NEW i \in 1 .. n, i - 1 \in T PROVE i \in T
    <2> SUFFICES ASSUME NEW s \in SUBSET S, Cardinality(s) = i PROVE f[s] = g[s]
      OBVIOUS
    <2>1. IsFiniteSet(s)
      BY FS_Subset
    <2>2. s # {}
      BY <2>1, FS_EmptySet
    <2>3. First(s) \in s
      BY <2>2 DEF First
    <2>4. Cardinality(s \ {First(s)}) = i - 1
      BY <2>1, <2>3, FS_RemoveElement
    <2>5. f[s \ {First(s)}] = g[s \ {First(s)}]
      BY <1>3, <2>4
    <2> QED BY <2>2, <2>5 DEF Agree
  <1>4. n \in T
    <2> HIDE DEF T
    <2>1. n \in 0 .. n
      BY <1>1
    <2> QED BY <1>1, <1>2, <1>3, <2>1, UpTo
  <1> QED BY <1>4

\* What has been applied when the options of s have been.
IsRound(c, options, keys, f) ==
  f = [s \in SUBSET keys |-> IF s = {} THEN c
         ELSE SetValue(f[s \ {First(s)}], First(s)[1], First(s)[2], options[First(s)])]

\* A round is a fold.
LEMMA RoundDef ==
  ASSUME NEW c, NEW options, NEW keys
  PROVE  Round(c, options, keys) = (CHOOSE f : IsRound(c, options, keys, f))[keys]
  BY DEF Round, FoldSet, MapThenFoldSet, IsRound, First

\* The steps of a round.
MakesSteps(c, options, keys, g) ==
  /\ g[{}] = c
  /\ \A s \in SUBSET keys : s # {} =>
       g[s] = SetValue(g[s \ {First(s)}], First(s)[1], First(s)[2], options[First(s)])

\* A round is computed by g if g makes the same steps.
LEMMA RoundIs ==
  ASSUME NEW c, NEW options, NEW keys, IsFiniteSet(keys),
         NEW g \in [SUBSET keys -> Configs], MakesSteps(c, options, keys, g)
  PROVE  Round(c, options, keys) = g[keys]
  <1> DEFINE f == CHOOSE h : IsRound(c, options, keys, h)
  <1>1. IsRound(c, options, keys, g)
    <2> DEFINE h == [s \in SUBSET keys |-> IF s = {} THEN c
                       ELSE SetValue(g[s \ {First(s)}], First(s)[1], First(s)[2], options[First(s)])]
    <2>1. \A s \in SUBSET keys : g[s] = h[s]
      BY DEF MakesSteps
    <2>2. g = h
      BY <2>1
    <2> QED BY <2>2 DEF IsRound
  <1>2. IsRound(c, options, keys, f)
    BY <1>1
  <1> HIDE DEF f
  <1>3. MakesSteps(c, options, keys, f)
    BY <1>2 DEF IsRound, MakesSteps
  <1>4. Agree(keys, f, g)
    BY <1>3 DEF Agree, MakesSteps
  <1>5. f[keys] = g[keys]
    BY <1>4, SameFold
  <1> QED BY <1>5, RoundDef DEF f

-----------------------------------------------------------------------------
(* Configurations of a theory.                                             *)

\* Settings with another value for a target.
With(x, t, v) == [x EXCEPT ![t] = v]

\* The values thread i has or will have.
ConfigOf(c, i) == IF i < Len(c.solvers) THEN c.solvers[i + 1] ELSE c.default

\* The replaced parts of a configuration.
LEMMA ConfigReplaced ==
  ASSUME NEW c \in Configs, NEW s
  PROVE  [c EXCEPT !.solvers = s] = [default |-> c.default, solvers |-> s]
  BY DEF Configs

\* A function on an initial segment is a list of its values.
LEMMA IsSettings ==
  ASSUME NEW n \in Nat, NEW f \in [1..n -> Settings]
  PROVE  f \in Seq(Settings) /\ Len(f) = n /\ DOMAIN f = 1..n
  OBVIOUS

\* Lists are extended by what threads without an entry have.
LEMMA ExtendedConfig ==
  ASSUME NEW c \in Configs, NEW i \in Nat
  PROVE  /\ SolverConfig(c, i) \in Configs
         /\ SolverConfig(c, i).default = c.default
         /\ Len(SolverConfig(c, i).solvers) = IF i < Len(c.solvers) THEN Len(c.solvers) ELSE i + 1
         /\ \A j \in Nat : ConfigOf(SolverConfig(c, i), j) = ConfigOf(c, j)
  <1> DEFINE list == c.solvers
             n == i + 1 - Len(list)
             size == IF n > 0 THEN n ELSE 0
             news == [j \in 1..n |-> c.default]
             all == list \o news
  <1>1. list \in Seq(Settings) /\ Len(list) \in Nat /\ c.default \in Settings
    BY DEF Configs
  <1> HIDE DEF list
  <1>10. n \in Int /\ size \in Nat /\ Len(list) + size = IF i < Len(list) THEN Len(list) ELSE i + 1
    BY <1>1
  <1>2. 1..n = 1..size
    BY <1>10
  <1>11. news \in [1..size -> Settings] /\ \A j \in 1..size : news[j] = c.default
    BY <1>1, <1>2
  <1> HIDE DEF news
  <1>3. news \in Seq(Settings) /\ Len(news) = size /\ \A j \in 1..size : news[j] = c.default
    <2> HIDE DEF size
    <2> QED BY <1>10, <1>11, IsSettings
  <1>4. SolverConfig(c, i) = [default |-> c.default, solvers |-> all]
    <2>1. SolverConfig(c, i) = [c EXCEPT !.solvers = all]
      BY DEF SolverConfig, Extended, list, news
    <2> HIDE DEF all
    <2> QED BY <2>1, ConfigReplaced
  <1>5. /\ all \in Seq(Settings) /\ Len(all) = Len(list) + size
        /\ \A j \in 1..(Len(list) + size) : all[j] = IF j <= Len(list) THEN list[j] ELSE news[j - Len(list)]
    <2> HIDE DEF size
    <2> QED BY <1>1, <1>3, ConcatProperties
  <1> DEFINE m == Len(list)
  <1>6. m + size = IF i < m THEN m ELSE i + 1
    BY <1>10
  <1>7. ASSUME NEW j \in Nat
        PROVE  (IF j < Len(all) THEN all[j + 1] ELSE c.default) = IF j < m THEN list[j + 1] ELSE c.default
    <2> HIDE DEF all, size, n, list, m
    <2>0. m \in Nat /\ size \in Nat /\ Len(all) = m + size
          /\ \A k \in 1..(m + size) : all[k] = IF k <= m THEN list[k] ELSE news[k - m]
      BY <1>1, <1>10, <1>5 DEF m
    <2>1. CASE j < m
      <3>1. j + 1 \in 1..(m + size) /\ j + 1 <= m /\ j < m + size
        BY <2>0, <2>1
      <3>2. all[j + 1] = list[j + 1]
        BY <2>0, <3>1
      <3> QED BY <2>0, <2>1, <3>1, <3>2
    <2>2. CASE ~(j < m) /\ j < m + size
      <3>1. j + 1 \in 1..(m + size) /\ ~(j + 1 <= m) /\ j + 1 - m \in 1..size
        BY <2>0, <2>2
      <3>2. all[j + 1] = news[j + 1 - m]
        BY <2>0, <3>1, SMTT(30)
      <3> QED BY <1>3, <2>0, <2>2, <3>1, <3>2
    <2>3. CASE ~(j < m) /\ ~(j < m + size)
      BY <2>0, <2>3
    <2> QED BY <2>1, <2>2, <2>3
  <1> HIDE DEF all, size, n
  <1>8. SolverConfig(c, i).default = c.default /\ SolverConfig(c, i).solvers = all
    BY <1>4
  <1> QED BY <1>1, <1>4, <1>5, <1>6, <1>7, <1>8 DEF Configs, ConfigOf, list, m

\* A value for all threads.
LEMMA SetForAll ==
  ASSUME NEW c \in Configs, NEW t \in Targets, NEW v \in OptionVals
  PROVE  /\ SetAll(c, t, v) \in Configs
         /\ SetAll(c, t, v).default = With(c.default, t, v)
         /\ Len(SetAll(c, t, v).solvers) = Len(c.solvers)
         /\ \A j \in Nat : ConfigOf(SetAll(c, t, v), j) = With(ConfigOf(c, j), t, v)
  <1> DEFINE list == c.solvers
             news == [n \in DOMAIN list |-> With(list[n], t, v)]
  <1>1. c.default \in Settings /\ list \in Seq(Settings)
    BY DEF Configs
  <1>2. \A x \in Settings : With(x, t, v) \in Settings
    BY DEF Settings, With
  <1>3. /\ news \in Seq(Settings) /\ Len(news) = Len(list)
        /\ \A n \in 1..Len(list) : news[n] = With(list[n], t, v)
    <2>1. Len(list) \in Nat /\ DOMAIN list = 1..Len(list) /\ \A n \in 1..Len(list) : list[n] \in Settings
      BY <1>1
    <2>2. news \in [1..Len(list) -> Settings]
      BY <1>2, <2>1
    <2> QED BY <2>1, <2>2
  <1>4. SetAll(c, t, v) = [default |-> With(c.default, t, v), solvers |-> news]
    BY DEF SetAll, With
  <1> HIDE DEF news
  <1>5. ASSUME NEW j \in Nat, j < Len(list) PROVE j + 1 \in 1..Len(list)
    BY <1>1, <1>5
  <1>6. SetAll(c, t, v).default = With(c.default, t, v) /\ SetAll(c, t, v).solvers = news
    BY <1>4
  <1>7. SetAll(c, t, v) \in Configs
    BY <1>1, <1>2, <1>3, <1>4 DEF Configs
  <1>8. ASSUME NEW j \in Nat PROVE ConfigOf(SetAll(c, t, v), j) = With(ConfigOf(c, j), t, v)
    <2>1. CASE j < Len(list)
      BY <1>3, <1>5, <1>6, <2>1 DEF ConfigOf
    <2>2. CASE ~(j < Len(list))
      BY <1>3, <1>6, <2>2 DEF ConfigOf
    <2> QED BY <2>1, <2>2
  <1> QED BY <1>3, <1>6, <1>7, <1>8

\* A value for a thread.
LEMMA SetForThread ==
  ASSUME NEW c \in Configs, NEW t \in Targets, NEW i \in Nat, NEW v \in OptionVals
  PROVE  /\ SetThread(c, t, i, v) \in Configs
         /\ SetThread(c, t, i, v).default = c.default
         /\ Len(SetThread(c, t, i, v).solvers) = IF i < Len(c.solvers) THEN Len(c.solvers) ELSE i + 1
         /\ \A j \in Nat : ConfigOf(SetThread(c, t, i, v), j) =
              IF j = i THEN With(ConfigOf(c, j), t, v) ELSE ConfigOf(c, j)
  <1> DEFINE d == SolverConfig(c, i)
             list == d.solvers
             news == [list EXCEPT ![i + 1][t] = v]
  <1>1. /\ d \in Configs /\ d.default = c.default /\ \A j \in Nat : ConfigOf(d, j) = ConfigOf(c, j)
        /\ Len(list) = IF i < Len(c.solvers) THEN Len(c.solvers) ELSE i + 1
    BY ExtendedConfig
  <1>2. list \in Seq(Settings) /\ Len(list) \in Nat /\ i + 1 \in 1..Len(list)
    <2>1. list \in Seq(Settings) /\ c.solvers \in Seq(Settings)
      BY <1>1 DEF Configs
    <2>2. Len(list) \in Nat /\ Len(c.solvers) \in Nat
      BY <2>1
    <2> QED BY <1>1, <2>1, <2>2
  <1>3. SetThread(c, t, i, v) = [default |-> c.default, solvers |-> news]
    <2>1. SetThread(c, t, i, v) = [d EXCEPT !.solvers = news]
      BY DEF SetThread
    <2> HIDE DEF d, news
    <2> QED BY <1>1, <2>1, ConfigReplaced
  <1> HIDE DEF d, list
  <1>4. \A x \in Settings : With(x, t, v) \in Settings
    BY DEF Settings, With
  <1>5. /\ news \in Seq(Settings) /\ Len(news) = Len(list)
        /\ \A n \in 1..Len(list) : news[n] = IF n = i + 1 THEN With(list[n], t, v) ELSE list[n]
    <2>1. list[i + 1] \in Settings
      BY <1>2
    <2>2. news = [list EXCEPT ![i + 1] = With(list[i + 1], t, v)]
      BY DEF With
    <2> DEFINE e == With(list[i + 1], t, v)
    <2>3. e \in Settings
      BY <1>4, <2>1
    <2>4. \A n \in 1..Len(list) : n = i + 1 => With(list[n], t, v) = e
      OBVIOUS
    <2> HIDE DEF e, news
    <2>5. news = [list EXCEPT ![i + 1] = e]
      BY <2>2 DEF e
    <2>6. /\ news \in Seq(Settings) /\ Len(news) = Len(list)
          /\ \A n \in 1..Len(list) : news[n] = IF n = i + 1 THEN e ELSE list[n]
      BY <1>2, <2>3, <2>5
    <2> QED BY <2>4, <2>6
  <1> HIDE DEF news
  <1>6. ASSUME NEW j \in Nat
        PROVE  ConfigOf([default |-> c.default, solvers |-> news], j) =
                 IF j = i THEN With(ConfigOf(d, j), t, v) ELSE ConfigOf(d, j)
    <2>1. j < Len(list) => j + 1 \in 1..Len(list)
      BY <1>2
    <2>2. j + 1 = i + 1 <=> j = i
      OBVIOUS
    <2>3. d.default = c.default /\ Len(news) = Len(list)
      BY <1>1, <1>5
    <2>4. CASE j < Len(list)
      <3>1. news[j + 1] = IF j = i THEN With(list[j + 1], t, v) ELSE list[j + 1]
        BY <1>5, <2>1, <2>2, <2>4
      <3> QED BY <2>3, <2>4, <3>1 DEF ConfigOf, list
    <2>5. CASE ~(j < Len(list))
      <3>1. j # i
        BY <1>2, <2>5
      <3> QED BY <2>3, <2>5, <3>1 DEF ConfigOf, list
    <2> QED BY <2>4, <2>5
  <1> QED BY <1>1, <1>3, <1>5, <1>6 DEF Configs

\* A configuration is determined by its default, its threads and their values.
LEMMA SameConfig ==
  ASSUME NEW a \in Configs, NEW b \in Configs, a.default = b.default,
         Len(a.solvers) = Len(b.solvers), \A j \in Nat : ConfigOf(a, j) = ConfigOf(b, j)
  PROVE  a = b
  <1>1. a.solvers \in Seq(Settings) /\ b.solvers \in Seq(Settings)
    BY DEF Configs
  <1>2. ASSUME NEW n \in 1..Len(a.solvers) PROVE a.solvers[n] = b.solvers[n]
    <2>1. n - 1 \in Nat /\ n - 1 < Len(a.solvers) /\ n - 1 + 1 = n
      BY <1>1
    <2>2. ConfigOf(a, n - 1) = ConfigOf(b, n - 1)
      BY <2>1
    <2>3. ConfigOf(a, n - 1) = a.solvers[n] /\ ConfigOf(b, n - 1) = b.solvers[n]
      BY <2>1 DEF ConfigOf
    <2> QED BY <2>2, <2>3
  <1>3. a.solvers = b.solvers
    BY <1>1, <1>2
  <1> QED BY <1>3 DEF Configs

-----------------------------------------------------------------------------
(* What is set when the options in s have been applied.                    *)

Collected(options) ==
  /\ IsFiniteSet(DOMAIN options) /\ DOMAIN options \subseteq Keys
  /\ \A k \in DOMAIN options : options[k] \in OptionVals

Applied(x, options, s, who) ==
  [t \in Targets |-> IF <<t, who>> \in s THEN options[<<t, who>>] ELSE x[t]]

\* Applying options gives settings.
LEMMA AppliedSettings ==
  ASSUME NEW x \in Settings, NEW options, Collected(options), NEW s \in SUBSET DOMAIN options, NEW who
  PROVE  Applied(x, options, s, who) \in Settings
  BY DEF Applied, Settings, Collected

\* Without options for a thread its settings stay.
LEMMA AppliedNone ==
  ASSUME NEW x \in Settings, NEW options, NEW s, NEW who, \A t \in Targets : <<t, who>> \notin s
  PROVE  Applied(x, options, s, who) = x
  BY DEF Applied, Settings

\* One option more.
LEMMA AppliedStep ==
  ASSUME NEW x \in Settings, NEW options, NEW s, NEW t \in Targets, NEW who, <<t, who>> \in s, NEW w
  PROVE  Applied(x, options, s, w) =
           IF w = who THEN With(Applied(x, options, s \ {<<t, who>>}, w), t, options[<<t, who>>])
           ELSE Applied(x, options, s \ {<<t, who>>}, w)
  <1> DEFINE a == Applied(x, options, s \ {<<t, who>>}, w)
  <1>1. \A u \in Targets : <<u, w>> \in s \ {<<t, who>>} <=> <<u, w>> \in s /\ ~(u = t /\ w = who)
    OBVIOUS
  <1>2. CASE w = who
    BY <1>1, <1>2 DEF Applied, With
  <1>3. CASE w # who
    BY <1>1, <1>3 DEF Applied
  <1> QED BY <1>2, <1>3

\* The first round.
AfterAll(c, options, s) ==
  [default |-> Applied(c.default, options, s, All),
   solvers |-> [n \in DOMAIN c.solvers |-> Applied(c.solvers[n], options, s, All)]]

\* All threads have the options, those to be started too.
LEMMA AfterAllConfig ==
  ASSUME NEW c \in Configs, NEW options, Collected(options), NEW s \in SUBSET DOMAIN options
  PROVE  /\ AfterAll(c, options, s) \in Configs
         /\ Len(AfterAll(c, options, s).solvers) = Len(c.solvers)
         /\ AfterAll(c, options, s).default = Applied(c.default, options, s, All)
         /\ \A j \in Nat : ConfigOf(AfterAll(c, options, s), j) = Applied(ConfigOf(c, j), options, s, All)
  <1> DEFINE list == c.solvers
             news == [n \in DOMAIN list |-> Applied(list[n], options, s, All)]
  <1>1. list \in Seq(Settings) /\ c.default \in Settings
    BY DEF Configs
  <1>2. Len(list) \in Nat /\ DOMAIN list = 1..Len(list) /\ \A n \in 1..Len(list) : list[n] \in Settings
    BY <1>1
  <1>3. news \in [1..Len(list) -> Settings] /\ \A n \in 1..Len(list) : news[n] = Applied(list[n], options, s, All)
    BY <1>2, AppliedSettings
  <1>4. AfterAll(c, options, s) = [default |-> Applied(c.default, options, s, All), solvers |-> news]
    BY DEF AfterAll
  <1> HIDE DEF news, list
  <1>5. news \in Seq(Settings) /\ Len(news) = Len(list)
    BY <1>2, <1>3, IsSettings
  <1>6. Applied(c.default, options, s, All) \in Settings
    BY <1>1, AppliedSettings
  <1>7. ASSUME NEW j \in Nat
        PROVE  ConfigOf(AfterAll(c, options, s), j) = Applied(ConfigOf(c, j), options, s, All)
    <2>1. CASE j < Len(list)
      <3>1. j + 1 \in 1..Len(list)
        BY <1>2, <2>1
      <3> QED BY <1>3, <1>4, <1>5, <2>1, <3>1 DEF ConfigOf, list
    <2>2. CASE ~(j < Len(list))
      BY <1>4, <1>5, <2>2 DEF ConfigOf, list
    <2> QED BY <2>1, <2>2
  <1> QED BY <1>4, <1>5, <1>6, <1>7 DEF Configs, list

\* A key is a pair of a target and a thread or all of them.
LEMMA KeyParts ==
  ASSUME NEW k \in Keys
  PROVE  /\ k = <<k[1], k[2]>> /\ k[1] \in Targets /\ k[2] \in Nat
         /\ k[2] # All => k[2] \in Threads
  BY InterfaceAssumption DEF Keys, Threads, All

\* The options for all are applied in any order.
LEMMA FirstRound ==
  ASSUME NEW c \in Configs, NEW options, Collected(options), NEW s \in SUBSET DOMAIN options,
         \A k \in s : k[2] = All
  PROVE  Round(c, options, s) = AfterAll(c, options, s)
  <1> DEFINE g == [r \in SUBSET s |-> AfterAll(c, options, r)]
  <1>1. IsFiniteSet(s)
    BY FS_Subset DEF Collected
  <1>2. g[{}] = c
    <2>1. {} \in SUBSET DOMAIN options /\ g[{}] = AfterAll(c, options, {})
      OBVIOUS
    <2>2. \A j \in Nat : ConfigOf(c, j) \in Settings
      BY DEF Configs, ConfigOf
    <2>3. c.default \in Settings
      BY DEF Configs
    <2>4. \A x \in Settings : Applied(x, options, {}, All) = x
      BY AppliedNone
    <2>5. /\ AfterAll(c, options, {}) \in Configs
          /\ Len(AfterAll(c, options, {}).solvers) = Len(c.solvers)
          /\ AfterAll(c, options, {}).default = c.default
          /\ \A j \in Nat : ConfigOf(AfterAll(c, options, {}), j) = ConfigOf(c, j)
      BY <2>1, <2>2, <2>3, <2>4, AfterAllConfig
    <2>6. AfterAll(c, options, {}) = c
      BY <2>5, SameConfig
    <2> QED BY <2>1, <2>6
  <1>3. ASSUME NEW r \in SUBSET s, r # {}
        PROVE  g[r] = SetValue(g[r \ {First(r)}], First(r)[1], First(r)[2], options[First(r)])
    <2> DEFINE k == First(r)
               q == r \ {k}
               before == AfterAll(c, options, q)
               after == AfterAll(c, options, r)
    <2>1. k \in r /\ k \in Keys /\ k[2] = All /\ options[k] \in OptionVals
      BY <1>3 DEF First, Collected
    <2>2. PICK t \in Targets : k = <<t, All>> /\ k[1] = t
      BY <2>1, KeyParts
    <2>3. q \in SUBSET s /\ q \in SUBSET DOMAIN options /\ r \in SUBSET DOMAIN options
      OBVIOUS
    <2> HIDE DEF k, q
    <2>4. /\ before \in Configs /\ after \in Configs
          /\ Len(before.solvers) = Len(c.solvers) /\ Len(after.solvers) = Len(c.solvers)
          /\ before.default = Applied(c.default, options, q, All)
          /\ after.default = Applied(c.default, options, r, All)
          /\ \A j \in Nat : /\ ConfigOf(before, j) = Applied(ConfigOf(c, j), options, q, All)
                            /\ ConfigOf(after, j) = Applied(ConfigOf(c, j), options, r, All)
      BY <2>3, AfterAllConfig
    <2> HIDE DEF before, after
    <2>5. c.default \in Settings /\ \A j \in Nat : ConfigOf(c, j) \in Settings
      BY DEF Configs, ConfigOf
    <2>6. \A x \in Settings :
            Applied(x, options, r, All) = With(Applied(x, options, q, All), t, options[k])
      <3>1. q = r \ {<<t, All>>} /\ options[k] = options[<<t, All>>] /\ <<t, All>> \in r
        BY <2>1, <2>2 DEF q
      <3> SUFFICES ASSUME NEW x \in Settings
                   PROVE  Applied(x, options, r, All) = With(Applied(x, options, q, All), t, options[k])
        OBVIOUS
      <3>2. \A S : <<t, All>> \in S =>
              Applied(x, options, S, All) =
                IF All = All THEN With(Applied(x, options, S \ {<<t, All>>}, All), t, options[<<t, All>>])
                ELSE Applied(x, options, S \ {<<t, All>>}, All)
        BY <2>2, AppliedStep
      <3> QED BY <3>1, <3>2
    <2> DEFINE set == SetAll(before, t, options[k])
    <2>7. /\ set \in Configs /\ set.default = With(before.default, t, options[k])
          /\ Len(set.solvers) = Len(before.solvers)
          /\ \A j \in Nat : ConfigOf(set, j) = With(ConfigOf(before, j), t, options[k])
      BY <2>1, <2>4, SetForAll
    <2> HIDE DEF set
    <2>8. after = set
      <3>1. after.default = set.default /\ Len(after.solvers) = Len(set.solvers)
        BY <2>4, <2>5, <2>6, <2>7
      <3>2. \A j \in Nat : ConfigOf(after, j) = ConfigOf(set, j)
        BY <2>4, <2>5, <2>6, <2>7
      <3> QED BY <2>4, <2>7, <3>1, <3>2, SameConfig
    <2>9. SetValue(before, k[1], k[2], options[k]) = set
      BY <2>1, <2>2 DEF SetValue, set
    <2>10. g[r] = after /\ g[q] = before
      BY <2>3 DEF before, after
    <2> QED BY <2>8, <2>9, <2>10 DEF k, q
  <1>4. g \in [SUBSET s -> Configs]
    <2>1. \A r \in SUBSET s : AfterAll(c, options, r) \in Configs
      BY AfterAllConfig
    <2> QED BY <2>1
  <1>7. g[s] = AfterAll(c, options, s)
    OBVIOUS
  <1> HIDE DEF g
  <1>5. MakesSteps(c, options, s, g)
    BY <1>2, <1>3 DEF MakesSteps
  <1>6. Round(c, options, s) = g[s]
    <2>1. \A k, o, S : IsFiniteSet(S) /\ MakesSteps(k, o, S, g) /\ g \in [SUBSET S -> Configs] => Round(k, o, S) = g[S]
      BY RoundIs
    <2> QED BY <1>1, <1>4, <1>5, <2>1
  <1> QED BY <1>6, <1>7

-----------------------------------------------------------------------------
(* The second round: lists reach the last thread with an option.           *)

IsReached(c, s, m) ==
  /\ m >= Len(c.solvers) /\ \A k \in s : k[2] < m
  /\ m = Len(c.solvers) \/ \E k \in s : k[2] + 1 = m
Reached(c, s) == CHOOSE m \in Nat : IsReached(c, s, m)

\* There is such a length.
LEMMA ReachedExists ==
  ASSUME NEW c \in Configs, NEW s, s \subseteq Keys, \A k \in s : k[2] # All
  PROVE  Reached(c, s) \in Nat /\ IsReached(c, s, Reached(c, s))
  <1> DEFINE started == Len(c.solvers)
             B == {m \in Nat : m >= started /\ \A k \in s : k[2] < m}
             top == started + NumThreads
  <1>1. started \in Nat
    BY DEF Configs
  <1>2. \A k \in s : k[2] \in Nat /\ k[2] < NumThreads
    BY KeyParts, InterfaceAssumption DEF Threads
  <1>3. top \in B
    BY <1>1, <1>2, InterfaceAssumption
  <1>4. PICK m \in B : \A n \in B : m <= n
    <2> HIDE DEF B
    <2> QED BY <1>3, LeastNatural DEF B
  <1>5. m \in Nat /\ m >= started /\ \A k \in s : k[2] < m
    BY <1>4
  <1>6. m = started \/ \E k \in s : k[2] + 1 = m
    <2> SUFFICES ASSUME m # started, \A k \in s : k[2] + 1 # m PROVE FALSE
      OBVIOUS
    <2>1. m - 1 \in Nat /\ m - 1 >= started
      BY <1>1, <1>5
    <2>2. \A k \in s : k[2] < m - 1
      BY <1>2, <1>5
    <2>3. m - 1 \in B
      BY <2>1, <2>2
    <2>4. m <= m - 1
      BY <1>4, <2>3
    <2> QED BY <1>5, <2>4
  <1>7. IsReached(c, s, m)
    BY <1>5, <1>6 DEF IsReached
  <1> QED BY <1>5, <1>7 DEF Reached

\* The reach is unique.
LEMMA ReachedUnique ==
  ASSUME NEW c \in Configs, NEW s, s \subseteq Keys, \A k \in s : k[2] # All,
         NEW m \in Nat, IsReached(c, s, m)
  PROVE  Reached(c, s) = m
  <1> DEFINE n == Reached(c, s)
             started == Len(c.solvers)
  <1>1. n \in Nat /\ IsReached(c, s, n)
    BY ReachedExists
  <1>2. started \in Nat
    BY DEF Configs
  <1>3. \A k \in s : k[2] \in Nat
    BY KeyParts
  <1> HIDE DEF n
  <1>4. ~(n < m)
    BY <1>1, <1>2, <1>3 DEF IsReached
  <1>5. ~(m < n)
    BY <1>1, <1>2, <1>3 DEF IsReached
  <1>6. n = m
    BY <1>1, <1>4, <1>5
  <1> QED BY <1>6 DEF n

AfterThreads(c, options, s) ==
  [default |-> c.default,
   solvers |-> [n \in 1..Reached(c, s) |-> Applied(ConfigOf(c, n - 1), options, s, n - 1)]]

\* Each thread has its own options.
LEMMA AfterThreadsConfig ==
  ASSUME NEW c \in Configs, NEW options, Collected(options), NEW s \in SUBSET DOMAIN options,
         \A k \in s : k[2] # All
  PROVE  /\ AfterThreads(c, options, s) \in Configs
         /\ Len(AfterThreads(c, options, s).solvers) = Reached(c, s)
         /\ AfterThreads(c, options, s).default = c.default
         /\ \A j \in Nat : ConfigOf(AfterThreads(c, options, s), j) = Applied(ConfigOf(c, j), options, s, j)
  <1> DEFINE n == Reached(c, s)
             news == [i \in 1..n |-> Applied(ConfigOf(c, i - 1), options, s, i - 1)]
             after == AfterThreads(c, options, s)
  <1>1. s \subseteq Keys
    BY DEF Collected
  <1>2. n \in Nat /\ IsReached(c, s, n)
    BY <1>1, ReachedExists
  <1>3. c.default \in Settings /\ \A j \in Nat : ConfigOf(c, j) \in Settings
    BY DEF Configs, ConfigOf
  <1>4. /\ news \in [1..n -> Settings]
        /\ \A i \in 1..n : news[i] = Applied(ConfigOf(c, i - 1), options, s, i - 1)
    <2>1. \A i \in 1..n : i - 1 \in Nat
      BY <1>2
    <2> QED BY <1>3, <2>1, AppliedSettings
  <1>5. after = [default |-> c.default, solvers |-> news]
    BY DEF AfterThreads
  <1> HIDE DEF news, n, after
  <1>6. news \in Seq(Settings) /\ Len(news) = n
    BY <1>2, <1>4, IsSettings
  <1>7. ASSUME NEW j \in Nat
        PROVE  ConfigOf(after, j) = Applied(ConfigOf(c, j), options, s, j)
    <2>1. CASE j < n
      <3>1. j + 1 \in 1..n /\ j + 1 - 1 = j
        BY <1>2, <2>1
      <3>2. news[j + 1] = Applied(ConfigOf(c, j), options, s, j)
        BY <1>4, <3>1
      <3>3. ConfigOf(after, j) = news[j + 1]
        BY <1>5, <1>6, <2>1 DEF ConfigOf
      <3> QED BY <3>2, <3>3
    <2>2. CASE ~(j < n)
      <3>1. ConfigOf(after, j) = c.default
        BY <1>5, <1>6, <2>2 DEF ConfigOf
      <3>2. ~(j < Len(c.solvers))
        <4>1. Len(c.solvers) \in Nat
          BY DEF Configs
        <4> QED BY <1>2, <2>2, <4>1 DEF IsReached
      <3>3. ConfigOf(c, j) = c.default
        BY <3>2 DEF ConfigOf
      <3>4. \A t \in Targets : <<t, j>> \notin s
        <4> SUFFICES ASSUME NEW t \in Targets, <<t, j>> \in s PROVE FALSE
          OBVIOUS
        <4>1. <<t, j>>[2] < n
          BY <1>2 DEF IsReached
        <4> QED BY <2>2, <4>1
      <3>5. Applied(c.default, options, s, j) = c.default
        BY <1>3, <3>4, AppliedNone
      <3> QED BY <3>1, <3>3, <3>5
    <2> QED BY <2>1, <2>2
  <1>8. after \in Configs /\ Len(after.solvers) = n /\ after.default = c.default
    BY <1>3, <1>5, <1>6 DEF Configs
  <1> QED BY <1>7, <1>8 DEF after, n

\* The options for threads are applied in any order.
LEMMA SecondRound ==
  ASSUME NEW c \in Configs, NEW options, Collected(options), NEW s \in SUBSET DOMAIN options,
         \A k \in s : k[2] # All
  PROVE  Round(c, options, s) = AfterThreads(c, options, s)
  <1> DEFINE g == [r \in SUBSET s |-> AfterThreads(c, options, r)]
  <1>1. IsFiniteSet(s)
    BY FS_Subset DEF Collected
  <1>2. g[{}] = c
    <2>1. {} \in SUBSET DOMAIN options /\ g[{}] = AfterThreads(c, options, {})
      OBVIOUS
    <2>2. c.default \in Settings /\ \A j \in Nat : ConfigOf(c, j) \in Settings
      BY DEF Configs, ConfigOf
    <2>3. Reached(c, {}) = Len(c.solvers)
      <3>1. Len(c.solvers) \in Nat
        BY DEF Configs
      <3>2. IsReached(c, {}, Len(c.solvers))
        BY <3>1 DEF IsReached
      <3> QED BY <3>1, <3>2, ReachedUnique
    <2>4. \A x \in Settings, j \in Nat : Applied(x, options, {}, j) = x
      BY AppliedNone
    <2>5. /\ AfterThreads(c, options, {}) \in Configs
          /\ Len(AfterThreads(c, options, {}).solvers) = Len(c.solvers)
          /\ AfterThreads(c, options, {}).default = c.default
          /\ \A j \in Nat : ConfigOf(AfterThreads(c, options, {}), j) = ConfigOf(c, j)
      BY <2>1, <2>2, <2>3, <2>4, AfterThreadsConfig
    <2>6. AfterThreads(c, options, {}) = c
      BY <2>5, SameConfig
    <2> QED BY <2>1, <2>6
  <1>3. ASSUME NEW r \in SUBSET s, r # {}
        PROVE  g[r] = SetValue(g[r \ {First(r)}], First(r)[1], First(r)[2], options[First(r)])
    <2> DEFINE k == First(r)
               q == r \ {k}
               before == AfterThreads(c, options, q)
               after == AfterThreads(c, options, r)
    <2>1. k \in r /\ k \in Keys /\ k[2] # All /\ options[k] \in OptionVals
      BY <1>3 DEF First, Collected
    <2>2. PICK t \in Targets, i \in Threads : k = <<t, i>> /\ k[1] = t /\ k[2] = i
      BY <2>1, KeyParts
    <2>3. i \in Nat /\ i # All
      BY <2>1, <2>2, KeyParts
    <2>4. /\ q \in SUBSET s /\ q \in SUBSET DOMAIN options /\ r \in SUBSET DOMAIN options
          /\ r \subseteq Keys /\ q \subseteq Keys
      BY DEF Collected
    <2>5. q = r \ {<<t, i>>} /\ <<t, i>> \in r /\ options[k] = options[<<t, i>>]
      BY <2>1, <2>2
    <2> HIDE DEF k, q
    <2>6. /\ before \in Configs /\ after \in Configs
          /\ Len(before.solvers) = Reached(c, q) /\ Len(after.solvers) = Reached(c, r)
          /\ before.default = c.default /\ after.default = c.default
          /\ \A j \in Nat : /\ ConfigOf(before, j) = Applied(ConfigOf(c, j), options, q, j)
                            /\ ConfigOf(after, j) = Applied(ConfigOf(c, j), options, r, j)
      BY <2>4, AfterThreadsConfig
    <2> HIDE DEF before, after
    <2>7. c.default \in Settings /\ \A j \in Nat : ConfigOf(c, j) \in Settings
      BY DEF Configs, ConfigOf
    <2>8. ASSUME NEW j \in Nat, NEW x \in Settings
          PROVE  Applied(x, options, r, j) = IF j = i THEN With(Applied(x, options, q, j), t, options[k])
                                             ELSE Applied(x, options, q, j)
      BY <2>2, <2>5, AppliedStep
    <2> DEFINE set == SetThread(before, t, i, options[k])
    <2>9. /\ set \in Configs /\ set.default = before.default
          /\ Len(set.solvers) = IF i < Len(before.solvers) THEN Len(before.solvers) ELSE i + 1
          /\ \A j \in Nat : ConfigOf(set, j) =
               IF j = i THEN With(ConfigOf(before, j), t, options[k]) ELSE ConfigOf(before, j)
      <3>1. \A e \in OptionVals :
              LET new == SetThread(before, t, i, e)
              IN  /\ new \in Configs /\ new.default = before.default
                  /\ Len(new.solvers) = IF i < Len(before.solvers) THEN Len(before.solvers) ELSE i + 1
                  /\ \A j \in Nat : ConfigOf(new, j) =
                       IF j = i THEN With(ConfigOf(before, j), t, e) ELSE ConfigOf(before, j)
        <4>1. t \in Targets /\ before \in Configs
          BY <2>2, <2>6
        <4>2. \A u \in Targets, x \in Configs, e \in OptionVals :
                LET new == SetThread(x, u, i, e)
                IN  /\ new \in Configs /\ new.default = x.default
                    /\ Len(new.solvers) = IF i < Len(x.solvers) THEN Len(x.solvers) ELSE i + 1
                    /\ \A j \in Nat : ConfigOf(new, j) =
                         IF j = i THEN With(ConfigOf(x, j), u, e) ELSE ConfigOf(x, j)
          BY <2>3, SetForThread
        <4> QED BY <4>1, <4>2, Zenon
      <3> QED BY <2>1, <3>1
    <2> HIDE DEF set
    <2>10. Reached(c, r) = IF i < Reached(c, q) THEN Reached(c, q) ELSE i + 1
      <3> DEFINE m == Reached(c, q)
                 n == IF i < m THEN m ELSE i + 1
      <3>1. m \in Nat /\ IsReached(c, q, m)
        BY <2>4, ReachedExists
      <3>2. Len(c.solvers) \in Nat
        BY DEF Configs
      <3> HIDE DEF m
      <3>3. n \in Nat
        BY <2>3, <3>1
      <3>4. \A e \in r : e[2] \in Nat /\ (e \in q \/ e[2] = i)
        BY <2>2, <2>4, <2>5, KeyParts
      <3>5. <<t, i>>[2] = i
        OBVIOUS
      <3>6. IsReached(c, r, n)
        <4>1. n >= Len(c.solvers)
          BY <2>3, <3>1, <3>2 DEF IsReached
        <4>2. \A e \in r : e[2] < n
          BY <2>3, <3>1, <3>4 DEF IsReached
        <4>3. n = Len(c.solvers) \/ \E e \in r : e[2] + 1 = n
          <5>1. CASE i < m
            BY <2>5, <3>1, <5>1 DEF IsReached
          <5>2. CASE ~(i < m)
            BY <2>5, <3>5, <5>2
          <5> QED BY <5>1, <5>2
        <4> QED BY <4>1, <4>2, <4>3 DEF IsReached
      <3>7. Reached(c, r) = n
        <4> HIDE DEF n
        <4> QED BY <2>4, <3>3, <3>6, ReachedUnique
      <3> QED BY <3>7 DEF m
    <2>11. after = set
      <3>1. after.default = set.default /\ Len(after.solvers) = Len(set.solvers)
        BY <2>6, <2>9, <2>10
      <3>2. \A j \in Nat : ConfigOf(after, j) = ConfigOf(set, j)
        BY <2>6, <2>7, <2>8, <2>9
      <3> QED BY <2>6, <2>9, <3>1, <3>2, SameConfig
    <2>12. SetValue(before, k[1], k[2], options[k]) = set
      BY <2>1, <2>2 DEF SetValue, set
    <2>13. g[r] = after /\ g[q] = before
      BY <2>4 DEF before, after
    <2> QED BY <2>11, <2>12, <2>13 DEF k, q
  <1>4. g \in [SUBSET s -> Configs]
    <2>1. \A r \in SUBSET s : AfterThreads(c, options, r) \in Configs
      BY AfterThreadsConfig
    <2> QED BY <2>1
  <1>5. g[s] = AfterThreads(c, options, s)
    OBVIOUS
  <1> HIDE DEF g
  <1>6. MakesSteps(c, options, s, g)
    BY <1>2, <1>3 DEF MakesSteps
  <1>7. Round(c, options, s) = g[s]
    <2>1. \A k, o, S : IsFiniteSet(S) /\ MakesSteps(k, o, S, g) /\ g \in [SUBSET S -> Configs] => Round(k, o, S) = g[S]
      BY RoundIs
    <2> QED BY <1>1, <1>4, <1>6, <2>1
  <1> QED BY <1>5, <1>7

\* The options of a thread win over those for all.
LEMMA DeferredApplied ==
  ASSUME NEW c \in Configs, NEW options, Collected(options)
  PROVE  /\ ApplyDeferred(c, options) \in Configs
         /\ \A j \in Threads, t \in Targets :
              ConfigOf(ApplyDeferred(c, options), j)[t] =
                Promised!Precedence(options, t, j, ConfigOf(c, j)[t])
  <1> DEFINE all == {k \in DOMAIN options : k[2] = All}
             rest == DOMAIN options \ all
             d == AfterAll(c, options, all)
  <1>1. /\ all \in SUBSET DOMAIN options /\ rest \in SUBSET DOMAIN options
        /\ (\A k \in all : k[2] = All) /\ \A k \in rest : k[2] # All
    OBVIOUS
  <1>2. ApplyDeferred(c, options) = Round(Round(c, options, all), options, rest)
    BY DEF ApplyDeferred
  <1>3. \A j \in Threads, t \in Targets :
          /\ <<t, All>> \in all <=> <<t, All>> \in DOMAIN options
          /\ <<t, j>> \in rest <=> <<t, j>> \in DOMAIN options
    <2>1. \A j \in Threads : j # All
      BY InterfaceAssumption DEF Threads, All
    <2>2. \A j, t : <<t, j>>[2] = j
      OBVIOUS
    <2> QED BY <2>1, <2>2
  <1> HIDE DEF all, rest
  <1>4. Round(c, options, all) = d
    BY <1>1, FirstRound
  <1>5. d \in Configs /\ \A j \in Nat : ConfigOf(d, j) = Applied(ConfigOf(c, j), options, all, All)
    BY <1>1, AfterAllConfig
  <1> HIDE DEF d
  <1>6. Round(d, options, rest) = AfterThreads(d, options, rest)
    BY <1>1, <1>5, SecondRound
  <1>7. /\ AfterThreads(d, options, rest) \in Configs
        /\ \A j \in Nat : ConfigOf(AfterThreads(d, options, rest), j) = Applied(ConfigOf(d, j), options, rest, j)
    BY <1>1, <1>5, AfterThreadsConfig
  <1>8. Threads \subseteq Nat
    BY InterfaceAssumption DEF Threads
  <1>9. ASSUME NEW j \in Threads, NEW t \in Targets
        PROVE  Applied(Applied(ConfigOf(c, j), options, all, All), options, rest, j)[t] =
                 Promised!Precedence(options, t, j, ConfigOf(c, j)[t])
    BY <1>3 DEF Applied, Promised!Precedence
  <1> QED BY <1>2, <1>4, <1>5, <1>6, <1>7, <1>8, <1>9

-----------------------------------------------------------------------------
(* The refinement.                                                         *)

OptionsInv ==
  /\ deferred = [h \in Theories |-> deferred[h]]
  /\ \A h \in Theories : Collected(deferred[h])
  /\ config \in [Theories -> Configs]

\* The values of a theory, and those of all theories.
ValuesOf(c) == [t \in Targets |-> [i \in Threads |-> ConfigOf(c, i)[t]]]
AllValues == [h \in Theories |-> Effective(h)]

\* The effective values are those of the lists.
LEMMA EffectiveValues == \A h \in Theories : Effective(h) = ValuesOf(config[h])
  BY DEF Effective, ValuesOf, ConfigOf

\* Nothing is collected at first.
LEMMA OptionsInit == InterfaceInit => OptionsInv
  <1> SUFFICES ASSUME InterfaceInit PROVE OptionsInv
    OBVIOUS
  <1>1. Collected(<<>>)
    <2>1. DOMAIN <<>> = {}
      OBVIOUS
    <2> QED BY <2>1, FS_EmptySet DEF Collected
  <1>2. [default |-> Initial, solvers |-> <<>>] \in Configs
    <2>1. Initial \in Settings
      <3>1. \A t \in Targets : Initial[t] \in OptionVals
        BY DEF OptionVals
      <3>2. [t \in Targets |-> Initial[t]] \in [Targets -> OptionVals]
        BY <3>1
      <3> QED BY <3>2, InterfaceAssumption DEF Settings
    <2>2. <<>> \in Seq(Settings)
      OBVIOUS
    <2> QED BY <2>1, <2>2 DEF Configs
  <1> QED BY <1>1, <1>2 DEF InterfaceInit, OptionsInv

\* What a step does to the options.
LEMMA OptionSteps ==
  ASSUME InterfaceNext
  PROVE  \/ UNCHANGED <<deferred, config>>
         \/ \E h \in Theories :
              \/ Options(h) \/ ValidateOptions(h)
              \/ \E i \in Threads : StartThreads(h, i)
  BY DEF InterfaceNext, Register, SetRange, OnStatistics, Count, AssignmentBegin, AssignmentNext,
         AssignmentEnd, optionVars

\* One theory at a time.
LEMMA ConfigOfOne ==
  ASSUME OptionsInv, NEW h \in Theories, NEW c \in Configs, config' = [config EXCEPT ![h] = c]
  PROVE  /\ config' \in [Theories -> Configs]
         /\ AllValues' = [AllValues EXCEPT ![h] = ValuesOf(c)]
  <1>1. config' \in [Theories -> Configs] /\ \A g \in Theories : config'[g] = IF g = h THEN c ELSE config[g]
    BY DEF OptionsInv
  <1>2. AllValues = [g \in Theories |-> ValuesOf(config[g])]
    BY EffectiveValues DEF AllValues
  <1>3. AllValues' = [g \in Theories |-> ValuesOf(config'[g])]
    BY DEF AllValues, Effective, ValuesOf, ConfigOf
  <1> HIDE DEF AllValues
  <1>4. \A g \in Theories : ValuesOf(config'[g]) = IF g = h THEN ValuesOf(c) ELSE ValuesOf(config[g])
    BY <1>1
  <1>5. AllValues' = [g \in Theories |-> IF g = h THEN ValuesOf(c) ELSE ValuesOf(config[g])]
    BY <1>3, <1>4, Zenon
  <1>6. [AllValues EXCEPT ![h] = ValuesOf(c)] =
          [g \in Theories |-> IF g = h THEN ValuesOf(c) ELSE ValuesOf(config[g])]
    BY <1>2
  <1> QED BY <1>1, <1>5, <1>6

\* The options collected for one theory.
LEMMA DeferredOfOne ==
  ASSUME OptionsInv, NEW h \in Theories, NEW options, Collected(options),
         deferred' = [deferred EXCEPT ![h] = options]
  PROVE  /\ deferred' = [g \in Theories |-> deferred'[g]]
         /\ \A g \in Theories : Collected(deferred'[g])
  <1>1. /\ deferred' = [g \in Theories |-> deferred'[g]]
        /\ \A g \in Theories : deferred'[g] = IF g = h THEN options ELSE deferred[g]
    BY DEF OptionsInv
  <1>2. \A g \in Theories : Collected(deferred[g])
    BY DEF OptionsInv
  <1> QED BY <1>1, <1>2

\* Options of the command line are collected.
LEMMA ParseGives ==
  ASSUME OptionsInv, NEW h \in Theories, NEW t \in Targets, NEW who \in Threads \cup {All},
         NEW v \in OptionValues[t], ParseOption(h, t, who, v)
  PROVE  /\ OptionsInv'
         /\ Promised!Give(h, t, who, v) \/ UNCHANGED <<deferred, AllValues>>
  <1> DEFINE k == <<t, who>>
             o == deferred[h]
             new == [e \in DOMAIN o \cup {k} |-> IF e = k THEN v ELSE o[e]]
  <1>1. config' = config
    BY DEF ParseOption
  <1>2. AllValues' = AllValues
    BY <1>1 DEF AllValues, Effective
  <1>3. CASE k \in DOMAIN o
    <2>1. deferred' = deferred
      BY <1>3 DEF ParseOption
    <2> QED BY <1>1, <1>2, <2>1 DEF OptionsInv, Collected
  <1>4. CASE k \notin DOMAIN o
    <2>1. deferred' = [deferred EXCEPT ![h] = new]
      BY <1>4 DEF ParseOption
    <2>2. Collected(new)
      <3>1. Collected(o)
        BY DEF OptionsInv
      <3>2. v \in OptionVals /\ k \in Keys
        BY DEF OptionVals, Keys
      <3>3. IsFiniteSet(DOMAIN o \cup {k})
        BY <3>1, FS_AddElement DEF Collected
      <3> QED BY <3>1, <3>2, <3>3 DEF Collected
    <2>3. Promised!Give(h, t, who, v)
      <3>1. UNCHANGED [g \in Theories |-> Effective(g)]
        BY <1>2 DEF AllValues
      <3> QED BY <1>4, <2>1, <3>1 DEF Promised!Give
    <2> HIDE DEF new
    <2>4. OptionsInv'
      BY <1>1, <2>1, <2>2, DeferredOfOne DEF OptionsInv
    <2> QED BY <2>3, <2>4
  <1> QED BY <1>3, <1>4

\* Calls take effect at once.
LEMMA ConfigureSets ==
  ASSUME OptionsInv, NEW h \in Theories, NEW t \in Targets, NEW who \in Threads \cup {All},
         NEW v \in OptionValues[t], Configure(h, t, who, v)
  PROVE  OptionsInv' /\ Promised!Set(h, t, who, v)
  <1> DEFINE c == config[h]
             d == SetValue(c, t, who, v)
  <1>1. c \in Configs /\ v \in OptionVals
    BY DEF OptionsInv, OptionVals
  <1>2. config' = [config EXCEPT ![h] = d] /\ deferred' = deferred
    BY DEF Configure
  <1>3. Threads \subseteq Nat /\ All \notin Threads /\ (who = All \/ who \in Nat)
    BY InterfaceAssumption DEF Threads, All
  <1> HIDE DEF c
  <1>4. d \in Configs /\ \A i \in Threads :
          ConfigOf(d, i) = IF who \in {i, All} THEN With(ConfigOf(c, i), t, v) ELSE ConfigOf(c, i)
    <2>1. CASE who = All
      <3>1. d = SetAll(c, t, v)
        BY <2>1 DEF SetValue
      <3> QED BY <1>1, <1>3, <2>1, <3>1, SetForAll
    <2>2. CASE who # All
      <3>1. d = SetThread(c, t, who, v)
        BY <2>2 DEF SetValue
      <3> QED BY <1>1, <1>3, <2>2, <3>1, SetForThread
    <2> QED BY <2>1, <2>2
  <1> HIDE DEF d
  <1>5. config' \in [Theories -> Configs] /\ AllValues' = [AllValues EXCEPT ![h] = ValuesOf(d)]
    BY <1>2, <1>4, ConfigOfOne
  <1>6. OptionsInv'
    BY <1>2, <1>5 DEF OptionsInv, Collected
  <1>7. AllValues[h] = ValuesOf(c)
    BY EffectiveValues DEF AllValues, c
  <1>8. ValuesOf(d) = [ValuesOf(c) EXCEPT ![t] = [i \in Threads |-> IF who \in {i, All} THEN v ELSE ValuesOf(c)[t][i]]]
    <2>1. \A i \in Threads : ConfigOf(c, i) \in Settings
      BY <1>1, <1>3 DEF Configs, ConfigOf
    <2>2. \A i \in Threads, u \in Targets : ConfigOf(d, i)[u] =
            IF u = t /\ who \in {i, All} THEN v ELSE ConfigOf(c, i)[u]
      BY <1>4, <2>1 DEF With, Settings
    <2>3. ValuesOf(d) = [u \in Targets |-> [i \in Threads |->
            IF u = t /\ who \in {i, All} THEN v ELSE ConfigOf(c, i)[u]]]
      BY <2>2 DEF ValuesOf
    <2>4. \A i \in Threads : ValuesOf(c)[t][i] = ConfigOf(c, i)[t]
      BY DEF ValuesOf
    <2> QED BY <2>3, <2>4 DEF ValuesOf
  <1>9. AllValues' = [AllValues EXCEPT ![h][t] = [i \in Threads |-> IF who \in {i, All} THEN v ELSE @[i]]]
    <2> HIDE DEF AllValues
    <2>1. [AllValues EXCEPT ![h][t] = [i \in Threads |-> IF who \in {i, All} THEN v ELSE @[i]]]
            = [AllValues EXCEPT ![h] = [AllValues[h] EXCEPT ![t] =
                [i \in Threads |-> IF who \in {i, All} THEN v ELSE AllValues[h][t][i]]]]
      OBVIOUS
    <2> QED BY <1>5, <1>7, <1>8, <2>1
  <1> QED BY <1>2, <1>6, <1>9 DEF Promised!Set, AllValues

\* Deferred options are applied together.
LEMMA ValidateApplies ==
  ASSUME OptionsInv, NEW h \in Theories, ValidateOptions(h)
  PROVE  OptionsInv' /\ Promised!Apply(h)
  <1> DEFINE c == config[h]
             o == deferred[h]
             d == ApplyDeferred(c, o)
  <1>1. c \in Configs /\ Collected(o)
    BY DEF OptionsInv
  <1>2. config' = [config EXCEPT ![h] = d] /\ deferred' = [deferred EXCEPT ![h] = <<>>]
    BY DEF ValidateOptions
  <1>3. d \in Configs /\ \A j \in Threads, t \in Targets :
          ConfigOf(d, j)[t] = Promised!Precedence(o, t, j, ConfigOf(c, j)[t])
    <2> HIDE DEF c, o
    <2> QED BY <1>1, DeferredApplied
  <1> HIDE DEF c, o, d
  <1>4. config' \in [Theories -> Configs] /\ AllValues' = [AllValues EXCEPT ![h] = ValuesOf(d)]
    BY <1>2, <1>3, ConfigOfOne
  <1>5. Collected(<<>>)
    <2>1. DOMAIN <<>> = {}
      OBVIOUS
    <2> QED BY <2>1, FS_EmptySet DEF Collected
  <1>6. OptionsInv'
    <2>1. deferred' = [g \in Theories |-> deferred'[g]] /\ \A g \in Theories : Collected(deferred'[g])
      BY <1>2, <1>5, DeferredOfOne
    <2> QED BY <1>4, <2>1 DEF OptionsInv, Collected
  <1>7. AllValues[h] = ValuesOf(c)
    BY EffectiveValues DEF AllValues, c
  <1>8. ValuesOf(d) = [t \in Targets |-> [i \in Threads |-> Promised!Precedence(o, t, i, ValuesOf(c)[t][i])]]
    <2>1. \A t \in Targets, i \in Threads : ValuesOf(c)[t][i] = ConfigOf(c, i)[t]
      BY DEF ValuesOf
    <2>2. ValuesOf(d) = [t \in Targets |-> [i \in Threads |-> Promised!Precedence(o, t, i, ConfigOf(c, i)[t])]]
      BY <1>3, Zenon DEF ValuesOf
    <2> HIDE DEF ValuesOf
    <2> QED BY <2>1, <2>2, Zenon
  <1>9. AllValues' = [AllValues EXCEPT ![h] =
          [t \in Targets |-> [i \in Threads |-> Promised!Precedence(o, t, i, @[t][i])]]]
    <2> HIDE DEF AllValues
    <2> QED BY <1>4, <1>7, <1>8
  <1> QED BY <1>2, <1>6, <1>9 DEF Promised!Apply, AllValues, o

\* Threads that are started have what was promised to them before.
LEMMA StartStutters ==
  ASSUME OptionsInv, NEW h \in Theories, NEW i \in Threads, StartThreads(h, i)
  PROVE  OptionsInv' /\ UNCHANGED <<deferred, AllValues>>
  <1> DEFINE c == config[h]
             d == SolverConfig(c, i)
  <1>1. c \in Configs
    BY DEF OptionsInv
  <1>2. config' = [config EXCEPT ![h] = d] /\ deferred' = deferred
    BY DEF StartThreads
  <1>3. Threads \subseteq Nat
    BY InterfaceAssumption DEF Threads
  <1> HIDE DEF c
  <1>4. d \in Configs /\ \A j \in Threads : ConfigOf(d, j) = ConfigOf(c, j)
    BY <1>1, <1>3, ExtendedConfig
  <1> HIDE DEF d
  <1>5. config' \in [Theories -> Configs] /\ AllValues' = [AllValues EXCEPT ![h] = ValuesOf(d)]
    BY <1>2, <1>4, ConfigOfOne
  <1>6. ValuesOf(d) = ValuesOf(c)
    BY <1>4 DEF ValuesOf
  <1>7. AllValues[h] = ValuesOf(c)
    BY EffectiveValues DEF AllValues, c
  <1>8. AllValues' = AllValues
    <2>1. AllValues = [g \in Theories |-> AllValues[g]]
      BY DEF AllValues
    <2> HIDE DEF AllValues
    <2> QED BY <1>5, <1>6, <1>7, <2>1
  <1> QED BY <1>2, <1>5, <1>8 DEF OptionsInv, Collected

\* The options of the C interface, with lists that grow on demand and two
\* rounds for deferred options, are the promised values per thread, for any
\* number of theories, targets and threads.
THEOREM OptionsAsPromised == InterfaceSpec => ImplementsThreadConfig
  <1>1. InterfaceInit => Promised!Init
    <2> SUFFICES ASSUME InterfaceInit PROVE Promised!Init
      OBVIOUS
    <2>1. \A h \in Theories : config[h] = [default |-> Initial, solvers |-> <<>>]
      BY DEF InterfaceInit
    <2>2. \A i \in Threads : ~(i < Len(<<>>))
      BY InterfaceAssumption DEF Threads
    <2>3. \A h \in Theories : Effective(h) = [t \in Targets |-> [i \in Threads |-> Initial[t]]]
      BY <2>1, <2>2 DEF Effective
    <2> QED BY <2>3 DEF Promised!Init, InterfaceInit
  <1>2. OptionsInv /\ [InterfaceNext]_interfaceVars =>
          OptionsInv' /\ (Promised!Next \/ UNCHANGED <<deferred, AllValues>>)
    <2> SUFFICES ASSUME OptionsInv, [InterfaceNext]_interfaceVars
                 PROVE  OptionsInv' /\ (Promised!Next \/ UNCHANGED <<deferred, AllValues>>)
      OBVIOUS
    <2>1. CASE UNCHANGED <<deferred, config>>
      BY <2>1 DEF OptionsInv, Collected, AllValues, Effective
    <2>2. ASSUME NEW h \in Theories, Options(h)
          PROVE  OptionsInv' /\ (Promised!Next \/ UNCHANGED <<deferred, AllValues>>)
      <3>1. PICK t \in Targets, who \in Threads \cup {All} : \E v \in OptionValues[t] :
              ParseOption(h, t, who, v) \/ Configure(h, t, who, v)
        BY <2>2 DEF Options
      <3>2. PICK v \in OptionValues[t] : ParseOption(h, t, who, v) \/ Configure(h, t, who, v)
        BY <3>1
      <3>3. Promised!Give(h, t, who, v) \/ Promised!Set(h, t, who, v) => Promised!Next
        BY <3>1, <3>2 DEF Promised!Next
      <3>4. CASE ParseOption(h, t, who, v)
        BY <3>1, <3>2, <3>3, <3>4, ParseGives
      <3>5. CASE Configure(h, t, who, v)
        BY <3>1, <3>2, <3>3, <3>5, ConfigureSets
      <3> QED BY <3>2, <3>4, <3>5
    <2>3. ASSUME NEW h \in Theories, ValidateOptions(h) PROVE OptionsInv' /\ Promised!Next
      BY <2>3, ValidateApplies DEF Promised!Next
    <2>4. ASSUME NEW h \in Theories, NEW i \in Threads, StartThreads(h, i)
          PROVE  OptionsInv' /\ UNCHANGED <<deferred, AllValues>>
      BY <2>4, StartStutters
    <2>5. CASE UNCHANGED interfaceVars
      BY <2>1, <2>5 DEF interfaceVars
    <2>6. CASE InterfaceNext
      BY <2>1, <2>2, <2>3, <2>4, <2>6, OptionSteps
    <2> QED BY <2>5, <2>6
  <1>3. UNCHANGED <<deferred, AllValues>> <=> UNCHANGED <<deferred, [h \in Theories |-> Effective(h)]>>
    BY DEF AllValues
  <1> QED BY <1>1, <1>2, <1>3, OptionsInit, PTL DEF InterfaceSpec, ImplementsThreadConfig, Promised!Spec

-----------------------------------------------------------------------------
(***************************************************************************)
(* Terms are evaluated exactly, and the partial sums of accepted sums fit  *)
(* whatever values the variables take, for integers of any width. What is  *)
(* checked is the sum of the greatest absolute values of the elements: it  *)
(* bounds every partial sum, and the right hand side is accounted for on   *)
(* the one side or the other.                                              *)
(***************************************************************************)

-----------------------------------------------------------------------------
(* The tests of the checked operations are exact, whatever the width of    *)
(* integers is: an operation passes its test exactly if its result fits.   *)

\* The quotient of naturals.
LEMMA Quotient ==
    ASSUME NEW a \in Nat, NEW b \in Nat, b > 0
    PROVE  /\ a \div b \in Nat
           /\ (a \div b) * b <= a
           /\ a < (a \div b) * b + b
  OBVIOUS

\* Comparing with it is comparing products.
LEMMA QuotientBound ==
    ASSUME NEW m \in Nat, NEW a \in Int, NEW b \in Nat, b > 0
    PROVE  a <= m \div b <=> a * b <= m
<1> DEFINE q == m \div b
<1>1. q \in Nat /\ q * b <= m /\ m < q * b + b
  BY Quotient
<1> HIDE DEF q
<1>2. a <= q => a * b <= q * b
  BY <1>1
<1>3. a >= q + 1 => a * b >= (q + 1) * b
  BY <1>1
<1>4. (q + 1) * b = q * b + b
  BY <1>1
<1>5. a <= q \/ a >= q + 1
  BY <1>1
<1>6. a * b \in Int /\ q * b \in Int
  BY <1>1
<1>7. a <= q <=> a * b <= m
  BY <1>1, <1>2, <1>3, <1>4, <1>5, <1>6
<1> QED BY <1>7 DEF q

LEMMA WrappedFits ==
    ASSUME NEW m \in Nat, NEW n \in Ints(m)
    PROVE  Wrapped(m, n) = n
  BY DEF Ints, Lowest, Wrapped

LEMMA AddExact ==
    ASSUME NEW m \in Nat, NEW a \in Ints(m), NEW b \in Ints(m)
    PROVE  AddFits(m, a, b) <=> a + b \in Ints(m)
  BY DEF AddFits, Ints, Lowest

LEMMA SubExact ==
    ASSUME NEW m \in Nat, NEW a \in Ints(m), NEW b \in Ints(m)
    PROVE  SubFits(m, a, b) <=> a - b \in Ints(m)
  BY DEF SubFits, Ints, Lowest

LEMMA InvExact ==
    ASSUME NEW m \in Nat, NEW a \in Ints(m)
    PROVE  InvFits(m, a) <=> -a \in Ints(m)
  BY DEF InvFits, Ints, Lowest

\* The rounded quotient, by the signs of its arguments.
LEMMA TruncSigns ==
    ASSUME NEW a \in Nat, NEW b \in Nat, b > 0
    PROVE  /\ TruncDiv(a, b) = a \div b
           /\ a > 0 => TruncDiv(-a, b) = -(a \div b)
           /\ TruncDiv(a, -b) = -(a \div b)
           /\ a > 0 => TruncDiv(-a, -b) = a \div b
<1>1. -(-a) = a /\ -(-b) = b
  OBVIOUS
<1> QED BY <1>1, Quotient DEF TruncDiv

\* The tests of MulFits, by the signs of the factors.
LEMMA BothPositive ==
    ASSUME NEW m \in Nat, NEW a \in Int, NEW b \in Nat, b > 0
    PROVE  a <= TruncDiv(m, b) <=> a * b <= m
<1>1. TruncDiv(m, b) = m \div b
  BY TruncSigns
<1> QED BY <1>1, QuotientBound

LEMMA OneNegative ==
    ASSUME NEW n \in Nat, n > 0, NEW a \in Nat, a > 0, NEW c \in Int
    PROVE  -c >= TruncDiv(-n, a) <=> c * a <= n
<1>1. TruncDiv(-n, a) = -(n \div a)
  BY TruncSigns
<1>2. n \div a \in Nat
  BY Quotient
<1>3. c <= n \div a <=> c * a <= n
  BY QuotientBound
<1>4. -c >= -(n \div a) <=> c <= n \div a
  BY <1>2
<1> QED BY <1>1, <1>3, <1>4

LEMMA BothNegative ==
    ASSUME NEW m \in Nat, NEW c \in Nat, c > 0, NEW d \in Int
    PROVE  -d >= TruncDiv(m, -c) <=> d * c <= m
<1>1. TruncDiv(m, -c) = -(m \div c)
  BY TruncSigns
<1>2. m \div c \in Nat
  BY Quotient
<1>3. d <= m \div c <=> d * c <= m
  BY QuotientBound
<1>4. -d >= -(m \div c) <=> d <= m \div c
  BY <1>2
<1> QED BY <1>1, <1>3, <1>4

LEMMA MulExact ==
    ASSUME NEW m \in Nat, NEW a \in Ints(m), NEW b \in Ints(m)
    PROVE  MulFits(m, a, b) <=> a * b \in Ints(m)
<1> DEFINE p == a * b
<1>1. a \in Int /\ b \in Int
  BY DEF Ints, Lowest
<1>2. p \in Int /\ (p \in Ints(m) <=> -p <= m + 1 /\ p <= m)
  BY <1>1 DEF Ints, Lowest
<1>3. /\ a > 0 /\ b > 0 => p > 0
      /\ a > 0 /\ b <= 0 => p <= 0
      /\ a <= 0 /\ b > 0 => p <= 0
      /\ a < 0 /\ b <= 0 => p >= 0
      /\ a = 0 => p = 0
  BY <1>1
<1>4. (-b) * a = -p /\ (-a) * b = -p /\ (-b) * (-a) = p
  BY <1>1
<1>5. a > 0 /\ b > 0 => (a <= TruncDiv(m, b) <=> p <= m)
  BY <1>1, BothPositive
<1>6. a > 0 /\ b <= 0 => (b >= TruncDiv(Lowest(m), a) <=> -p <= m + 1)
  <2>1. Lowest(m) = -(m + 1) /\ m + 1 \in Nat /\ m + 1 > 0 /\ -(-b) = b /\ -b \in Int
    BY <1>1 DEF Lowest
  <2>2. ASSUME a > 0, NEW c \in Int
        PROVE  -c >= TruncDiv(-(m + 1), a) <=> c * a <= m + 1
    <3>1. a \in Nat
      BY <1>1, <2>2
    <3> QED BY <2>1, <2>2, <3>1, OneNegative
  <2>3. a > 0 => (-(-b) >= TruncDiv(-(m + 1), a) <=> (-b) * a <= m + 1)
    BY <2>1, <2>2
  <2> QED BY <2>1, <2>3, <1>4
<1>7. a <= 0 /\ b > 0 => (a >= TruncDiv(Lowest(m), b) <=> -p <= m + 1)
  <2>1. Lowest(m) = -(m + 1) /\ m + 1 \in Nat /\ m + 1 > 0 /\ -(-a) = a /\ -a \in Int
    BY <1>1 DEF Lowest
  <2>2. ASSUME b > 0, NEW c \in Int
        PROVE  -c >= TruncDiv(-(m + 1), b) <=> c * b <= m + 1
    <3>1. b \in Nat
      BY <1>1, <2>2
    <3> QED BY <2>1, <2>2, <3>1, OneNegative
  <2>3. b > 0 => (-(-a) >= TruncDiv(-(m + 1), b) <=> (-a) * b <= m + 1)
    BY <2>1, <2>2
  <2> QED BY <2>1, <2>3, <1>4
<1>8. a < 0 /\ b <= 0 => (b >= TruncDiv(m, a) <=> p <= m)
  <2>1. -(-a) = a /\ -(-b) = b /\ -b \in Int /\ (a < 0 => -a \in Nat /\ -a > 0)
    BY <1>1
  <2>2. a < 0 => (-(-b) >= TruncDiv(m, -(-a)) <=> (-b) * (-a) <= m)
    BY <2>1, BothNegative
  <2> QED BY <2>1, <2>2, <1>4
<1> HIDE DEF p
<1>9. MulFits(m, a, b) <=> p \in Ints(m)
  BY <1>1, <1>2, <1>3, <1>5, <1>6, <1>7, <1>8 DEF MulFits
<1> QED BY <1>9 DEF p

\* Quotients and remainders are no further from zero than their arguments.
LEMMA TruncBounds ==
    ASSUME NEW a \in Int, NEW b \in Int, b # 0
    PROVE  /\ TruncDiv(a, b) \in Int
           /\ a >= 0 => -a <= TruncDiv(a, b) /\ TruncDiv(a, b) <= a
           /\ a <= 0 => a <= TruncDiv(a, b) /\ TruncDiv(a, b) <= -a
           /\ a >= 0 => 0 <= TruncMod(a, b) /\ TruncMod(a, b) <= a
           /\ a <= 0 => a <= TruncMod(a, b) /\ TruncMod(a, b) <= 0
<1> DEFINE abs(i) == IF i < 0 THEN -i ELSE i
           q == abs(a) \div abs(b)
<1>1. abs(a) \in Nat /\ abs(b) \in Nat /\ abs(b) > 0
  OBVIOUS
<1>2. q \in Nat /\ q * abs(b) <= abs(a)
  <2> HIDE DEF abs
  <2> QED BY <1>1, Quotient
<1>3. TruncDiv(a, b) = IF (a < 0) = (b < 0) THEN q ELSE -q
  BY DEF TruncDiv
<1> HIDE DEF q
<1>4. q <= q * abs(b) /\ q * abs(b) \in Nat
  <2> HIDE DEF abs
  <2>1. abs(b) >= 1
    BY <1>1
  <2>2. q * abs(b) >= q * 1
    BY <1>1, <1>2, <2>1
  <2> QED BY <1>1, <1>2, <2>2
<1>5. TruncDiv(a, b) * b = IF a < 0 THEN -(q * abs(b)) ELSE q * abs(b)
  BY <1>2, <1>3
<1>6. TruncMod(a, b) = a - TruncDiv(a, b) * b
  BY DEF TruncMod
<1> DEFINE p == q * abs(b)
<1>7. /\ p \in Nat /\ q \in Nat /\ q <= p /\ p <= abs(a)
      /\ TruncMod(a, b) = a - (IF a < 0 THEN -p ELSE p)
  BY <1>2, <1>4, <1>5, <1>6
<1> HIDE DEF p
<1> QED BY <1>3, <1>7

LEMMA DivFitting ==
    ASSUME NEW m \in Nat, NEW a \in Ints(m), NEW b \in Ints(m), DivFits(m, a, b)
    PROVE  TruncDiv(a, b) \in Ints(m) /\ TruncMod(a, b) \in Ints(m)
<1> DEFINE q == TruncDiv(a, b)
           r == TruncMod(a, b)
<1>1. a \in Int /\ b \in Int /\ b # 0 /\ -m - 1 <= a /\ a <= m /\ (a = -m - 1 => b # -1)
  BY DEF Ints, Lowest, DivFits
<1>2. /\ q \in Int
      /\ a >= 0 => -a <= q /\ q <= a
      /\ a <= 0 => a <= q /\ q <= -a
      /\ a >= 0 => 0 <= r /\ r <= a
      /\ a <= 0 => a <= r /\ r <= 0
  BY <1>1, TruncBounds
<1>3. r = a - q * b
  BY DEF TruncMod
<1> HIDE DEF q, r
<1>4. r \in Int /\ q * b \in Int
  BY <1>1, <1>2, <1>3
<1>5. q # m + 1
  <2> SUFFICES ASSUME q = m + 1 PROVE FALSE
    OBVIOUS
  <2>1. a = -(m + 1) /\ b # -1
    BY <1>1, <1>2
  <2>2. (m + 1) * b <= 0 /\ (m + 1) * b >= a
    BY <1>1, <1>2, <1>3, <1>4, <2>1
  <2>3. b <= -2 => (m + 1) * b <= (m + 1) * (-2)
    BY <1>1
  <2>4. b >= 1 => (m + 1) * b >= m + 1
    BY <1>1
  <2>5. (m + 1) * (-2) < -(m + 1)
    OBVIOUS
  <2> QED BY <1>1, <1>4, <2>1, <2>2, <2>3, <2>4, <2>5
<1>6. -m - 1 <= q /\ q <= m /\ -m - 1 <= r /\ r <= m
  BY <1>1, <1>2, <1>4, <1>5
<1> QED BY <1>2, <1>4, <1>6 DEF q, r, Ints, Lowest

USE ArithmeticAssumption

-----------------------------------------------------------------------------
(* Evaluation                                                              *)

\* What passes the test of an operator has a result that fits.
LEMMA FitsExactly ==
    ASSUME NEW a \in Ints(ValLimit), NEW b \in Ints(ValLimit), NEW op \in Operators, Fits(op, a, b)
    PROVE  Exactly(op, a, b) \in Ints(ValLimit)
<1>1. CASE op = "+"
  BY <1>1, AddExact DEF Fits, Exactly
<1>2. CASE op = "-"
  BY <1>2, SubExact DEF Fits, Exactly
<1>3. CASE op = "*"
  BY <1>3, MulExact DEF Fits, Exactly
<1>4. CASE op = "/"
  BY <1>4, DivFitting DEF Fits, Exactly
<1>5. CASE op = "mod"
  BY <1>5, DivFitting DEF Fits, Exactly, ModFits
<1>6. CASE op = "**"
  BY <1>6 DEF Fits, Exactly
<1>7. CASE op = "neg"
  BY <1>7, InvExact DEF Fits, Exactly
<1> QED BY <1>1, <1>2, <1>3, <1>4, <1>5, <1>6, <1>7 DEF Operators

LEMMA EvaluationInit == ArithmeticInit => EvaluationExact
  BY DEF ArithmeticInit, EvaluationExact, Ints, Lowest

LEMMA EvaluationStep == EvaluationExact /\ [ArithmeticNext]_arithmeticVars => EvaluationExact'
<1> SUFFICES ASSUME EvaluationExact, [ArithmeticNext]_arithmeticVars
             PROVE  EvaluationExact'
  OBVIOUS
<1> USE DEF EvaluationExact
<1>1. CASE Number
  BY <1>1 DEF Number
<1>2. ASSUME NEW op \in Operators, Operator(op)
      PROVE  EvaluationExact'
  <2>1. PICK b \in Numbers :
          IF Fits(op, acc, b)
          THEN acc' = Wrapped(ValLimit, Exactly(op, acc, b)) /\ exact' = Exactly(op, exact, b)
          ELSE UNCHANGED termVars
    BY <1>2 DEF Operator
  <2>2. CASE Fits(op, acc, b)
    <3>1. Exactly(op, acc, b) \in Ints(ValLimit)
      BY <2>2, FitsExactly
    <3> QED BY <2>1, <2>2, <3>1, WrappedFits
  <2>3. CASE ~Fits(op, acc, b)
    BY <2>1, <2>3 DEF termVars
  <2> QED BY <2>2, <2>3
<1>3. CASE UNCHANGED termVars
  BY <1>3 DEF termVars
<1>4. CASE UNCHANGED arithmeticVars
  BY <1>4 DEF arithmeticVars
<1>5. ASSUME NEW co \in Numbers, NEW v \in 0..VarCount, Read(co, v)
      PROVE  UNCHANGED termVars
  BY <1>5 DEF Read
<1>6. EndRead \/ RemoveZero \/ EndRemove \/ CheckElement \/ Accept => UNCHANGED termVars
  BY DEF EndRead, RemoveZero, EndRemove, CheckElement, Accept, termVars
<1> QED BY <1>1, <1>2, <1>3, <1>4, <1>5, <1>6 DEF ArithmeticNext

\* The value of a term is its value with integers of any size, for every width
\* of val_t and all numbers in terms.
THEOREM EvaluationIsExact == ArithmeticSpec => []EvaluationExact
  BY EvaluationInit, EvaluationStep, PTL DEF ArithmeticSpec

-----------------------------------------------------------------------------
(* Sums                                                                    *)

Element == [co : Int, var : Int]
Greatest == [n \in 1..Len(kept) |-> GreatestOf(kept[n].co)]
Reach(k) == PrefixSum(Len(kept), Greatest)[k]

\* The part of the invariant about the checks.
Bounded ==
    /\ checked \in 0..Len(kept)
    /\ min = rhs - Reach(checked) /\ max = rhs + Reach(checked)
    /\ min \in Ints(SumLimit) /\ max \in Ints(SumLimit)

SumInv ==
    /\ kept \in Seq(Element) /\ rhs \in Int
    /\ pc \in {"evaluate", "simplify", "remove"} => checked = 0
    /\ pc \in {"check", "accepted"} => Bounded
    /\ pc = "accepted" => checked = Len(kept)

LEMMA MaxValTyped == MaxVal \in Nat /\ MaxVal <= ValLimit
  BY DEF MaxVal

LEMMA GreatestTyped ==
    ASSUME NEW co \in Int
    PROVE  GreatestOf(co) \in Nat /\ GreatestOf(co) \in Int /\ LeastOf(co) = -GreatestOf(co)
<1> DEFINE M == MaxVal
<1>1. M \in Nat
  BY MaxValTyped
<1>2. /\ GreatestOf(co) = IF co > 0 THEN co * M ELSE co * (-M)
      /\ LeastOf(co) = IF co > 0 THEN co * (-M) ELSE co * M
  BY DEF GreatestOf, LeastOf
<1> HIDE DEF M
<1>3. co * (-M) = -(co * M) /\ co * M \in Int
  BY <1>1
<1>4. (co > 0 => co * M >= 0) /\ (co <= 0 => co * M <= 0)
  BY <1>1
<1> QED BY <1>2, <1>3, <1>4

LEMMA ElementBounds ==
    ASSUME NEW co \in Int, NEW v \in -MaxVal..MaxVal
    PROVE  co * v \in Int /\ -GreatestOf(co) <= co * v /\ co * v <= GreatestOf(co)
<1> DEFINE M == MaxVal
<1>1. M \in Nat
  BY MaxValTyped
<1>2. GreatestOf(co) = IF co > 0 THEN co * M ELSE co * (-M)
  BY DEF GreatestOf
<1>3. v \in -M..M
  OBVIOUS
<1> HIDE DEF M
<1>4. co * (-M) = -(co * M) /\ co * M \in Int /\ co * v \in Int
  BY <1>1, <1>3
<1>5. co > 0 => co * (-M) <= co * v /\ co * v <= co * M
  BY <1>1, <1>3
<1>6. co <= 0 => co * M <= co * v /\ co * v <= co * (-M)
  BY <1>1, <1>3
<1> QED BY <1>2, <1>4, <1>5, <1>6

LEMMA ElementsTyped ==
    ASSUME NEW s \in Seq(Element)
    PROVE  Len(s) \in Nat /\ \A n \in 1..Len(s) : s[n] \in Element /\ s[n].co \in Int
<1>1. Len(s) \in Nat /\ \A n \in 1..Len(s) : s[n] \in Element
  OBVIOUS
<1>2. \A e \in Element : e.co \in Int
  BY DEF Element
<1> QED BY <1>1, <1>2

LEMMA ReachTyped ==
    ASSUME kept \in Seq(Element)
    PROVE  /\ Reach(0) = 0
           /\ \A k \in 0..Len(kept) : Reach(k) \in Int
           /\ \A k \in 1..Len(kept) : Reach(k) = Reach(k - 1) + GreatestOf(kept[k].co)
<1>1. Len(kept) \in Nat /\ \A n \in 1..Len(kept) : kept[n].co \in Int
  BY ElementsTyped
<1>2. Greatest \in [1..Len(kept) -> Int] /\ \A n \in 1..Len(kept) : Greatest[n] = GreatestOf(kept[n].co)
  <2>1. \A n \in 1..Len(kept) : GreatestOf(kept[n].co) \in Int
    BY <1>1, GreatestTyped
  <2> QED BY <2>1 DEF Greatest
<1>3. /\ PrefixSum(Len(kept), Greatest) \in [0..Len(kept) -> Int]
      /\ PrefixSum(Len(kept), Greatest)[0] = 0
      /\ \A i \in 1..Len(kept) :
           PrefixSum(Len(kept), Greatest)[i] = PrefixSum(Len(kept), Greatest)[i - 1] + Greatest[i]
  <2> HIDE DEF Greatest
  <2> QED BY <1>1, <1>2, PrefixSumDef
<1> HIDE DEF Greatest
<1> QED BY <1>1, <1>2, <1>3 DEF Reach

LEMMA ReachGrows ==
    ASSUME kept \in Seq(Element), NEW k \in 0..Len(kept)
    PROVE  Reach(k) <= Reach(Len(kept))
<1> DEFINE n == Len(kept)
           Bad == {j \in 0..n : ~(Reach(n - j) <= Reach(n))}
<1>1. n \in Nat /\ \A i \in 0..n : Reach(i) \in Int
  BY ReachTyped, ElementsTyped
<1>2. ASSUME NEW i \in 1..n
      PROVE  Reach(i - 1) <= Reach(i)
  <2>1. Reach(i) = Reach(i - 1) + GreatestOf(kept[i].co) /\ Reach(i - 1) \in Int
    BY <1>1, ReachTyped
  <2>2. GreatestOf(kept[i].co) \in Nat
    BY ElementsTyped, GreatestTyped
  <2> QED BY <2>1, <2>2
<1>3. Bad = {}
  <2> SUFFICES ASSUME Bad # {} PROVE FALSE
    OBVIOUS
  <2>1. PICK j \in Bad : \A i \in Bad : j <= i
    <3>1. Bad \subseteq Nat
      BY <1>1
    <3> HIDE DEF Bad
    <3> QED BY <3>1, LeastNatural
  <2>2. j \in 0..n /\ ~(Reach(n - j) <= Reach(n))
    OBVIOUS
  <2>3. j # 0
    BY <1>1, <2>2
  <2>4. j - 1 \in 0..n /\ ~(j <= j - 1)
    BY <1>1, <2>2, <2>3
  <2>5. Reach(n - (j - 1)) <= Reach(n)
    BY <2>1, <2>4
  <2>6. n - (j - 1) \in 1..n /\ (n - (j - 1)) - 1 = n - j /\ n - j \in 0..n /\ n - (j - 1) \in 0..n
    BY <1>1, <2>2, <2>3
  <2>7. Reach(n - j) <= Reach(n - (j - 1))
    BY <1>2, <2>6
  <2>8. Reach(n - j) \in Int /\ Reach(n - (j - 1)) \in Int /\ Reach(n) \in Int
    BY <1>1, <2>6
  <2> HIDE DEF n
  <2> QED BY <2>2, <2>5, <2>7, <2>8
<1>4. n - k \in 0..n /\ n - (n - k) = k
  BY <1>1
<1> QED BY <1>3, <1>4

\* No partial sum is further from zero than the reach of its elements.
LEMMA PartialWithin ==
    ASSUME kept \in Seq(Element), NEW x \in [1..Len(kept) -> -MaxVal..MaxVal], NEW k \in 0..Len(kept)
    PROVE  Partial(x, k) \in Int /\ -Reach(k) <= Partial(x, k) /\ Partial(x, k) <= Reach(k)
<1> DEFINE n == Len(kept)
           Within(i) == Partial(x, i) \in Int /\ -Reach(i) <= Partial(x, i) /\ Partial(x, i) <= Reach(i)
           Bad == {i \in 0..n : ~Within(i)}
<1>1. n \in Nat /\ \A i \in 1..n : kept[i].co \in Int
  BY ElementsTyped
<1>2. /\ Products(x) \in [1..n -> Int]
      /\ \A i \in 1..n : Products(x)[i] = kept[i].co * x[i] /\ x[i] \in -MaxVal..MaxVal
  <2>1. \A i \in 1..n : x[i] \in -MaxVal..MaxVal /\ x[i] \in Int
    BY MaxValTyped
  <2> QED BY <1>1, <2>1 DEF Products
<1>3. /\ \A i \in 0..n : Partial(x, i) \in Int
      /\ Partial(x, 0) = 0
      /\ \A i \in 1..n : Partial(x, i) = Partial(x, i - 1) + Products(x)[i]
  BY <1>1, <1>2, PrefixSumDef DEF Partial
<1>4. Within(0)
  BY <1>1, <1>3, ReachTyped
<1>5. ASSUME NEW i \in 1..n, Within(i - 1)
      PROVE  Within(i)
  <2>1. -GreatestOf(kept[i].co) <= Products(x)[i] /\ Products(x)[i] <= GreatestOf(kept[i].co)
    <3>1. /\ kept[i].co \in Int /\ x[i] \in -MaxVal..MaxVal
          /\ Products(x)[i] = kept[i].co * x[i]
      BY <1>1, <1>2
    <3> QED BY <3>1, ElementBounds
  <2>2. Reach(i) = Reach(i - 1) + GreatestOf(kept[i].co) /\ Reach(i - 1) \in Int
    BY <1>1, ReachTyped
  <2>3. GreatestOf(kept[i].co) \in Int /\ Products(x)[i] \in Int
    <3>1. kept[i].co \in Int
      BY <1>1
    <3> QED BY <3>1, <1>2, GreatestTyped
  <2>4. Partial(x, i) = Partial(x, i - 1) + Products(x)[i] /\ Partial(x, i) \in Int
    BY <1>1, <1>3
  <2> QED BY <1>5, <2>1, <2>2, <2>3, <2>4
<1>6. Bad = {}
  <2> SUFFICES ASSUME Bad # {} PROVE FALSE
    OBVIOUS
  <2>1. PICK i \in Bad : \A j \in Bad : i <= j
    <3>1. Bad \subseteq Nat
      BY <1>1
    <3> HIDE DEF Bad
    <3> QED BY <3>1, LeastNatural
  <2>2. i # 0
    BY <1>4
  <2> HIDE DEF Within
  <2>3. i \in 1..n /\ ~Within(i)
    BY <1>1, <2>2
  <2>4. i - 1 \in 0..n /\ i - 1 \notin Bad
    <3>1. i - 1 \in 0..n /\ ~(i <= i - 1)
      BY <1>1, <2>3
    <3> QED BY <3>1, <2>1
  <2> QED BY <2>3, <2>4, <1>5
<1>7. Within(k)
  <2> HIDE DEF Within
  <2> QED BY <1>6
<1> QED BY <1>7

-----------------------------------------------------------------------------
LEMMA SumInit == ArithmeticInit => SumInv
<1> SUFFICES ASSUME ArithmeticInit PROVE SumInv
  OBVIOUS
<1>1. <<>> \in Seq(Element)
  OBVIOUS
<1> QED BY <1>1 DEF ArithmeticInit, SumInv

\* Removing an element leaves a sequence of elements.
LEMMA WithoutTyped ==
    ASSUME NEW s \in Seq(Element), NEW i \in 1..Len(s)
    PROVE  Without(s, i) \in Seq(Element)
<1> DEFINE n == Len(s) - 1
<1>1. n \in Nat /\ \A j \in 1..Len(s) : s[j] \in Element
  OBVIOUS
<1>2. \A j \in 1..n : (IF j < i THEN s[j] ELSE s[j + 1]) \in Element
  BY <1>1
<1>3. Without(s, i) \in [1..n -> Element]
  BY <1>2 DEF Without
<1> HIDE DEF n
<1> QED BY <1>1, <1>3

\* The checks of an element keep the bounds exact.
LEMMA CheckElementInv == SumInv /\ CheckElement => SumInv'
<1> SUFFICES ASSUME SumInv, CheckElement PROVE SumInv'
  OBVIOUS
<1> DEFINE co == kept[checked + 1].co
<1>1. /\ kept \in Seq(Element) /\ Bounded /\ Len(kept) \in Nat
      /\ pc = "check" /\ checked \in 0..Len(kept) /\ checked < Len(kept)
  BY DEF SumInv, CheckElement, Bounded
<1>2. co \in Int /\ checked + 1 \in 1..Len(kept)
  BY <1>1, ElementsTyped
<1>3. CASE pc' = "rejected" /\ UNCHANGED sumVars
  BY <1>3 DEF SumInv, sumVars
<1>4. CASE /\ ValidValue(MaxVal, co)
           /\ MulFits(SumLimit, co, IF co > 0 THEN -MaxVal ELSE MaxVal)
           /\ MulFits(SumLimit, co, IF co > 0 THEN MaxVal ELSE -MaxVal)
           /\ AddFits(SumLimit, min, LeastOf(co)) /\ AddFits(SumLimit, max, GreatestOf(co))
           /\ min' = min + LeastOf(co) /\ max' = max + GreatestOf(co)
           /\ checked' = checked + 1 /\ UNCHANGED <<pc, kept, rhs>>
  <2>1. co \in Ints(SumLimit) /\ MaxVal \in Ints(SumLimit) /\ -MaxVal \in Ints(SumLimit)
    BY <1>2, <1>4, MaxValTyped DEF ValidValue, Ints, Lowest
  <2>2. LeastOf(co) \in Ints(SumLimit) /\ GreatestOf(co) \in Ints(SumLimit)
    BY <2>1, <1>4, MulExact DEF LeastOf, GreatestOf
  <2>3. min \in Ints(SumLimit) /\ max \in Ints(SumLimit)
    BY <1>1 DEF Bounded
  <2>4. min' \in Ints(SumLimit) /\ max' \in Ints(SumLimit)
    BY <2>2, <2>3, <1>4, AddExact
  <2>5. /\ Reach(checked) \in Int /\ GreatestOf(co) \in Int /\ LeastOf(co) = -GreatestOf(co)
        /\ Reach(checked + 1) = Reach(checked) + GreatestOf(co)
    <3>1. (checked + 1) - 1 = checked
      BY <1>1
    <3>2. GreatestOf(co) \in Int /\ LeastOf(co) = -GreatestOf(co)
      BY <1>2, GreatestTyped
    <3>3. Reach(checked) \in Int /\ Reach(checked + 1) = Reach(checked) + GreatestOf(co)
      <4> HIDE DEF Reach
      <4> QED BY <3>1, <1>1, <1>2, ReachTyped
    <3> QED BY <3>2, <3>3
  <2>6. Reach(checked)' = Reach(checked + 1)
    BY <1>4 DEF Reach, Greatest
  <2>7. rhs \in Int /\ min = rhs - Reach(checked) /\ max = rhs + Reach(checked)
    BY <1>1 DEF SumInv, Bounded
  <2>8. min' = rhs' - Reach(checked)' /\ max' = rhs' + Reach(checked)'
    BY <1>4, <2>5, <2>6, <2>7
  <2>9. checked' \in 0..Len(kept') /\ pc' = "check" /\ kept' = kept /\ rhs' = rhs
    BY <1>1, <1>4
  <2> QED BY <1>1, <2>4, <2>7, <2>8, <2>9 DEF SumInv, Bounded
<1>5. QED BY <1>3, <1>4 DEF CheckElement, Reject

LEMMA SumStep == SumInv /\ [ArithmeticNext]_arithmeticVars => SumInv'
<1> SUFFICES ASSUME SumInv, [ArithmeticNext]_arithmeticVars PROVE SumInv'
  OBVIOUS
<1>1. ASSUME UNCHANGED sumVars,
             pc' = pc \/ pc' = "rejected" \/ (pc = "simplify" /\ pc' = "remove")
               \/ (pc = "check" /\ checked = Len(kept) /\ pc' = "accepted")
      PROVE  SumInv'
  BY <1>1 DEF SumInv, sumVars, Bounded, Reach, Greatest
<1>2. CASE Number
  BY <1>1, <1>2 DEF Number
<1>3. ASSUME NEW op \in Operators, Operator(op)
      PROVE  SumInv'
  BY <1>1, <1>3 DEF Operator
<1>4. ASSUME NEW co \in Numbers, NEW v \in 0..VarCount, Read(co, v)
      PROVE  SumInv'
  <2> USE DEF SumInv
  <2>1. pc = "simplify" /\ co \in Int /\ v \in Int
    BY <1>4 DEF Read, Ints, Lowest
  <2>2. CASE UNCHANGED <<pc, sumVars>> \/ Reject
    BY <2>2, <1>1 DEF Reject
  <2>3. CASE rhs' = Wrapped(ValLimit, rhs - co) /\ UNCHANGED <<pc, kept, min, max, checked>>
    <3>1. rhs' \in Int
      BY <2>1, <2>3 DEF Wrapped, Lowest
    <3> QED BY <2>1, <2>3, <3>1
  <2>4. ASSUME NEW n \in DOMAIN kept, UNCHANGED <<pc, rhs, min, max, checked>>,
               kept' = [kept EXCEPT ![n].co = Wrapped(ValLimit, @ + co)]
        PROVE  SumInv'
    <3>1. n \in 1..Len(kept) /\ kept[n] \in Element /\ kept[n].co \in Int
      BY <2>4, ElementsTyped
    <3>2. Wrapped(ValLimit, kept[n].co + co) \in Int
      BY <2>1, <3>1 DEF Wrapped, Lowest
    <3>3. [kept[n] EXCEPT !.co = Wrapped(ValLimit, kept[n].co + co)] \in Element
      BY <3>1, <3>2 DEF Element
    <3>4. kept' = [kept EXCEPT ![n] = [kept[n] EXCEPT !.co = Wrapped(ValLimit, kept[n].co + co)]]
      BY <2>4
    <3>5. kept' \in Seq(Element)
      BY <3>3, <3>4
    <3> QED BY <2>1, <2>4, <3>5
  <2>5. CASE kept' = Append(kept, [co |-> co, var |-> v]) /\ UNCHANGED <<pc, rhs, min, max, checked>>
    <3>1. [co |-> co, var |-> v] \in Element
      BY <2>1 DEF Element
    <3>2. kept' \in Seq(Element)
      BY <2>5, <3>1
    <3> QED BY <2>1, <2>5, <3>2
  <2> QED BY <1>4, <2>2, <2>3, <2>4, <2>5 DEF Read, ReadConstant, ReadKnown, ReadNew
<1>5. CASE EndRead
  BY <1>1, <1>5 DEF EndRead
<1>6. CASE RemoveZero
  <2>1. PICK i \in 1..Len(kept) : kept' = Without(kept, i)
    BY <1>6 DEF RemoveZero
  <2>2. kept' \in Seq(Element)
    BY <2>1, WithoutTyped DEF SumInv
  <2> QED BY <1>6, <2>2 DEF RemoveZero, SumInv
<1>7. CASE EndRemove
  <2>1. CASE pc' = "rejected" /\ UNCHANGED <<min, max>>
    BY <1>1, <1>7, <2>1 DEF EndRemove, sumVars
  <2>2. CASE ValidValue(MaxVal, rhs) /\ pc' = "check" /\ min' = rhs /\ max' = rhs
    <3>1. kept \in Seq(Element) /\ rhs \in Int /\ checked = 0 /\ UNCHANGED <<kept, rhs, checked>>
      BY <1>7 DEF EndRemove, SumInv
    <3>2. Reach(checked)' = 0 /\ Len(kept) \in Nat
      BY <3>1, ReachTyped, ElementsTyped DEF Reach, Greatest
    <3>3. rhs \in Ints(SumLimit)
      BY <3>1, <2>2, MaxValTyped DEF ValidValue, Ints, Lowest
    <3>4. Bounded'
      BY <2>2, <3>1, <3>2, <3>3 DEF Bounded
    <3> QED BY <2>2, <3>1, <3>4 DEF SumInv
  <2> QED BY <1>7, <2>1, <2>2 DEF EndRemove
<1>8. CASE CheckElement
  BY <1>8, CheckElementInv
<1>9. CASE Accept
  BY <1>1, <1>9 DEF Accept
<1>10. CASE UNCHANGED arithmeticVars
  BY <1>1, <1>10 DEF arithmeticVars, sumVars
<1> QED BY <1>2, <1>3, <1>4, <1>5, <1>6, <1>7, <1>8, <1>9, <1>10 DEF ArithmeticNext

LEMMA SumInvSafe == SumInv => AcceptedSumsFit
<1> SUFFICES ASSUME SumInv, pc = "accepted",
                    NEW x \in [1..Len(kept) -> -MaxVal..MaxVal], NEW k \in 0..Len(kept)
             PROVE  /\ Partial(x, k) \in Ints(SumLimit)
                    /\ rhs - Partial(x, k) \in Ints(SumLimit)
  BY DEF AcceptedSumsFit
<1>1. kept \in Seq(Element) /\ rhs \in Int /\ Bounded /\ checked = Len(kept)
  BY DEF SumInv
<1> DEFINE p == Partial(x, k)
           r == Reach(k)
           g == Reach(Len(kept))
<1>2. p \in Int /\ -r <= p /\ p <= r
  BY <1>1, PartialWithin
<1>3. r \in Int /\ g \in Int /\ r <= g
  BY <1>1, ReachTyped, ReachGrows
<1>4. /\ -SumLimit - 1 <= rhs - g /\ rhs - g <= SumLimit
      /\ -SumLimit - 1 <= rhs + g /\ rhs + g <= SumLimit
  BY <1>1 DEF Bounded, Ints, Lowest
<1> HIDE DEF p, r, g
<1>5. /\ -SumLimit - 1 <= p /\ p <= SumLimit
      /\ -SumLimit - 1 <= rhs - p /\ rhs - p <= SumLimit
  BY <1>1, <1>2, <1>3, <1>4
<1> QED BY <1>1, <1>2, <1>5 DEF p, Ints, Lowest

\* Accepted sums never overflow: whatever the width of integers, the sums and
\* the values of their variables are, all partial sums fit.
THEOREM AcceptedSumsNeverOverflow == ArithmeticSpec => []AcceptedSumsFit
  BY SumInit, SumStep, SumInvSafe, PTL DEF ArithmeticSpec

=============================================================================
