------------------------ MODULE OrderSolutions_proofs ------------------------
(***************************************************************************)
(* Solutions satisfy what was added: at a total assignment that propagation*)
(* and the static clauses accept, the variable satisfies every constraint  *)
(* passed to add_simple, in both directions if it is strict, and lies in   *)
(* every domain passed to add_dom, for any constraints, ranges of values,  *)
(* numbers of atoms and of solve steps.                                    *)
(*                                                                         *)
(* The argument: a call leaves clauses and literals that mean values.  No  *)
(* later step loses them: the literal of a value may be replaced by a fact,*)
(* the fact by a bound of level 0, a clause by one of its literals; between*)
(* solve steps only atoms that clauses do not have are removed (Onward).   *)
(* At a solution a literal that means v is true if and only if x <= v, and *)
(* every clause has a true literal.                                        *)
(***************************************************************************)
EXTENDS OrderLiterals_proofs, FiniteSetTheorems

-----------------------------------------------------------------------------
(* What a constraint relies on, in a world w: the atoms that stay, the map,*)
(* the bounds of level 0, clauses, units and the assignment.               *)

\* The literal l is true for good.
Sure(w, l) ==
    /\ Abs(l) = T \/ (w.val[Abs(l)] # 0 /\ w.lev[Abs(l)] = 0)
    /\ Truth(w.val, l) = 1

\* The literal l stands for x <= v: it is the literal of v, or it is decided
\* and so is x <= v, by a fact or by the bounds of level 0.
Means(w, l, v) ==
    \/ v \in DOMAIN w.om.lits /\ w.om.lits[v] = l
    \/ Sure(w, l) /\ (v >= w.b.up \/ (v \in DOMAIN w.om.lits /\ w.om.lits[v] = T))
    \/ Sure(w, -l) /\ (v < w.b.lo \/ (v \in DOMAIN w.om.lits /\ w.om.lits[v] = -T))

\* No solution falsifies the clause c.
Enforced(w, c) ==
    /\ c \subseteq LiteralsOf(w.kept)
    /\ \/ \E l \in c : -l \in c \/ Sure(w, l) \/ l \in w.units
       \/ -T \in w.units
       \/ \E e \in w.clauses : e \subseteq c

\* A literal that stays stands for x <= v.
Stands(w, l, v) == l \in LiteralsOf(w.kept) /\ Means(w, l, v)

\* The clauses of add_simple, with a literal l for the value.
SimpleLinked(w, c) ==
    \E l \in LiteralsOf(w.kept) :
      /\ Stands(w, l, SimpleValue(c))
      /\ Enforced(w, {-c.clit, Towards(c, l)})
      /\ c.strict => Enforced(w, {c.clit, -Towards(c, l)})
SimpleKept(w, c) == (~c.strict /\ Sure(w, -c.clit)) \/ SimpleLinked(w, c)

\* The clauses of add_dom: x is not before the first interval, not behind
\* one but before the next, and not behind the last.
FirstLinked(w, d, lit) ==
    \E l \in LiteralsOf(w.kept) :
      Stands(w, l, d.dom[1][1] - 1) /\ Enforced(w, {-lit, -T, -l})
NextLinked(w, d, lit, i) ==
    \E l \in LiteralsOf(w.kept), m \in LiteralsOf(w.kept) :
      /\ Stands(w, l, d.dom[i][1] - 1) /\ Stands(w, m, d.dom[i - 1][2] - 1)
      /\ Enforced(w, {-lit, m, -l})
LastLinked(w, d, lit) ==
    \E l \in LiteralsOf(w.kept) :
      Stands(w, l, d.dom[Len(d.dom)][2] - 1) /\ Enforced(w, {-lit, -T, l})
DomLinked(w, d, lit) ==
    /\ FirstLinked(w, d, lit) /\ LastLinked(w, d, lit)
    /\ \A i \in 2..Len(d.dom) : NextLinked(w, d, lit, i)
DomKept(w, d) == Sure(w, -d.lit) \/ DomLinked(w, d, T) \/ DomLinked(w, d, d.lit)

\* The atoms that are still there in the next solve step.
Kept == IF pc \in Searching THEN static ELSE used

World == [kept |-> Kept, om |-> om, b |-> trail[1], clauses |-> clauses, units |-> units,
          val |-> assign, lev |-> alevel]

\* The static clauses are propagated once a check has ended.
ClosedInv == (pc = "check" /\ queue = {}) \/ pc = "fixpoint" => StaticClosed

\* What was added is kept.
KeptInv ==
    pc # "unsat" => /\ \A c \in added \intersect Simples : SimpleKept(World, c)
                    /\ \A d \in added \intersect Doms : DomKept(World, d)

\* The invariant.
AddedInv == IInv /\ ClosedInv /\ KeptInv

-----------------------------------------------------------------------------
(* Nothing is lost.                                                        *)

\* The world w2 has all that w has.
Onward(w, w2) ==
    /\ LiteralsOf(w.kept) \subseteq LiteralsOf(w2.kept)
    /\ \A l \in LiteralsOf(w.kept) : Sure(w, l) => Sure(w2, l)
    /\ \A l \in LiteralsOf(w.kept), v \in Int : Means(w, l, v) => Means(w2, l, v)
    /\ \A l \in LiteralsOf(w.kept) : l \in w.units => Sure(w2, l) \/ l \in w2.units
    /\ w.clauses \subseteq w2.clauses

\* The literal -T is in every set of literals, and it is never true.
LEMMA TrueAndFalse ==
    ASSUME NEW w, NEW A
    PROVE  T \in LiteralsOf(A) /\ -T \in LiteralsOf(A) /\ Sure(w, T) /\ ~Sure(w, -T)
<1>1. T \in LiteralsOf(A) /\ -T \in LiteralsOf(A)
  BY DEF T, LiteralsOf
<1>2. Abs(T) = T /\ Abs(-T) = T
  <2>1. \A a \in Nat : (1 = a \/ 1 = -a => a = 1) /\ (-1 = a \/ -1 = -a => a = 1)
    OBVIOUS
  <2>2. T = 1 /\ T \in Int /\ -T \in Int
    BY DEF T
  <2> QED BY <2>1, <2>2, AbsIs
<1>3. Truth(w.val, T) = 1 /\ Truth(w.val, -T) = -1
  BY <1>2 DEF T, Truth
<1> QED BY <1>1, <1>2, <1>3 DEF Sure

\* Clauses stay enforced.
LEMMA EnforcedOnward ==
    ASSUME NEW w, NEW w2, Onward(w, w2), NEW c, Enforced(w, c)
    PROVE  Enforced(w2, c)
<1>1. c \subseteq LiteralsOf(w.kept) /\ c \subseteq LiteralsOf(w2.kept)
  BY DEF Onward, Enforced
<1>2. CASE \E l \in c : -l \in c \/ Sure(w, l) \/ l \in w.units
  <2>1. PICK l \in c : -l \in c \/ Sure(w, l) \/ l \in w.units
    BY <1>2
  <2>2. -l \in c \/ Sure(w2, l) \/ l \in w2.units
    BY <1>1, <2>1 DEF Onward
  <2> QED BY <1>1, <2>2 DEF Enforced
<1>3. CASE -T \in w.units
  <2>1. -T \in w2.units
    BY <1>3, TrueAndFalse DEF Onward
  <2> QED BY <1>1, <2>1 DEF Enforced
<1>4. CASE \E e \in w.clauses : e \subseteq c
  BY <1>1, <1>4 DEF Onward, Enforced
<1> QED BY <1>2, <1>3, <1>4 DEF Enforced

\* Literals keep their values.
LEMMA StandsOnward ==
    ASSUME NEW w, NEW w2, Onward(w, w2), NEW l, NEW v \in Int, Stands(w, l, v)
    PROVE  Stands(w2, l, v) /\ l \in LiteralsOf(w2.kept)
BY DEF Onward, Stands

\* Simple constraints stay enforced.
LEMMA SimpleOnward ==
    ASSUME NEW w, NEW w2, Onward(w, w2), NEW c, SimpleValue(c) \in Int, -c.clit \in LiteralsOf(w.kept),
           SimpleKept(w, c)
    PROVE  SimpleKept(w2, c)
<1>1. CASE ~c.strict /\ Sure(w, -c.clit)
  BY <1>1 DEF Onward, SimpleKept
<1>2. CASE SimpleLinked(w, c)
  <2>1. PICK l \in LiteralsOf(w.kept) :
          /\ Stands(w, l, SimpleValue(c))
          /\ Enforced(w, {-c.clit, Towards(c, l)})
          /\ c.strict => Enforced(w, {c.clit, -Towards(c, l)})
    BY <1>2 DEF SimpleLinked
  <2>2. Stands(w2, l, SimpleValue(c)) /\ l \in LiteralsOf(w2.kept)
    BY <2>1, StandsOnward
  <2>3. Enforced(w2, {-c.clit, Towards(c, l)})
    BY <2>1, EnforcedOnward
  <2>4. c.strict => Enforced(w2, {c.clit, -Towards(c, l)})
    BY <2>1, EnforcedOnward
  <2> QED BY <2>2, <2>3, <2>4 DEF SimpleKept, SimpleLinked
<1> QED BY <1>1, <1>2 DEF SimpleKept

\* The clauses of domains stay enforced.
LEMMA LinksOnward ==
    ASSUME NEW w, NEW w2, Onward(w, w2), NEW d, d.dom \in Seq(Int \X Int), NEW lit, NEW i \in 1..Len(d.dom)
    PROVE  /\ FirstLinked(w, d, lit) => FirstLinked(w2, d, lit)
           /\ i > 1 /\ NextLinked(w, d, lit, i) => NextLinked(w2, d, lit, i)
           /\ LastLinked(w, d, lit) => LastLinked(w2, d, lit)
<1>1. Len(d.dom) \in Nat /\ 1 \in 1..Len(d.dom) /\ Len(d.dom) \in 1..Len(d.dom)
  BY LenProperties
<1>2. /\ d.dom[1][1] - 1 \in Int /\ d.dom[i][1] - 1 \in Int /\ d.dom[Len(d.dom)][2] - 1 \in Int
      /\ i > 1 => d.dom[i - 1][2] - 1 \in Int
  <2>1. \A j \in 1..Len(d.dom) : d.dom[j][1] \in Int /\ d.dom[j][2] \in Int
    BY IntervalIs
  <2>2. i > 1 => i - 1 \in 1..Len(d.dom)
    BY <1>1
  <2>3. \A x \in Int : x - 1 \in Int
    OBVIOUS
  <2> QED BY <1>1, <2>1, <2>2, <2>3
<1>3. ASSUME FirstLinked(w, d, lit)
      PROVE  FirstLinked(w2, d, lit)
  <2>1. PICK l \in LiteralsOf(w.kept) : Stands(w, l, d.dom[1][1] - 1) /\ Enforced(w, {-lit, -T, -l})
    BY <1>3 DEF FirstLinked
  <2>2. Stands(w2, l, d.dom[1][1] - 1) /\ l \in LiteralsOf(w2.kept)
    BY <1>2, <2>1, StandsOnward
  <2>3. Enforced(w2, {-lit, -T, -l})
    BY <2>1, EnforcedOnward
  <2> QED BY <2>2, <2>3 DEF FirstLinked
<1>4. ASSUME LastLinked(w, d, lit)
      PROVE  LastLinked(w2, d, lit)
  <2>1. PICK l \in LiteralsOf(w.kept) : Stands(w, l, d.dom[Len(d.dom)][2] - 1) /\ Enforced(w, {-lit, -T, l})
    BY <1>4 DEF LastLinked
  <2>2. Stands(w2, l, d.dom[Len(d.dom)][2] - 1) /\ l \in LiteralsOf(w2.kept)
    BY <1>2, <2>1, StandsOnward
  <2>3. Enforced(w2, {-lit, -T, l})
    BY <2>1, EnforcedOnward
  <2> QED BY <2>2, <2>3 DEF LastLinked
<1>5. ASSUME i > 1, NextLinked(w, d, lit, i)
      PROVE  NextLinked(w2, d, lit, i)
  <2>1. PICK l \in LiteralsOf(w.kept), m \in LiteralsOf(w.kept) :
          /\ Stands(w, l, d.dom[i][1] - 1) /\ Stands(w, m, d.dom[i - 1][2] - 1)
          /\ Enforced(w, {-lit, m, -l})
    BY <1>5 DEF NextLinked
  <2> DEFINE u == d.dom[i][1] - 1  v == d.dom[i - 1][2] - 1
  <2>0. u \in Int /\ v \in Int /\ Stands(w, l, u) /\ Stands(w, m, v)
    BY <1>2, <1>5, <2>1
  <2> HIDE DEF u, v
  <2>2. Stands(w2, l, u) /\ l \in LiteralsOf(w2.kept)
    BY <2>0, StandsOnward
  <2>3. Stands(w2, m, v) /\ m \in LiteralsOf(w2.kept)
    BY <2>0, StandsOnward
  <2>4. Enforced(w2, {-lit, m, -l})
    BY <2>1, EnforcedOnward
  <2> QED BY <2>2, <2>3, <2>4 DEF NextLinked, u, v
<1> QED BY <1>3, <1>4, <1>5

\* Domains stay enforced.
LEMMA DomOnward ==
    ASSUME NEW w, NEW w2, Onward(w, w2), NEW d, d.dom \in Seq(Int \X Int), d.dom # <<>>,
           -d.lit \in LiteralsOf(w.kept), DomKept(w, d)
    PROVE  DomKept(w2, d)
<1>1. Len(d.dom) \in Nat /\ 1 \in 1..Len(d.dom) /\ \A i \in 2..Len(d.dom) : i \in 1..Len(d.dom) /\ i > 1
  BY EmptySeq, LenProperties
<1>2. \A lit : DomLinked(w, d, lit) => DomLinked(w2, d, lit)
  BY <1>1, LinksOnward DEF DomLinked
<1>3. Sure(w, -d.lit) => Sure(w2, -d.lit)
  BY DEF Onward
<1> QED BY <1>2, <1>3 DEF DomKept

\* Steps follow each other.
LEMMA OnwardTransitive ==
    ASSUME NEW w1, NEW w2, NEW w3, Onward(w1, w2), Onward(w2, w3)
    PROVE  Onward(w1, w3)
BY DEF Onward

-----------------------------------------------------------------------------
(* At a solution.                                                          *)

\* Literals that stay are literals.
LEMMA KeptLiterals ==
    ASSUME Assumptions, IInv
    PROVE  /\ Kept \subseteq used /\ Kept \subseteq Nat \ {0, 1} /\ Kept \subseteq Atoms
           /\ LiteralsOf(Kept) \subseteq LiteralsOf(used) /\ LiteralsOf(used) \subseteq LiteralsOf(Atoms)
           /\ Clits \subseteq Kept
           /\ \A l \in LiteralsOf(Kept) : l \in Int /\ -l \in LiteralsOf(Kept)
           /\ World.kept = Kept /\ World.om = om /\ World.b = trail[1] /\ World.clauses = clauses
           /\ World.units = units /\ World.val = assign /\ World.lev = alevel
<1>1. Atoms \subseteq Nat \ {0, 1} /\ used \subseteq Atoms /\ Clits \subseteq used
  BY Basics
<1>2. Kept \subseteq used /\ Clits \subseteq Kept
  BY <1>1 DEF IInv, PhaseInv, Kept
<1>3. Kept \subseteq Nat \ {0, 1} /\ Kept \subseteq Atoms
  BY <1>1, <1>2
<1>4. \A l \in LiteralsOf(Kept) : l \in Int /\ -l \in LiteralsOf(Kept)
  BY <1>3, NegatedLiteral, LiteralsAreInts
<1>5. LiteralsOf(Kept) \subseteq LiteralsOf(used) /\ LiteralsOf(used) \subseteq LiteralsOf(Atoms)
  BY <1>1, <1>2 DEF LiteralsOf
<1>6. /\ World.kept = Kept /\ World.om = om /\ World.b = trail[1] /\ World.clauses = clauses
      /\ World.units = units /\ World.val = assign /\ World.lev = alevel
  BY DEF World
<1> QED BY <1>2, <1>3, <1>4, <1>5, <1>6

\* Every literal is decided.
LEMMA SolvedLiterals ==
    ASSUME Assumptions, IInv, Solved, NEW l \in LiteralsOf(Kept)
    PROVE  /\ l \in Int /\ -l \in LiteralsOf(Kept)
           /\ IsTrue(l) \/ IsFalse(l)
           /\ ~(IsTrue(l) /\ IsFalse(l))
           /\ IsTrue(-l) <=> IsFalse(l)
<1>1. /\ l \in LiteralsOf(used) /\ Atoms \subseteq Nat \ {0, 1} /\ used \subseteq Atoms
      /\ assign \in [Atoms -> {-1, 0, 1}] /\ l \in LiteralsOf(Atoms) /\ -l \in LiteralsOf(Kept)
  BY KeptLiterals, Basics DEF Assignment
<1>2. /\ l \in Int /\ Truth(assign, l) \in {-1, 0, 1}
      /\ (Truth(assign, -l) = 1 <=> Truth(assign, l) = -1)
      /\ (Abs(l) \in Atoms => (Truth(assign, l) = 0 <=> assign[Abs(l)] = 0))
      /\ (l \in FactLits => Truth(assign, l) = l)
  <2>1. Atoms \subseteq Nat \ {0, 1} /\ assign \in [Atoms -> {-1, 0, 1}] /\ l \in LiteralsOf(Atoms)
    BY <1>1
  <2>2. l \in Int /\ Truth(assign, l) \in {-1, 0, 1}
    BY ONLY <2>1, TruthIs
  <2>3. Truth(assign, -l) = 1 <=> Truth(assign, l) = -1
    <3> DEFINE y == -l
    <3>1. Opposite(y, l)
      BY DEF Opposite
    <3> HIDE DEF y
    <3>2. Truth(assign, y) = 1 <=> Truth(assign, l) = -1
      BY ONLY <2>1, <3>1, OppositeTruth
    <3> QED BY <3>2 DEF y
  <2>4. ASSUME Abs(l) \in Atoms
        PROVE  Truth(assign, l) = 0 <=> assign[Abs(l)] = 0
    BY ONLY <2>1, <2>4, TruthZero
  <2>5. l \in FactLits => Truth(assign, l) = l
    BY ONLY <2>1, TruthIs
  <2> QED BY <2>2, <2>3, <2>4, <2>5
<1>3. l \in FactLits \/ Abs(l) \in used
  <2>1. used \subseteq Nat \ {0, 1} /\ [a \in used |-> assign[a]] \in [used -> {-1, 0, 1}]
    BY <1>1
  <2> QED BY <1>1, <2>1, TruthIs
<1>4. \A a \in used : assign[a] # 0
  BY DEF Solved, Fallbacks
<1>5. Truth(assign, l) # 0
  <2>1. CASE l \in FactLits
    <3>1. l # 0
      BY <2>1 DEF FactLits, T
    <3> QED BY <1>2, <2>1, <3>1
  <2>2. CASE Abs(l) \in used
    BY <1>1, <1>2, <1>4, <2>2
  <2> QED BY <1>3, <2>1, <2>2
<1> QED BY <1>1, <1>2, <1>5 DEF IsTrue, IsFalse

\* The literal of what is always true.
LEMMA SolvedTrue ==
    ASSUME Assumptions, IInv
    PROVE  IsTrue(T) /\ IsFalse(-T) /\ ~IsTrue(-T)
<1>1. T \in LiteralsOf(Atoms) /\ -T \in LiteralsOf(Atoms) /\ T \in FactLits /\ -T \in FactLits
  BY TrueAndFalse DEF FactLits
<1>2. Atoms \subseteq Nat \ {0, 1} /\ assign \in [Atoms -> {-1, 0, 1}]
  BY Basics DEF Assignment
<1>3. Truth(assign, T) = T /\ Truth(assign, -T) = -T
  BY <1>1, <1>2, TruthIs
<1> QED BY <1>3 DEF IsTrue, IsFalse, T

\* A literal that stands for x <= v is true if and only if x <= v.
LEMMA MeaningExact ==
    ASSUME Assumptions, IInv, Solved, NEW l, NEW v \in Int, Stands(World, l, v)
    PROVE  IsTrue(l) <=> Top.lo <= v
<1>1. l \in LiteralsOf(Kept) /\ Means(World, l, v)
  BY KeptLiterals DEF Stands
<1>2. l \in Int /\ (IsTrue(l) \/ IsFalse(l)) /\ (IsTrue(-l) <=> IsFalse(l)) /\ ~(IsTrue(l) /\ IsFalse(l))
  BY <1>1, SolvedLiterals DEF IsTrue, IsFalse
<1>3. /\ Top.lo \in Int /\ Top.up = Top.lo /\ MinBound \in Int /\ MaxBound \in Int
      /\ MinBound <= Top.lo /\ Top.lo <= MaxBound
  BY Basics DEF Solved
<1>4. \A k \in DOMAIN om.lits :
        (IsTrue(om.lits[k]) => Top.up <= k) /\ (IsFalse(om.lits[k]) => Top.lo > k)
  BY LiteralsMatch DEF Solved, BoundsMatchLiterals
<1>5. CASE v \in DOMAIN om.lits /\ om.lits[v] = l
  BY <1>2, <1>3, <1>4, <1>5
<1>6. IsTrue(T) /\ IsFalse(-T)
  BY SolvedTrue
<1>7. CASE Sure(World, l) /\ (v >= MaxBound \/ (v \in DOMAIN om.lits /\ om.lits[v] = T))
  <2>1. IsTrue(l)
    BY <1>7, KeptLiterals DEF Sure, IsTrue
  <2>2. Top.lo <= v
    BY <1>3, <1>4, <1>6, <1>7
  <2> QED BY <2>1, <2>2
<1>8. CASE Sure(World, -l) /\ (v < MinBound \/ (v \in DOMAIN om.lits /\ om.lits[v] = -T))
  <2>1. IsTrue(-l)
    BY <1>8, KeptLiterals DEF Sure, IsTrue
  <2>2. ~(Top.lo <= v)
    BY <1>3, <1>4, <1>6, <1>8
  <2> QED BY <1>2, <2>1, <2>2
<1>9. /\ World.om = om /\ World.b.up = MaxBound /\ World.b.lo = MinBound
  BY KeptLiterals DEF MinBound, MaxBound
<1> QED BY <1>1, <1>5, <1>7, <1>8, <1>9 DEF Means

\* An enforced clause has a true literal.
LEMMA ClauseHolds ==
    ASSUME Assumptions, IInv, ClosedInv, Solved, NEW c, Enforced(World, c)
    PROVE  \E l \in c : IsTrue(l)
<1>1. c \subseteq LiteralsOf(Kept)
  BY KeptLiterals DEF Enforced
<1>2. pc = "fixpoint" /\ pc \in Searching /\ units = {} /\ StaticClosed
  BY DEF Solved, AtFixpoint, IInv, PhaseInv, Searching, ClosedInv
<1>3. CASE \E l \in c : -l \in c \/ Sure(World, l)
  <2>1. PICK l \in c : -l \in c \/ Sure(World, l)
    BY <1>3
  <2>2. Sure(World, l) => IsTrue(l)
    BY KeptLiterals DEF Sure, IsTrue
  <2>3. IsTrue(l) \/ IsTrue(-l)
    BY <1>1, SolvedLiterals DEF IsTrue, IsFalse
  <2> QED BY <2>1, <2>2, <2>3
<1>4. CASE \E e \in clauses : e \subseteq c
  <2>1. PICK e \in clauses : e \subseteq c
    BY <1>4
  <2>2. (\E l \in e : IsTrue(l)) \/ {l \in e : ~IsFalse(l)} # {}
    <3>1. CASE \E l \in e : IsTrue(l)
      BY <3>1
    <3>2. CASE Cardinality({l \in e : ~IsFalse(l)}) >= 2
      <4>1. Cardinality({}) = 0
        BY FS_EmptySet
      <4>2. ~(0 >= 2)
        OBVIOUS
      <4> QED BY <3>2, <4>1, <4>2
    <3> QED BY <1>2, <3>1, <3>2 DEF StaticClosed
  <2>3. PICK l \in e : IsTrue(l) \/ ~IsFalse(l)
    BY <2>2
  <2>4. IsTrue(l)
    BY <1>1, <2>1, <2>3, SolvedLiterals DEF IsTrue, IsFalse
  <2> QED BY <2>1, <2>4
<1> QED BY <1>2, <1>3, <1>4, KeptLiterals DEF Enforced

\* The quotient of integers.
LEMMA QuotientIs ==
    ASSUME NEW n \in Int, NEW k \in Int, k > 0, NEW x \in Int
    PROVE  k * x <= n <=> x <= n \div k
<1> DEFINE q == n \div k
<1>1. q \in Int /\ k * q <= n /\ n < k * q + k
  OBVIOUS
<1> HIDE DEF q
<1>2. x <= q => k * x <= k * q
  BY <1>1
<1>3. x >= q + 1 => k * x >= k * (q + 1)
  BY <1>1
<1>4. k * (q + 1) = k * q + k
  BY <1>1
<1>5. k * x \in Int /\ k * q \in Int /\ (x <= q \/ x >= q + 1)
  BY <1>1
<1>6. x <= q <=> k * x <= n
  BY <1>1, <1>2, <1>3, <1>4, <1>5
<1> QED BY <1>6 DEF q

\* What the value of a simple constraint says.
LEMMA SimpleValueIs ==
    ASSUME NEW c, c.co \in Int \ {0}, c.rhs \in Int, NEW x \in Int
    PROVE  /\ SimpleValue(c) \in Int
           /\ c.co > 0 => (c.co * x <= c.rhs <=> x <= SimpleValue(c))
           /\ ~(c.co > 0) => (c.co * x <= c.rhs <=> ~(x <= SimpleValue(c)))
<1>1. CASE c.co > 0
  <2>1. SimpleValue(c) = c.rhs \div c.co /\ c.co \in Int
    BY <1>1 DEF SimpleValue
  <2>2. c.co * x <= c.rhs <=> x <= c.rhs \div c.co
    BY <1>1, <2>1, QuotientIs
  <2>3. c.rhs \div c.co \in Int
    BY <1>1
  <2> QED BY <1>1, <2>1, <2>2, <2>3
<1>2. CASE ~(c.co > 0)
  <2>1. PICK k \in Int : k = -c.co
    OBVIOUS
  <2>2. PICK y \in Int : y = -x
    OBVIOUS
  <2>3. k > 0 /\ k * y = c.co * x
    <3>1. k > 0 /\ c.co = -k /\ x = -y
      BY <1>2, <2>1, <2>2
    <3>2. \A a, b \in Int : (-a) * (-b) = a * b
      OBVIOUS
    <3> QED BY <3>1, <3>2
  <2>4. PICK q \in Int : q = c.rhs \div k
    BY <2>3
  <2>5. k * y <= c.rhs <=> y <= q
    BY <2>3, <2>4, QuotientIs
  <2>6. SimpleValue(c) = -q - 1
    BY <1>2, <2>1, <2>4 DEF SimpleValue
  <2>7. y <= q <=> ~(x <= -q - 1)
    BY <2>2
  <2>8. -q - 1 \in Int
    OBVIOUS
  <2> QED BY <1>2, <2>3, <2>5, <2>6, <2>7, <2>8
<1> QED BY <1>1, <1>2

\* A simple constraint holds.
LEMMA SimpleHoldsThen ==
    ASSUME Assumptions, IInv, ClosedInv, Solved, NEW c \in Simples, SimpleKept(World, c)
    PROVE  SimpleHolds(c, Top.lo)
<1>1. /\ c.clit \in LiteralsOf(Kept) /\ c.co \in Int \ {0} /\ c.rhs \in Int
  <2>1. program \in Programs
    BY Basics
  <2>2. c.clit \in LiteralsOf(Clits) /\ c.co \in Int \ {0} /\ c.rhs \in Int
    BY <2>1 DEF Assumptions, ProgramsAssumption, Simples, Clits
  <2>3. LiteralsOf(Clits) \subseteq LiteralsOf(Kept)
    BY KeptLiterals DEF LiteralsOf
  <2> QED BY <2>2, <2>3
<1>2. /\ Top.lo \in Int /\ SimpleValue(c) \in Int
  BY <1>1, Basics, SimpleValueIs
<1>3. /\ IsTrue(c.clit) \/ IsFalse(c.clit)
      /\ ~(IsTrue(c.clit) /\ IsFalse(c.clit)) /\ (IsTrue(-c.clit) <=> IsFalse(c.clit))
  BY <1>1, SolvedLiterals DEF IsTrue, IsFalse
<1>4. CASE ~c.strict /\ Sure(World, -c.clit)
  <2>1. IsTrue(-c.clit)
    BY <1>4, KeptLiterals DEF Sure, IsTrue
  <2> QED BY <1>3, <1>4, <2>1 DEF SimpleHolds
<1>5. CASE SimpleLinked(World, c)
  <2>1. PICK l \in LiteralsOf(World.kept) :
          /\ Stands(World, l, SimpleValue(c))
          /\ Enforced(World, {-c.clit, Towards(c, l)})
          /\ c.strict => Enforced(World, {c.clit, -Towards(c, l)})
    BY <1>5 DEF SimpleLinked
  <2>2. l \in LiteralsOf(Kept) /\ l \in Int
    BY <2>1, KeptLiterals
  <2>3. IsTrue(l) <=> Top.lo <= SimpleValue(c)
    BY <1>2, <2>1, MeaningExact
  <2>4. /\ IsTrue(l) \/ IsFalse(l)
        /\ ~(IsTrue(l) /\ IsFalse(l)) /\ (IsTrue(-l) <=> IsFalse(l)) /\ -(-l) = l
    BY <2>2, SolvedLiterals DEF IsTrue, IsFalse
  <2>5. IsTrue(Towards(c, l)) <=> c.co * Top.lo <= c.rhs
    BY <1>1, <1>2, <2>3, <2>4, SimpleValueIs DEF Towards
  <2>6. IsTrue(-Towards(c, l)) <=> ~IsTrue(Towards(c, l))
    BY <2>4 DEF Towards
  <2>7. IsTrue(-c.clit) \/ IsTrue(Towards(c, l))
    <3>1. \E k \in {-c.clit, Towards(c, l)} : IsTrue(k)
      BY <2>1, ClauseHolds
    <3> QED BY <3>1
  <2>8. c.strict => IsTrue(c.clit) \/ IsTrue(-Towards(c, l))
    <3>1. c.strict => \E k \in {c.clit, -Towards(c, l)} : IsTrue(k)
      BY <2>1, ClauseHolds
    <3> QED BY <3>1
  <2>9. \A y, z \in Int : ~(y <= z) => y > z
    OBVIOUS
  <2>10. c.co * Top.lo \in Int
    BY <1>1, <1>2
  <2>11. IsTrue(c.clit) => c.co * Top.lo <= c.rhs
    BY <1>3, <2>5, <2>7
  <2>12. c.strict /\ IsFalse(c.clit) => c.co * Top.lo > c.rhs
    BY <1>1, <1>3, <2>5, <2>6, <2>8, <2>9, <2>10
  <2> QED BY <2>11, <2>12 DEF SimpleHolds
<1> QED BY <1>4, <1>5 DEF SimpleKept

\* In a set of numbers up to n with 1 some element has no successor.
LEMMA LastOf ==
    ASSUME NEW n \in Nat, NEW A \in SUBSET (1..n), 1 \in A
    PROVE  \E i \in A : i = n \/ i + 1 \notin A
<1> SUFFICES ASSUME \A i \in A : i # n /\ i + 1 \in A
             PROVE  FALSE
  OBVIOUS
<1>1. A # {} /\ A \subseteq 1..n /\ 1 \in Int /\ n \in Int
  OBVIOUS
<1>2. PICK i \in A : \A j \in A : j <= i
  BY <1>1, LeastAndGreatest
<1>3. i + 1 \in A /\ i \in Int
  BY <1>1
<1> QED BY <1>2, <1>3

\* A domain holds.
LEMMA DomHoldsThen ==
    ASSUME Assumptions, IInv, ClosedInv, Solved, NEW d \in Doms, d.dom # <<>>, DomKept(World, d)
    PROVE  DomHolds(d, Top.lo)
<1>1. d.lit \in LiteralsOf(Kept) /\ d.dom \in Seq(Int \X Int)
  <2>1. program \in Programs
    BY Basics
  <2>2. d.lit \in LiteralsOf(Clits) /\ d.dom \in Seq(Int \X Int)
    BY <2>1 DEF Assumptions, ProgramsAssumption, Doms, Clits
  <2>3. LiteralsOf(Clits) \subseteq LiteralsOf(Kept)
    BY KeptLiterals DEF LiteralsOf
  <2> QED BY <2>2, <2>3
<1>2. SUFFICES ASSUME IsTrue(d.lit)
               PROVE  \E i \in DOMAIN d.dom : d.dom[i][1] <= Top.lo /\ Top.lo < d.dom[i][2]
  BY DEF DomHolds
<1>3. ~IsTrue(-d.lit)
  BY <1>1, <1>2, SolvedLiterals
<1>4. ~Sure(World, -d.lit)
  BY <1>3, KeptLiterals DEF Sure, IsTrue
<1>5. ~IsTrue(-T)
  BY SolvedTrue
<1>6. PICK lit : lit \in {T, d.lit} /\ DomLinked(World, d, lit)
  BY <1>4 DEF DomKept
<1>7. ~IsTrue(-lit)
  BY <1>3, <1>5, <1>6
<1> DEFINE n == Len(d.dom)  x == Top.lo
           a(i) == d.dom[i][1]  b(i) == d.dom[i][2]
<1>8. /\ n \in Nat /\ n >= 1 /\ DOMAIN d.dom = 1..n /\ x \in Int
      /\ \A i \in 1..n : a(i) \in Int /\ b(i) \in Int
  <2>1. n \in Nat /\ DOMAIN d.dom = 1..n /\ n # 0
    BY <1>1, EmptySeq, LenProperties
  <2>2. \A i \in 1..n : a(i) \in Int /\ b(i) \in Int
    BY <1>1, IntervalIs
  <2> QED BY <2>1, <2>2, Basics
<1>9. a(1) <= x
  <2>1. PICK l \in LiteralsOf(World.kept) : Stands(World, l, a(1) - 1) /\ Enforced(World, {-lit, -T, -l})
    BY <1>6 DEF DomLinked, FirstLinked
  <2>2. \E k \in {-lit, -T, -l} : IsTrue(k)
    BY <2>1, ClauseHolds
  <2>3. IsTrue(-l)
    BY <1>5, <1>7, <2>2
  <2>4. ~IsTrue(l)
    BY <2>1, <2>3, SolvedLiterals, KeptLiterals
  <2>5. a(1) - 1 \in Int /\ a(1) \in Int
    BY <1>8
  <2>6. ~(x <= a(1) - 1)
    BY <2>1, <2>4, <2>5, MeaningExact
  <2> QED BY <1>8, <2>5, <2>6
<1>10. x < b(n)
  <2>1. PICK l \in LiteralsOf(World.kept) : Stands(World, l, b(n) - 1) /\ Enforced(World, {-lit, -T, l})
    BY <1>6 DEF DomLinked, LastLinked
  <2>2. \E k \in {-lit, -T, l} : IsTrue(k)
    BY <2>1, ClauseHolds
  <2>3. IsTrue(l)
    BY <1>5, <1>7, <2>2
  <2>5. b(n) - 1 \in Int /\ b(n) \in Int
    BY <1>8
  <2>6. x <= b(n) - 1
    BY <2>1, <2>3, <2>5, MeaningExact
  <2> QED BY <1>8, <2>5, <2>6
<1>11. ASSUME NEW i \in 2..n, ~(a(i) <= x)
       PROVE  x < b(i - 1)
  <2>1. PICK l \in LiteralsOf(World.kept), m \in LiteralsOf(World.kept) :
          /\ Stands(World, l, a(i) - 1) /\ Stands(World, m, b(i - 1) - 1)
          /\ Enforced(World, {-lit, m, -l})
    BY <1>6 DEF DomLinked, NextLinked
  <2>2. i \in 1..n /\ i - 1 \in 1..n
    BY <1>8
  <2>3. a(i) \in Int /\ a(i) - 1 \in Int /\ b(i - 1) \in Int /\ b(i - 1) - 1 \in Int
    BY <1>8, <2>2
  <2> DEFINE u == a(i)  v == b(i - 1)
  <2>4. u \in Int /\ u - 1 \in Int /\ v \in Int /\ v - 1 \in Int /\ Stands(World, l, u - 1) /\ Stands(World, m, v - 1)
        /\ ~(u <= x)
    BY <1>11, <2>1, <2>3
  <2> HIDE DEF u, v
  <2>5. x <= u - 1
    BY <1>8, <2>4
  <2>6. IsTrue(l)
    BY <2>4, <2>5, MeaningExact
  <2>7. ~IsTrue(-l)
    BY <2>1, <2>6, SolvedLiterals, KeptLiterals
  <2>8. \E k \in {-lit, m, -l} : IsTrue(k)
    BY <2>1, ClauseHolds
  <2>9. IsTrue(m)
    BY <1>7, <2>7, <2>8
  <2>10. x <= v - 1
    BY <2>4, <2>9, MeaningExact
  <2>11. x < v
    BY <1>8, <2>4, <2>10
  <2> QED BY <2>11 DEF v
<1> HIDE DEF a, b, n, x
<1> DEFINE A == {i \in 1..n : a(i) <= x}
<1>12. n \in Nat /\ A \in SUBSET (1..n) /\ 1 \in A
  BY <1>8, <1>9
<1> HIDE DEF A
<1>13. PICK i \in A : i = n \/ i + 1 \notin A
  BY <1>12, LastOf
<1>14. i \in 1..n /\ a(i) <= x
  BY DEF A
<1>15. CASE i = n
  BY <1>8, <1>10, <1>14, <1>15 DEF a, b, n, x
<1>16. CASE i # n
  <2>1. i + 1 \in 2..n /\ (i + 1) - 1 = i
    BY <1>8, <1>14, <1>16
  <2>2. ~(a(i + 1) <= x)
    BY <1>8, <1>13, <1>16, <2>1 DEF A
  <2>3. x < b((i + 1) - 1)
    BY <1>11, <2>1, <2>2
  <2>4. x < b(i)
    BY <2>1, <2>3
  <2> QED BY <1>8, <1>14, <2>4 DEF a, b, n, x
<1> QED BY <1>15, <1>16

-----------------------------------------------------------------------------
(* When nothing is lost.                                                   *)

\* Negating twice.
LEMMA TrueTwice == -(-T) = T
<1>1. \A x \in Int : -(-x) = x
  OBVIOUS
<1>2. T \in Int
  BY DEF T
<1> QED BY <1>1, <1>2

\* What is true for good in w is so in w2, as far as the atoms A are concerned.
SureKept(A, w, w2) ==
    \A a \in A : w.val[a] # 0 /\ w.lev[a] = 0 => w2.val[a] = w.val[a] /\ w2.lev[a] = 0

\* The atom of a literal.
LEMMA AtomOf ==
    ASSUME NEW A, A \subseteq Nat \ {0, 1}, NEW l \in LiteralsOf(A)
    PROVE  l \in Int /\ (Abs(l) = T \/ Abs(l) \in A) /\ -l \in LiteralsOf(A)
<1>1. l \in Int /\ -l \in LiteralsOf(A)
  BY NegatedLiteral, LiteralsAreInts
<1>2. CASE l \in {1, -1}
  BY <1>1, <1>2, AbsIs DEF T
<1>3. CASE l \in A \/ \E a \in A : l = -a
  BY <1>1, <1>3, AbsIs
<1> QED BY <1>1, <1>2, <1>3 DEF LiteralsOf

\* Literals stay true for good.
LEMMA SureStays ==
    ASSUME NEW w, NEW w2, NEW A, A \subseteq Nat \ {0, 1}, SureKept(A, w, w2), NEW l \in LiteralsOf(A), Sure(w, l)
    PROVE  Sure(w2, l)
<1>1. l \in Int /\ (Abs(l) = T \/ Abs(l) \in A)
  BY AtomOf
<1>2. CASE Abs(l) = T
  <2>1. Truth(w.val, l) = Truth(w2.val, l)
    BY <1>1, <1>2, SameTruth
  <2> QED BY <1>2, <2>1 DEF Sure
<1>3. CASE Abs(l) # T
  <2>1. w.val[Abs(l)] # 0 /\ w.lev[Abs(l)] = 0 /\ Abs(l) \in A
    BY <1>1, <1>3 DEF Sure
  <2>2. w2.val[Abs(l)] = w.val[Abs(l)] /\ w2.lev[Abs(l)] = 0
    BY <2>1 DEF SureKept
  <2>3. Truth(w.val, l) = Truth(w2.val, l)
    BY <1>1, <2>2, SameTruth
  <2> QED BY <2>1, <2>2, <2>3 DEF Sure
<1> QED BY <1>2, <1>3

\* Whatever value had a literal that stays, this literal still stands for it.
Carried(w, w2) ==
    \A v \in DOMAIN w.om.lits : w.om.lits[v] \in LiteralsOf(w.kept) => Means(w2, w.om.lits[v], v)

\* The bounds of level 0 do not get wider.
Tighter(w, w2) ==
    /\ w.b.up \in Int /\ w2.b.up \in Int /\ w2.b.up <= w.b.up
    /\ w.b.lo \in Int /\ w2.b.lo \in Int /\ w.b.lo <= w2.b.lo

\* Literals of w stand for their values in w2.
LEMMA MeansCarried ==
    ASSUME NEW w, NEW w2, w.kept \subseteq Nat \ {0, 1}, SureKept(w.kept, w, w2), Carried(w, w2), Tighter(w, w2),
           NEW l \in LiteralsOf(w.kept), NEW v \in Int, Means(w, l, v)
    PROVE  Means(w2, l, v)
<1>1. l \in Int /\ -l \in LiteralsOf(w.kept) /\ -(-T) = T
  BY AtomOf, TrueTwice
<1>2. (Sure(w, l) => Sure(w2, l)) /\ (Sure(w, -l) => Sure(w2, -l))
  BY <1>1, SureStays
<1>3. Sure(w2, T) /\ ~Sure(w2, -T) /\ T \in LiteralsOf(w.kept) /\ -T \in LiteralsOf(w.kept)
  BY TrueAndFalse
<1>4. CASE v \in DOMAIN w.om.lits /\ w.om.lits[v] = l
  BY <1>4 DEF Carried
<1>5. CASE Sure(w, l) /\ v >= w.b.up
  <2>1. v >= w2.b.up
    BY <1>5 DEF Tighter
  <2> QED BY <1>2, <1>5, <2>1 DEF Means
<1>6. CASE Sure(w, l) /\ v \in DOMAIN w.om.lits /\ w.om.lits[v] = T
  <2>1. Means(w2, T, v)
    BY <1>3, <1>6 DEF Carried
  <2>2. v >= w2.b.up \/ (v \in DOMAIN w2.om.lits /\ w2.om.lits[v] = T)
    BY <1>3, <2>1 DEF Means
  <2> QED BY <1>2, <1>6, <2>2 DEF Means
<1>7. CASE Sure(w, -l) /\ v < w.b.lo
  <2>1. v < w2.b.lo
    BY <1>7 DEF Tighter
  <2> QED BY <1>2, <1>7, <2>1 DEF Means
<1>8. CASE Sure(w, -l) /\ v \in DOMAIN w.om.lits /\ w.om.lits[v] = -T
  <2>1. Means(w2, -T, v)
    BY <1>3, <1>8 DEF Carried
  <2>2. v < w2.b.lo \/ (v \in DOMAIN w2.om.lits /\ w2.om.lits[v] = -T)
    BY <1>3, <2>1 DEF Means
  <2> QED BY <1>2, <1>8, <2>2 DEF Means
<1> QED BY <1>4, <1>5, <1>6, <1>7, <1>8 DEF Means

\* Unit clauses stay or become true for good.
UnitsKept(w, w2) == \A l \in LiteralsOf(w.kept) : l \in w.units => Sure(w2, l) \/ l \in w2.units

\* What has to be shown of a step.
LEMMA OnwardFrom ==
    ASSUME NEW w, NEW w2, w.kept \subseteq Nat \ {0, 1}, w.kept \subseteq w2.kept, SureKept(w.kept, w, w2),
           Carried(w, w2), Tighter(w, w2), UnitsKept(w, w2), w.clauses \subseteq w2.clauses
    PROVE  Onward(w, w2)
<1>1. LiteralsOf(w.kept) \subseteq LiteralsOf(w2.kept)
  BY DEF LiteralsOf
<1>2. \A l \in LiteralsOf(w.kept) : Sure(w, l) => Sure(w2, l)
  BY SureStays
<1>3. \A l \in LiteralsOf(w.kept), v \in Int : Means(w, l, v) => Means(w2, l, v)
  BY MeansCarried
<1> QED BY <1>1, <1>2, <1>3 DEF Onward, UnitsKept

\* A map that has all literals of another one.
LEMMA CarriedBySame ==
    ASSUME NEW w, NEW w2, \A v \in DOMAIN w.om.lits : v \in DOMAIN w2.om.lits /\ w2.om.lits[v] = w.om.lits[v]
    PROVE  Carried(w, w2)
BY DEF Carried, Means

-----------------------------------------------------------------------------
(* Builders.                                                               *)

\* The world once the builder s is the state.
BuilderWorld(s) == [kept |-> s.used, om |-> s.om, b |-> trail[1], clauses |-> s.clauses, units |-> s.units,
                    val |-> assign, lev |-> alevel]

\* Its parts.
LEMMA BuilderWorldIs ==
    ASSUME NEW s
    PROVE  LET w == BuilderWorld(s) IN
           /\ w.kept = s.used /\ w.om = s.om /\ w.b = trail[1] /\ w.clauses = s.clauses /\ w.units = s.units
           /\ w.val = assign /\ w.lev = alevel
BY DEF BuilderWorld

\* The builder t has what s has, and maybe more.
More(s, t) ==
    /\ s.used \subseteq t.used /\ s.clauses \subseteq t.clauses /\ s.units \subseteq t.units
    /\ DOMAIN s.om.lits \subseteq DOMAIN t.om.lits
    /\ \A k \in DOMAIN s.om.lits : t.om.lits[k] = s.om.lits[k]

\* The bounds of level 0 are those of the level.
LEMMA BottomBounds ==
    ASSUME Assumptions, IInv
    PROVE  trail[1].lo = MinBound /\ trail[1].up = MaxBound /\ MinBound \in Int /\ MaxBound \in Int
BY Basics DEF MinBound, MaxBound

\* Builders that only grow lose nothing.
LEMMA BuilderOnward ==
    ASSUME Assumptions, IInv, NEW s, NEW n, GoodBuilder(s, n), NEW t, More(s, t)
    PROVE  Onward(BuilderWorld(s), BuilderWorld(t))
<1> DEFINE w == BuilderWorld(s)  w2 == BuilderWorld(t)
<1>1. /\ w.kept = s.used /\ w.om = s.om /\ w.b = trail[1] /\ w.clauses = s.clauses /\ w.units = s.units
      /\ w.val = assign /\ w.lev = alevel
  BY BuilderWorldIs
<1>2. /\ w2.kept = t.used /\ w2.om = t.om /\ w2.b = trail[1] /\ w2.clauses = t.clauses /\ w2.units = t.units
      /\ w2.val = assign /\ w2.lev = alevel
  BY BuilderWorldIs
<1> HIDE DEF w, w2
<1>3. w.kept \subseteq Nat \ {0, 1}
  BY <1>1, BuilderFacts
<1>4. SureKept(w.kept, w, w2)
  BY <1>1, <1>2 DEF SureKept
<1>5. Carried(w, w2)
  BY <1>1, <1>2, CarriedBySame DEF More
<1>6. Tighter(w, w2)
  <2>1. \A x \in Int : x <= x
    OBVIOUS
  <2> QED BY <1>1, <1>2, <2>1, BottomBounds DEF Tighter
<1>7. UnitsKept(w, w2) /\ w.kept \subseteq w2.kept /\ w.clauses \subseteq w2.clauses
  BY <1>1, <1>2 DEF UnitsKept, More
<1>8. Onward(w, w2)
  BY <1>3, <1>4, <1>5, <1>6, <1>7, OnwardFrom
<1> QED BY <1>8 DEF w, w2

\* A stored clause is enforced.
LEMMA StoreClauseDoes ==
    ASSUME Assumptions, IInv, dl = 0, NEW s, NEW n, GoodBuilder(s, n), NEW c, c \subseteq LiteralsOf(s.used)
    PROVE  /\ Onward(BuilderWorld(s), BuilderWorld(StoreClause(s, c)))
           /\ Enforced(BuilderWorld(StoreClause(s, c)), c)
           /\ More(s, StoreClause(s, c))
<1> DEFINE t == StoreClause(s, c)
           w == BuilderWorld(t)
<1>1. t.om = s.om /\ t.used = s.used
  BY StoreClauseOk
<1>2. IsBuilder(s)
  BY DEF GoodBuilder
<1>3. /\ s.clauses \subseteq t.clauses /\ s.units \subseteq t.units
      /\ \/ Satisfied(c)
         \/ \E l \in c : l \in t.units
         \/ -T \in t.units
         \/ \E e \in t.clauses : e \subseteq c
  <2>1. CASE Satisfied(c)
    <3>1. t = s
      BY <2>1 DEF StoreClause
    <3> QED BY <2>1, <3>1
  <2>2. CASE ~Satisfied(c) /\ OpenIn(c) = {}
    <3> DEFINE y == {-T}
               x == s.units \union y
    <3>0. Cardinality(OpenIn(c)) # 1
      BY <2>2, FS_EmptySet
    <3>1. t = [s EXCEPT !.units = @ \union y]
      BY <2>2, <3>0 DEF StoreClause
    <3>2. -T \in x /\ s.units \subseteq x
      OBVIOUS
    <3> HIDE DEF y
    <3>4. t = SetUnits(s, x)
      BY <3>1 DEF SetUnits
    <3> HIDE DEF x, t
    <3>3. t.units = x /\ t.clauses = s.clauses
      BY <1>2, <3>4, BuilderParts
    <3> QED BY <3>2, <3>3
  <2>3. CASE ~Satisfied(c) /\ OpenIn(c) # {} /\ Cardinality(OpenIn(c)) = 1
    <3> DEFINE x == s.units \union OpenIn(c)
    <3>1. t = SetUnits(s, x)
      BY <2>3 DEF StoreClause, SetUnits
    <3>2. s.units \subseteq x /\ \E l \in c : l \in x
      BY <2>3 DEF OpenIn
    <3> HIDE DEF x, t
    <3>3. t.units = x /\ t.clauses = s.clauses
      BY <1>2, <3>1, BuilderParts
    <3> QED BY <3>2, <3>3
  <2>4. CASE ~Satisfied(c) /\ OpenIn(c) # {} /\ Cardinality(OpenIn(c)) # 1
    <3> DEFINE x == s.clauses \union {OpenIn(c)}
    <3>1. t = SetClauses(s, x)
      BY <2>4 DEF StoreClause, SetClauses
    <3>2. s.clauses \subseteq x /\ \E e \in x : e \subseteq c
      BY DEF OpenIn
    <3> HIDE DEF x, t
    <3>3. t.units = s.units /\ t.clauses = x
      BY <1>2, <3>1, BuilderParts
    <3> QED BY <3>2, <3>3
  <2> QED BY <2>1, <2>2, <2>3, <2>4
<1> HIDE DEF t
<1>4. More(s, t)
  BY <1>1, <1>3 DEF More
<1>5. Onward(BuilderWorld(s), w)
  BY <1>4, BuilderOnward
<1>6. w.kept = s.used /\ w.clauses = t.clauses /\ w.units = t.units /\ w.val = assign /\ w.lev = alevel
  BY <1>1, BuilderWorldIs
<1> HIDE DEF w
<1>7. Satisfied(c) => \E l \in c : -l \in c \/ Sure(w, l)
  BY <1>6 DEF Satisfied, Fixed, IsTrue, Sure
<1>8. Enforced(w, c)
  BY <1>3, <1>6, <1>7 DEF Enforced
<1> QED BY <1>4, <1>5, <1>8 DEF w, t

\* The literal of a value stands for it.
LEMMA LiteralStands ==
    ASSUME Assumptions, IInv, NEW t, NEW v \in Int, HasLiteral(t, v)
    PROVE  Stands(BuilderWorld(t), LitOf(t, v), v) /\ LitOf(t, v) \in LiteralsOf(t.used)
<1> DEFINE w == BuilderWorld(t)
<1>1. w.kept = t.used /\ w.om = t.om /\ w.b.lo = MinBound /\ w.b.up = MaxBound
  BY BuilderWorldIs, BottomBounds
<1> HIDE DEF w
<1>2. Sure(w, T) /\ -(-T) = T
  BY TrueAndFalse, TrueTwice
<1>3. ASSUME v < MinBound
      PROVE  Means(w, LitOf(t, v), v)
  BY <1>1, <1>2, <1>3 DEF LitOf, Means
<1>4. ASSUME ~(v < MinBound) /\ v >= MaxBound
      PROVE  Means(w, LitOf(t, v), v)
  BY <1>1, <1>2, <1>4 DEF LitOf, Means
<1>5. ASSUME ~(v < MinBound) /\ ~(v >= MaxBound)
      PROVE  Means(w, LitOf(t, v), v)
  BY <1>1, <1>5 DEF LitOf, Means, HasLiteral, OutOfBounds
<1>6. Means(w, LitOf(t, v), v)
  BY <1>3, <1>4, <1>5
<1> QED BY <1>1, <1>6 DEF Stands, HasLiteral, w

\* get_literal and update_literal give a value a literal.
LEMMA LiteralDoes ==
    ASSUME Assumptions, IInv, NEW s, NEW n \in Nat, GoodBuilder(s, n), n + 1 <= program.atoms, NEW v \in Int,
           NEW truth \in {-1, 0, 1}, NEW t, t = GetLiteral(s, v) \/ t = UpdateLiteral(s, v, truth)
    PROVE  /\ GoodBuilder(t, n + 1) /\ s.used \subseteq t.used
           /\ Onward(BuilderWorld(s), BuilderWorld(t))
           /\ Stands(BuilderWorld(t), LitOf(t, v), v) /\ LitOf(t, v) \in LiteralsOf(t.used)
<1>1. /\ GoodBuilder(t, n + 1) /\ HasLiteral(t, v) /\ s.used \subseteq t.used /\ Extends(s.om, t.om)
      /\ t.clauses = s.clauses /\ t.units = s.units
  <2>1. CASE t = GetLiteral(s, v)
    BY <2>1, GetLiteralOk
  <2>2. CASE t = UpdateLiteral(s, v, truth)
    BY <2>2, UpdateLiteralOk
  <2> QED BY <2>1, <2>2
<1>2. More(s, t)
  BY <1>1 DEF More, Extends
<1> QED BY <1>1, <1>2, BuilderOnward, LiteralStands

\* Two enforced clauses make a simple constraint.
LEMMA LinkedFrom ==
    ASSUME NEW w, NEW c, NEW l \in LiteralsOf(w.kept), Stands(w, l, SimpleValue(c)),
           Enforced(w, {-c.clit, Towards(c, l)}), c.strict => Enforced(w, {c.clit, -Towards(c, l)})
    PROVE  SimpleKept(w, c)
BY DEF SimpleKept, SimpleLinked

\* ImplyLiteral links the literal of the constraint to one of the value.
LEMMA ImplyLiteralDoes ==
    ASSUME Assumptions, IInv, dl = 0, NEW s, NEW n \in Nat, GoodBuilder(s, n), n + 1 <= program.atoms, NEW c \in Simples
    PROVE  /\ Onward(BuilderWorld(s), BuilderWorld(ImplyLiteral(s, c)))
           /\ SimpleKept(BuilderWorld(ImplyLiteral(s, c)), c)
<1> DEFINE value == SimpleValue(c)
           truth == Towards(c, Truth(assign, c.clit))
           t == UpdateLiteral(s, value, truth)
           l == LitOf(t, value)
           lit == Towards(c, l)
           cl == {-c.clit, lit}
           ck == {-lit, c.clit}
           u == StoreClause(t, cl)
           r == IF c.strict THEN StoreClause(u, ck) ELSE u
<1>1. value \in Int /\ c.clit \in LiteralsOf(used) /\ truth \in {-1, 0, 1}
  <2>1. Truth(assign, c.clit) \in {-1, 0, 1} /\ Atoms \subseteq Nat \ {0, 1}
    BY ConstraintIs, Basics
  <2> QED BY <2>1, ConstraintIs, TowardsIs
<1>2. ImplyLiteral(s, c) = r
  BY DEF ImplyLiteral
<1> HIDE DEF truth
<1>3. /\ GoodBuilder(t, n + 1) /\ Onward(BuilderWorld(s), BuilderWorld(t))
      /\ Stands(BuilderWorld(t), l, value) /\ l \in LiteralsOf(t.used)
  <2> DEFINE v == value
  <2>1. v \in Int /\ t = UpdateLiteral(s, v, truth) /\ l = LitOf(t, v)
    BY <1>1
  <2> HIDE DEF v, t, l
  <2>2. /\ GoodBuilder(t, n + 1) /\ Onward(BuilderWorld(s), BuilderWorld(t))
        /\ Stands(BuilderWorld(t), LitOf(t, v), v) /\ LitOf(t, v) \in LiteralsOf(t.used)
    BY <1>1, <2>1, LiteralDoes
  <2> QED BY <2>1, <2>2 DEF v
<1> HIDE DEF t, l
<1>4. t.used \subseteq Nat \ {0, 1} /\ c.clit \in LiteralsOf(t.used)
  BY <1>1, <1>3, BuilderFacts
<1>5. cl \subseteq LiteralsOf(t.used) /\ ck \subseteq LiteralsOf(t.used)
  <2>1. lit \in LiteralsOf(t.used)
    BY <1>3, <1>4, TowardsIs
  <2> HIDE DEF lit
  <2>2. -lit \in LiteralsOf(t.used) /\ -c.clit \in LiteralsOf(t.used)
    BY <1>4, <2>1, NegatedLiteral
  <2> QED BY <1>4, <2>1, <2>2
<1> HIDE DEF cl, ck
<1>6. GoodBuilder(u, n + 1) /\ u.used = t.used
  BY <1>3, <1>5, StoreClauseOk
<1>7. Onward(BuilderWorld(t), BuilderWorld(u)) /\ Enforced(BuilderWorld(u), cl)
  BY <1>3, <1>5, StoreClauseDoes
<1> HIDE DEF u
<1>8. Onward(BuilderWorld(u), BuilderWorld(r)) /\ (c.strict => Enforced(BuilderWorld(r), ck))
  <2>1. CASE c.strict
    BY <1>5, <1>6, <2>1, StoreClauseDoes
  <2>2. CASE ~c.strict
    <3>1. More(u, u) /\ r = u
      BY <2>2 DEF More
    <3> QED BY <1>6, <2>2, <3>1, BuilderOnward
  <2> QED BY <2>1, <2>2
<1> HIDE DEF r
<1> DEFINE w == BuilderWorld(r)
<1>9. Onward(BuilderWorld(t), w) /\ Onward(BuilderWorld(s), w)
  BY <1>3, <1>7, <1>8, OnwardTransitive
<1>10. Enforced(w, cl) /\ (c.strict => Enforced(w, ck))
  BY <1>7, <1>8, EnforcedOnward
<1>11. Stands(w, l, value) /\ l \in LiteralsOf(w.kept)
  BY <1>1, <1>3, <1>9, StandsOnward
<1> HIDE DEF w
<1>12. cl = {-c.clit, Towards(c, l)} /\ ck = {c.clit, -Towards(c, l)}
  BY DEF cl, ck
<1>13. SimpleKept(w, c)
  BY <1>10, <1>11, <1>12, LinkedFrom
<1> QED BY <1>2, <1>9, <1>13 DEF w

\* Turning towards a literal twice.
LEMMA TowardsTwice ==
    ASSUME NEW c, NEW l \in Int
    PROVE  /\ Towards(c, Towards(c, l)) = l
           /\ \A e \in Int : \/ Towards(c, l) = l /\ Towards(c, e) = e
                             \/ Towards(c, l) = -l /\ Towards(c, e) = -e /\ -Towards(c, l) = l /\ -Towards(c, e) = e
BY DEF Towards

\* A constraint whose literal stands for its value, by itself.
LEMMA SelfLinked ==
    ASSUME NEW w, NEW c, c.clit \in Int, NEW l, l = Towards(c, c.clit), l \in LiteralsOf(w.kept),
           {c.clit, -c.clit} \subseteq LiteralsOf(w.kept), Stands(w, l, SimpleValue(c))
    PROVE  SimpleKept(w, c)
<1>1. Towards(c, l) = c.clit
  BY TowardsTwice
<1>2. Enforced(w, {-c.clit, Towards(c, l)})
  <2>1. c.clit \in {-c.clit, Towards(c, l)} /\ -c.clit \in {-c.clit, Towards(c, l)}
    BY <1>1
  <2>2. {-c.clit, Towards(c, l)} \subseteq LiteralsOf(w.kept)
    BY <1>1
  <2> QED BY <2>1, <2>2 DEF Enforced
<1>3. Enforced(w, {c.clit, -Towards(c, l)})
  <2>1. c.clit \in {c.clit, -Towards(c, l)} /\ -c.clit \in {c.clit, -Towards(c, l)}
    BY <1>1
  <2>2. {c.clit, -Towards(c, l)} \subseteq LiteralsOf(w.kept)
    BY <1>1
  <2> QED BY <2>1, <2>2 DEF Enforced
<1> QED BY <1>2, <1>3, LinkedFrom

\* A literal decided on level 0 stands for a value that has it as a fact.
LEMMA FactStands ==
    ASSUME Assumptions, IInv, dl = 0, NEW t, NEW l \in LiteralsOf(used), LiteralsOf(used) \subseteq LiteralsOf(t.used),
           NEW v \in Int, v \in DOMAIN t.om.lits, t.om.lits[v] = Truth(assign, l), Truth(assign, l) # 0
    PROVE  Stands(BuilderWorld(t), l, v)
<1> DEFINE w == BuilderWorld(t)
<1>1. w.kept = t.used /\ w.om = t.om /\ w.val = assign /\ w.lev = alevel
  BY BuilderWorldIs
<1> HIDE DEF w
<1>2. /\ used \subseteq Nat \ {0, 1} /\ Atoms \subseteq Nat \ {0, 1} /\ assign \in [Atoms -> {-1, 0, 1}]
      /\ l \in LiteralsOf(Atoms) /\ used \subseteq Atoms /\ alevel \in [Atoms -> 0..dl]
  <2>1. used \subseteq Atoms /\ Atoms \subseteq Nat \ {0, 1} /\ assign \in [Atoms -> {-1, 0, 1}]
    BY Basics DEF Assignment
  <2>2. l \in LiteralsOf(Atoms)
    BY <2>1, MoreLiterals
  <2>3. alevel \in [Atoms -> 0..dl]
    BY DEF IInv, AssignInv
  <2>4. used \subseteq Nat \ {0, 1}
    BY <2>1
  <2> QED BY <2>1, <2>2, <2>3, <2>4
<1>3. l \in Int /\ (Abs(l) = T \/ Abs(l) \in used) /\ Abs(-l) = Abs(l)
  <2>1. Abs(-l) = Abs(l)
    BY ONLY <1>2, TruthIs
  <2>2. l \in Int /\ (Abs(l) = T \/ Abs(l) \in used)
    BY <1>2, AtomOf
  <2> QED BY <2>1, <2>2
<1>4. Truth(assign, l) \in {-1, 0, 1}
  BY ONLY <1>2, TruthIs
<1>5. Truth(assign, -l) = 1 <=> Truth(assign, l) = -1
  <2> DEFINE y == -l
  <2>1. Opposite(y, l)
    BY DEF Opposite
  <2> HIDE DEF y
  <2>2. Truth(assign, y) = 1 <=> Truth(assign, l) = -1
    BY ONLY <1>2, <2>1, OppositeTruth
  <2> QED BY <2>2 DEF y
<1>6. Abs(l) = T \/ (assign[Abs(l)] # 0 /\ alevel[Abs(l)] = 0)
  <2>1. SUFFICES ASSUME Abs(l) # T
                 PROVE  assign[Abs(l)] # 0 /\ alevel[Abs(l)] = 0
    OBVIOUS
  <2>2. Abs(l) \in Atoms
    BY <1>2, <1>3, <2>1
  <2>3. Truth(assign, l) = 0 <=> assign[Abs(l)] = 0
    BY ONLY <1>2, <2>2, TruthZero
  <2>4. alevel[Abs(l)] = 0
    <3>1. alevel[Abs(l)] \in 0..0
      BY <1>2, <2>2
    <3> QED BY <3>1
  <2> QED BY <2>3, <2>4
<1>7. CASE Truth(assign, l) = 1
  <2>1. Sure(w, l) /\ t.om.lits[v] = T
    BY <1>1, <1>6, <1>7 DEF Sure, T
  <2>2. Means(w, l, v)
    BY <1>1, <2>1 DEF Means
  <2> QED BY <1>1, <2>2 DEF Stands, w
<1>8. CASE Truth(assign, l) = -1
  <2>1. Sure(w, -l) /\ t.om.lits[v] = -T
    BY <1>1, <1>3, <1>5, <1>6, <1>8 DEF Sure, T
  <2>2. Means(w, l, v)
    BY <1>1, <2>1 DEF Means
  <2> QED BY <1>1, <2>2 DEF Stands, w
<1> QED BY <1>4, <1>7, <1>8

\* The literal of a constraint becomes the literal of its value.
LEMMA ReuseLiteralDoes ==
    ASSUME Assumptions, IInv, dl = 0, NEW s, NEW n \in Nat, GoodBuilder(s, n), n + 1 <= program.atoms, NEW c \in Simples,
           ~OutOfBounds(SimpleValue(c)), SimpleValue(c) \notin DOMAIN s.om.lits
    PROVE  /\ Onward(BuilderWorld(s), BuilderWorld(ReuseLiteral(s, c)))
           /\ SimpleKept(BuilderWorld(ReuseLiteral(s, c)), c)
<1> DEFINE value == SimpleValue(c)
           lit == Towards(c, c.clit)
           tv == Truth(assign, lit)
           eq == Fresh(s)
           taken == Abs(lit) \in DOMAIN s.om.litmap
           U == s.used \union {eq}
           s1 == [s EXCEPT !.used = @ \union {eq}]
           s2 == StoreClause(s1, {-lit, eq})
           s3 == StoreClause(s2, {-eq, lit})
           r == ReuseLiteral(s, c)
           w == BuilderWorld(r)
<1>1. /\ value \in Int /\ lit \in LiteralsOf(used) /\ lit \in Int /\ tv \in {-1, 0, 1} /\ c.clit \in LiteralsOf(used)
      /\ lit \in LiteralsOf(Atoms)
  <2>1. used \subseteq Nat \ {0, 1} /\ Atoms \subseteq Nat \ {0, 1} /\ assign \in [Atoms -> {-1, 0, 1}]
    BY Basics DEF Assignment
  <2>2. lit \in LiteralsOf(used) /\ lit \in LiteralsOf(Atoms)
    BY <2>1, ConstraintIs, TowardsIs
  <2> HIDE DEF lit
  <2> QED BY <2>1, <2>2, TruthIs, ConstraintIs
<1>2. /\ tv # 0 => r = SetOm(s, AddFact(s.om, value, tv))
      /\ tv = 0 /\ taken => r = SetOm(s3, AddOrderLit(s3.om, value, eq))
      /\ tv = 0 /\ ~taken => r = SetOm(s, AddOrderLit(s.om, value, lit))
  BY DEF ReuseLiteral, SetOm
<1>3. /\ IsBuilder(s) /\ MapOk(s.om, s.used, 0) /\ s.used \subseteq Nat /\ s.used \subseteq Atoms /\ used \subseteq s.used
      /\ n >= 1 /\ s.used \subseteq 2..n /\ OrderAssumption /\ program.atoms \in Nat /\ Atoms \subseteq Nat \ {0, 1}
      /\ value \in Lo..(Hi - 1) /\ value \notin DOMAIN s.om.lits /\ s.used \subseteq Nat \ {0, 1}
      /\ LiteralsOf(used) \subseteq LiteralsOf(s.used)
  <2>1. program.atoms \in Nat /\ Atoms \subseteq Nat \ {0, 1}
    BY Basics
  <2>2. value \in Lo..(Hi - 1)
    BY <1>1, Basics
  <2> QED BY <2>1, <2>2, BuilderFacts DEF GoodBuilder, Assumptions
<1>4. value \in Int /\ ~OutOfBounds(value)
  BY <1>1
<1>5. /\ c.clit \in Int /\ lit = Towards(c, c.clit) /\ lit \in LiteralsOf(s.used)
      /\ {c.clit, -c.clit} \subseteq LiteralsOf(s.used)
  <2>1. c.clit \in LiteralsOf(s.used)
    BY <1>1, <1>3
  <2>2. c.clit \in Int /\ -c.clit \in LiteralsOf(s.used)
    BY <1>3, <2>1, AtomOf
  <2> QED BY <1>1, <1>3, <2>1, <2>2
<1> HIDE DEF lit, r
<1>6. ASSUME tv # 0
      PROVE  Onward(BuilderWorld(s), w) /\ SimpleKept(w, c)
  <2> DEFINE o == AddFact(s.om, value, tv)
  <2>1. tv \in FactLits
    BY <1>1, <1>6 DEF FactLits, T
  <2>2. MapOk(o, s.used, 0) /\ Extends(s.om, o) /\ DOMAIN o.lits = DOMAIN s.om.lits \union {value} /\ o.lits[value] = tv
    <3> HIDE DEF tv, value
    <3> QED BY <1>3, <2>1, AddFactOk
  <2>3. r = SetOm(s, o)
    BY <1>2, <1>6
  <2> HIDE DEF o, value
  <2>4. r.om = o /\ r.used = s.used /\ r.clauses = s.clauses /\ r.units = s.units
    BY <1>3, <2>3, BuilderParts
  <2>5. More(s, r)
    BY <2>2, <2>4 DEF More, Extends
  <2>6. Onward(BuilderWorld(s), w)
    BY <2>5, BuilderOnward
  <2>7. Stands(w, lit, value)
    <3>1. LiteralsOf(used) \subseteq LiteralsOf(r.used) /\ value \in DOMAIN r.om.lits
          /\ r.om.lits[value] = Truth(assign, lit) /\ Truth(assign, lit) # 0
      BY <1>3, <1>6, <2>2, <2>4
    <3> QED BY <1>1, <3>1, FactStands
  <2>8. w.kept = s.used
    BY <2>4, BuilderWorldIs
  <2> HIDE DEF w
  <2>9. SimpleKept(w, c)
    BY <1>5, <2>7, <2>8, SelfLinked DEF value
  <2> QED BY <2>6, <2>9
<1>7. ASSUME tv = 0
      PROVE  Abs(lit) \in used /\ Abs(lit) > 1
  <2>0. assign \in [Atoms -> {-1, 0, 1}] /\ Atoms \subseteq Nat \ {0, 1} /\ lit \in LiteralsOf(Atoms)
    BY <1>1, Basics DEF Assignment
  <2>1. lit \notin FactLits
    <3>1. lit \in FactLits => Truth(assign, lit) = lit
      BY ONLY <2>0, TruthIs
    <3>2. lit \in FactLits => lit # 0
      BY DEF FactLits, T
    <3> QED BY <1>7, <3>1, <3>2
  <2>2. Abs(lit) \in used
    BY <1>1, <1>3, <2>1, LiteralIs
  <2>3. Abs(lit) \in Nat /\ Abs(lit) \notin {0, 1}
    BY <1>3, <2>2
  <2> QED BY <2>2, <2>3
<1>8. ASSUME tv = 0, ~taken
      PROVE  Onward(BuilderWorld(s), w) /\ SimpleKept(w, c)
  <2> DEFINE o == AddOrderLit(s.om, value, lit)
  <2>1. Extends(s.om, o) /\ DOMAIN o.lits = DOMAIN s.om.lits \union {value} /\ o.lits[value] = lit
    <3>1. Abs(lit) \in s.used /\ Abs(lit) > 1 /\ Abs(lit) \notin DOMAIN s.om.litmap
      BY <1>3, <1>7, <1>8
    <3> HIDE DEF value
    <3> QED BY <1>1, <1>3, <3>1, AddOrderLitOk
  <2>3. r = SetOm(s, o)
    BY <1>2, <1>8
  <2> HIDE DEF o, value
  <2>4. r.om = o /\ r.used = s.used /\ r.clauses = s.clauses /\ r.units = s.units
    BY <1>3, <2>3, BuilderParts
  <2>5. More(s, r)
    BY <2>1, <2>4 DEF More, Extends
  <2>6. Onward(BuilderWorld(s), w)
    BY <2>5, BuilderOnward
  <2>7. w.kept = s.used /\ w.om = o
    BY <2>4, BuilderWorldIs
  <2> HIDE DEF w
  <2>8. Stands(w, lit, value)
    BY <1>5, <2>1, <2>7 DEF Stands, Means
  <2>9. SimpleKept(w, c)
    BY <1>5, <2>7, <2>8, SelfLinked DEF value
  <2> QED BY <2>6, <2>9
<1>9. ASSUME tv = 0, taken
      PROVE  Onward(BuilderWorld(s), w) /\ SimpleKept(w, c)
  <2> DEFINE o == AddOrderLit(s3.om, value, eq)
  <2>1. r = SetOm(s3, o)
    BY <1>2, <1>9
  <2>2. eq \in 2..(n + 1) /\ eq \notin s.used
    BY <1>3, FreshIs
  <2>3. s1 = SetUsed(s, U)
    BY DEF SetUsed
  <2> HIDE DEF s1, eq
  <2>4. IsBuilder(s1) /\ s1.om = s.om /\ s1.used = U /\ s1.units = s.units /\ s1.clauses = s.clauses
    <3> HIDE DEF U
    <3> QED BY <1>3, <2>3, BuilderParts
  <2>5. s.used \subseteq U /\ U \subseteq 2..(n + 1) /\ used \subseteq U /\ U \subseteq Nat \ {0, 1} /\ eq \in U
    <3>1. 2..n \subseteq 2..(n + 1) /\ 2..(n + 1) \subseteq Nat \ {0, 1}
      BY <1>3
    <3> QED BY <1>3, <2>2, <3>1
  <2>6. GoodBuilder(s1, n + 1)
    <3>1. MapOk(s.om, U, 0)
      BY <1>3, <2>5, MapMore
    <3>2. s.units \subseteq LiteralsOf(U)
      BY <2>5, MoreLiterals DEF GoodBuilder
    <3> HIDE DEF U
    <3>3. n + 1 \in 1..program.atoms
      BY <1>3
    <3> QED BY <2>4, <2>5, <3>1, <3>2, <3>3 DEF GoodBuilder
  <2>7. eq \in LiteralsOf(U) /\ -eq \in LiteralsOf(U) /\ lit \in LiteralsOf(U) /\ -lit \in LiteralsOf(U) /\ eq \in Int
    <3>1. eq \in LiteralsOf(U)
      BY <2>5 DEF LiteralsOf
    <3>2. lit \in LiteralsOf(U)
      BY <1>1, <2>5, MoreLiterals
    <3> HIDE DEF U
    <3> QED BY <2>2, <2>5, <3>1, <3>2, NegatedLiteral
  <2>8. More(s, s1)
    BY <2>4, <2>5 DEF More
  <2> HIDE DEF U
  <2> DEFINE d1 == {-lit, eq}  d2 == {-eq, lit}
  <2>9. /\ GoodBuilder(s2, n + 1) /\ s2.om = s.om /\ s2.used = U
        /\ Onward(BuilderWorld(s1), BuilderWorld(s2)) /\ Enforced(BuilderWorld(s2), d1)
    <3>1. d1 \subseteq LiteralsOf(s1.used) /\ s2 = StoreClause(s1, d1)
      BY <2>4, <2>7
    <3> HIDE DEF d1, s2
    <3> QED BY <2>4, <2>6, <3>1, StoreClauseOk, StoreClauseDoes
  <2> HIDE DEF s2
  <2>10. /\ GoodBuilder(s3, n + 1) /\ s3.om = s.om /\ s3.used = U
         /\ Onward(BuilderWorld(s2), BuilderWorld(s3)) /\ Enforced(BuilderWorld(s3), d2)
    <3>1. d2 \subseteq LiteralsOf(s2.used) /\ s3 = StoreClause(s2, d2)
      BY <2>7, <2>9
    <3> HIDE DEF d2, s3
    <3> QED BY <2>9, <3>1, StoreClauseOk, StoreClauseDoes
  <2> HIDE DEF s3, d1, d2
  <2>11. eq > 1 /\ Abs(eq) = eq /\ eq \notin DOMAIN s.om.litmap
    <3>1. eq \in Int /\ eq > 1
      BY <2>2
    <3>2. eq \notin DOMAIN s.om.litmap
      BY <1>3, <2>2 DEF MapOk
    <3> QED BY <3>1, <3>2 DEF Abs
  <2>12. Extends(s.om, o) /\ DOMAIN o.lits = DOMAIN s.om.lits \union {value} /\ o.lits[value] = eq
    <3>1. o = AddOrderLit(s.om, value, eq)
      BY <2>10
    <3>2. Abs(eq) \in U /\ Abs(eq) > 1 /\ Abs(eq) \notin DOMAIN s.om.litmap
      BY <2>5, <2>11
    <3> HIDE DEF o, value
    <3> QED BY <1>3, <2>5, <2>7, <3>1, <3>2, AddOrderLitOk
  <2> HIDE DEF o, value
  <2>13. IsBuilder(s3)
    BY <2>10 DEF GoodBuilder
  <2>14. r.om = o /\ r.used = U /\ r.clauses = s3.clauses /\ r.units = s3.units
    BY <2>1, <2>10, <2>13, BuilderParts
  <2>15. More(s3, r)
    BY <2>10, <2>12, <2>14 DEF More, Extends
  <2>16. Onward(BuilderWorld(s3), w)
    BY <2>10, <2>15, BuilderOnward
  <2>17. Onward(BuilderWorld(s), w)
    <3>1. Onward(BuilderWorld(s), BuilderWorld(s1))
      BY <2>8, BuilderOnward
    <3> QED BY <2>9, <2>10, <2>16, <3>1, OnwardTransitive
  <2>18. w.kept = U /\ w.om = o
    BY <2>14, BuilderWorldIs
  <2> HIDE DEF w
  <2>19. Stands(w, eq, value)
    BY <2>7, <2>12, <2>18 DEF Stands, Means
  <2>20. Enforced(w, d1) /\ Enforced(w, d2)
    BY <2>9, <2>10, <2>16, EnforcedOnward
  <2>21. \/ {-c.clit, Towards(c, eq)} = d1 /\ {c.clit, -Towards(c, eq)} = d2
         \/ {-c.clit, Towards(c, eq)} = d2 /\ {c.clit, -Towards(c, eq)} = d1
    <3>1. \/ lit = c.clit /\ Towards(c, eq) = eq
          \/ lit = -c.clit /\ Towards(c, eq) = -eq /\ -lit = c.clit /\ -Towards(c, eq) = eq
      BY <1>5, <2>7, TowardsTwice
    <3>2. d1 = {-lit, eq} /\ d2 = {-eq, lit}
      BY DEF d1, d2
    <3> QED BY <3>1, <3>2
  <2>22. SimpleKept(w, c)
    BY <2>7, <2>18, <2>19, <2>20, <2>21, LinkedFrom DEF value
  <2> QED BY <2>17, <2>22
<1> QED BY <1>6, <1>8, <1>9 DEF w, r


-----------------------------------------------------------------------------
(* Steps.                                                                  *)

\* What is known of the constraints and domains of a program.
LEMMA ProgramParts ==
    ASSUME Assumptions, KindsApart, IInv
    PROVE  /\ Simples \intersect Doms = {}
           /\ \A c \in Simples : SimpleValue(c) \in Int /\ c.clit \in LiteralsOf(Kept) /\ -c.clit \in LiteralsOf(Kept)
           /\ \A d \in Doms : /\ d.dom \in Seq(Int \X Int) /\ d.dom # <<>>
                              /\ d.lit \in LiteralsOf(Kept) /\ -d.lit \in LiteralsOf(Kept)
<1>1. program \in Programs
  BY Basics
<1>2. LiteralsOf(Clits) \subseteq LiteralsOf(Kept)
  BY KeptLiterals DEF LiteralsOf
<1>3. \A l \in LiteralsOf(Clits) : l \in LiteralsOf(Kept) /\ -l \in LiteralsOf(Kept)
  BY <1>2, KeptLiterals
<1>4. ASSUME NEW c \in Simples
      PROVE  SimpleValue(c) \in Int /\ c.clit \in LiteralsOf(Kept) /\ -c.clit \in LiteralsOf(Kept)
  <2>1. c.clit \in LiteralsOf(Clits) /\ c.co \in Int \ {0} /\ c.rhs \in Int
    BY <1>1 DEF Assumptions, ProgramsAssumption, Simples, Clits
  <2>2. 0 \in Int
    OBVIOUS
  <2>3. SimpleValue(c) \in Int
    BY <2>1, <2>2, SimpleValueIs
  <2> QED BY <1>3, <2>1, <2>3
<1>5. ASSUME NEW d \in Doms
      PROVE  /\ d.dom \in Seq(Int \X Int) /\ d.dom # <<>>
             /\ d.lit \in LiteralsOf(Kept) /\ -d.lit \in LiteralsOf(Kept)
  <2>1. d.lit \in LiteralsOf(Clits) /\ d.dom \in Seq(Int \X Int)
    BY <1>1 DEF Assumptions, ProgramsAssumption, Doms, Clits
  <2>2. d.dom # <<>>
    BY <1>1 DEF KindsApart, Doms
  <2> QED BY <1>3, <2>1, <2>2
<1>6. Simples \intersect Doms = {}
  BY <1>1 DEF KindsApart, Simples, Doms
<1> QED BY <1>4, <1>5, <1>6

\* What was added before is kept by a step that loses nothing; what is added
\* by it has to be kept as well.
LEMMA KeptOnward ==
    ASSUME Assumptions, KindsApart, IInv, KeptInv, pc # "unsat", Onward(World, World'), UNCHANGED program,
           \A c \in (added' \ added) \intersect Simples : SimpleKept(World', c),
           \A d \in (added' \ added) \intersect Doms : DomKept(World', d)
    PROVE  KeptInv'
<1>1. World.kept = Kept
  BY KeptLiterals
<1>2. ASSUME NEW c \in added' \intersect Simples
      PROVE  SimpleKept(World', c)
  <2>1. CASE c \in added
    <3>1. SimpleKept(World, c)
      BY <1>2, <2>1 DEF KeptInv
    <3>2. SimpleValue(c) \in Int /\ -c.clit \in LiteralsOf(World.kept)
      BY <1>1, <1>2, ProgramParts
    <3> QED BY <3>1, <3>2, SimpleOnward
  <2>2. CASE c \notin added
    BY <1>2, <2>2
  <2> QED BY <2>1, <2>2
<1>3. ASSUME NEW d \in added' \intersect Doms
      PROVE  DomKept(World', d)
  <2>1. CASE d \in added
    <3>1. DomKept(World, d)
      BY <1>3, <2>1 DEF KeptInv
    <3>2. d.dom \in Seq(Int \X Int) /\ d.dom # <<>> /\ -d.lit \in LiteralsOf(World.kept)
      BY <1>1, <1>3, ProgramParts
    <3> QED BY <3>1, <3>2, DomOnward
  <2>2. CASE d \notin added
    BY <1>3, <2>2
  <2> QED BY <2>1, <2>2
<1>4. Simples' = Simples /\ Doms' = Doms
  BY DEF Simples, Doms
<1> QED BY <1>2, <1>3, <1>4 DEF KeptInv

\* While a solve step is built the world is that of the builder.
LEMMA BuiltWorld ==
    ASSUME Assumptions, IInv, pc = "build", NEW s, Built(s)
    PROVE  /\ World = BuilderWorld(Builder) /\ World' = BuilderWorld(s)
           /\ dl = 0 /\ pc' = "build"
<1>1. pc \notin Searching /\ pc' = "build" /\ pc' \notin Searching
  BY DEF Searching, Built
<1>2. Kept = used /\ Kept' = used'
  BY <1>1 DEF Kept
<1>3. World = BuilderWorld(Builder)
  BY <1>2 DEF World, BuilderWorld, Builder
<1>4. World' = BuilderWorld(s)
  BY <1>2 DEF World, BuilderWorld, Built
<1>5. dl = 0
  BY PhaseFacts DEF Building
<1> QED BY <1>1, <1>3, <1>4, <1>5

\* A literal that is false on level 0 is so for good.
LEMMA FalseForGood ==
    ASSUME Assumptions, IInv, dl = 0, NEW l \in LiteralsOf(used), IsFalse(l)
    PROVE  Sure(World, -l)
<1>1. /\ Atoms \subseteq Nat \ {0, 1} /\ assign \in [Atoms -> {-1, 0, 1}] /\ used \subseteq Nat \ {0, 1}
      /\ alevel \in [Atoms -> 0..dl] /\ l \in LiteralsOf(Atoms) /\ used \subseteq Atoms
  <2>1. used \subseteq Atoms /\ Atoms \subseteq Nat \ {0, 1} /\ assign \in [Atoms -> {-1, 0, 1}]
    BY Basics DEF Assignment
  <2>2. l \in LiteralsOf(Atoms)
    BY <2>1, MoreLiterals
  <2>3. alevel \in [Atoms -> 0..dl]
    BY DEF IInv, AssignInv
  <2>4. used \subseteq Nat \ {0, 1}
    BY <2>1
  <2> QED BY <2>1, <2>2, <2>3, <2>4
<1>2. l \in Int /\ (Abs(l) = T \/ Abs(l) \in used) /\ Abs(-l) = Abs(l)
  <2>1. Abs(-l) = Abs(l)
    BY ONLY <1>1, TruthIs
  <2>2. l \in Int /\ (Abs(l) = T \/ Abs(l) \in used)
    BY <1>1, AtomOf
  <2> QED BY <2>1, <2>2
<1>3. Truth(assign, -l) = 1
  <2> DEFINE y == -l
  <2>1. Opposite(y, l)
    BY DEF Opposite
  <2> HIDE DEF y
  <2>2. Truth(assign, y) = 1 <=> Truth(assign, l) = -1
    BY ONLY <1>1, <2>1, OppositeTruth
  <2> QED BY <2>2 DEF y, IsFalse
<1>4. Abs(l) = T \/ (assign[Abs(l)] # 0 /\ alevel[Abs(l)] = 0)
  <2>1. SUFFICES ASSUME Abs(l) # T
                 PROVE  assign[Abs(l)] # 0 /\ alevel[Abs(l)] = 0
    OBVIOUS
  <2>2. Abs(l) \in Atoms
    BY <1>1, <1>2, <2>1
  <2>3. Truth(assign, l) = 0 <=> assign[Abs(l)] = 0
    BY ONLY <1>1, <2>2, TruthZero
  <2>4. Truth(assign, l) # 0
    BY DEF IsFalse
  <2>5. alevel[Abs(l)] = 0
    <3>1. alevel[Abs(l)] \in 0..0
      BY <1>1, <2>2
    <3> QED BY <3>1
  <2> QED BY <2>3, <2>4, <2>5
<1> QED BY <1>2, <1>3, <1>4, KeptLiterals DEF Sure

\* A world that does not change.
LEMMA OnwardSame ==
    ASSUME Assumptions, IInv
    PROVE  Onward(World, World)
BY DEF Onward

\* Adding a simple constraint keeps it.
LEMMA AddSimpleAdds ==
    ASSUME Assumptions, KindsApart, AddedInv, NEW c \in Simples, AddSimple(c), UNCHANGED program
    PROVE  KeptInv'
<1>0. IInv /\ KeptInv
  BY DEF AddedInv
<1>1. pc = "build" /\ EnoughAtoms(1) /\ pc # "unsat" /\ added' = added \union {c}
  BY DEF AddSimple
<1>2. PICK n \in Nat : n + 1 <= program.atoms /\ GoodBuilder(Builder, n)
  BY <1>0, <1>1, BuilderOk
<1>3. PICK s : s = Builder
  OBVIOUS
<1> DEFINE value == SimpleValue(c)
<1>4. dl = 0
  BY <1>0, <1>1, PhaseFacts DEF Building
<1>5. \E t : Built(t) /\ Onward(BuilderWorld(s), BuilderWorld(t)) /\ SimpleKept(BuilderWorld(t), c)
  <2>1. CASE ~c.strict /\ IsFalse(c.clit)
    <3>1. Built(s)
      BY <1>3, <2>1 DEF AddSimple
    <3>2. World = BuilderWorld(s)
      BY <1>0, <1>1, <1>3, <3>1, BuiltWorld
    <3>3. Sure(World, -c.clit)
      <4>1. c.clit \in LiteralsOf(used)
        BY <1>0, ProgramParts, KeptLiterals
      <4> QED BY <1>0, <1>4, <2>1, <4>1, FalseForGood
    <3>4. Onward(World, World)
      BY <1>0, OnwardSame
    <3> QED BY <2>1, <3>1, <3>2, <3>3, <3>4 DEF SimpleKept
  <2>2. CASE ~(~c.strict /\ IsFalse(c.clit)) /\ c.strict /\ ~OutOfBounds(value) /\ value \notin DOMAIN om.lits
    <3>1. PICK t : t = ReuseLiteral(s, c)
      OBVIOUS
    <3>2. Built(t)
      BY <1>3, <2>2, <3>1 DEF AddSimple
    <3>3. s.om = om
      BY <1>3 DEF Builder
    <3> QED BY <1>0, <1>2, <1>3, <1>4, <2>2, <3>1, <3>2, <3>3, ReuseLiteralDoes
  <2>3. CASE ~(~c.strict /\ IsFalse(c.clit)) /\ ~(c.strict /\ ~OutOfBounds(value) /\ value \notin DOMAIN om.lits)
    <3>1. PICK t : t = ImplyLiteral(s, c)
      OBVIOUS
    <3>2. Built(t)
      BY <1>3, <2>3, <3>1 DEF AddSimple
    <3> QED BY <1>0, <1>2, <1>3, <1>4, <3>1, <3>2, ImplyLiteralDoes
  <2> QED BY <2>1, <2>2, <2>3
<1>6. PICK t : Built(t) /\ Onward(BuilderWorld(s), BuilderWorld(t)) /\ SimpleKept(BuilderWorld(t), c)
  BY <1>5
<1>7. Onward(World, World') /\ SimpleKept(World', c)
  BY <1>0, <1>1, <1>3, <1>6, BuiltWorld
<1>8. \A e \in (added' \ added) \intersect Simples : SimpleKept(World', e)
  <2>1. \A e \in added' \ added : e = c
    BY <1>1
  <2> QED BY <1>7, <2>1
<1>9. \A d \in (added' \ added) \intersect Doms : DomKept(World', d)
  <2>1. \A d \in added' \ added : d = c
    BY <1>1
  <2>2. c \notin Doms
    BY <1>0, ProgramParts
  <2> QED BY <2>1, <2>2
<1> QED BY <1>0, <1>1, <1>7, <1>8, <1>9, KeptOnward

-----------------------------------------------------------------------------
(* Domains.                                                                *)

\* The loops of add_dom as a function of their steps.
LEMMA DomRun ==
    ASSUME NEW s, NEW d, NEW lit, Len(d.dom) \in Nat
    PROVE  \E run : /\ DomSteps(s, d, lit) = run[2 * Len(d.dom)]
                    /\ run[0] = s
                    /\ \A k \in 1..(2 * Len(d.dom)) : run[k] = DomStep(d, lit, run[k - 1], k)
<1> DEFINE L == Len(d.dom)
           N == 2 * L
           Is(g) == g = [j \in 0..N |-> IF j = 0 THEN s
                                         ELSE IF j <= L THEN DomFromLeft(g[j - 1], d, lit, j)
                                         ELSE DomFromRight(g[j - 1], d, lit, N + 1 - j)]
           run == CHOOSE g : Is(g)
<1>1. DomSteps(s, d, lit) = run[N]
  BY DEF DomSteps
<1>2. L \in Nat /\ N \in Nat
  OBVIOUS
<1>3. \E g : Is(g)
  <2>1. PICK g : IsDomRun(s, d, lit, N, g)
    BY <1>2, DomRunExists
  <2>2. Is(g)
    BY <2>1, Zenon DEF IsDomRun, DomStep
  <2> HIDE DEF Is
  <2> QED BY <2>2
<1>4. Is(run)
  <2> HIDE DEF Is
  <2> QED BY <1>3
<1> HIDE DEF run
<1>5. \A j \in 0..N : run[j] = IF j = 0 THEN s
                                ELSE IF j <= L THEN DomFromLeft(run[j - 1], d, lit, j)
                                ELSE DomFromRight(run[j - 1], d, lit, N + 1 - j)
  <2> DEFINE f == [j \in 0..N |-> IF j = 0 THEN s
                                  ELSE IF j <= L THEN DomFromLeft(run[j - 1], d, lit, j)
                                  ELSE DomFromRight(run[j - 1], d, lit, N + 1 - j)]
  <2>1. run = f
    BY <1>4
  <2>2. \A j \in 0..N : f[j] = IF j = 0 THEN s
                                ELSE IF j <= L THEN DomFromLeft(run[j - 1], d, lit, j)
                                ELSE DomFromRight(run[j - 1], d, lit, N + 1 - j)
    OBVIOUS
  <2> HIDE DEF f
  <2> QED BY <2>1, <2>2
<1> HIDE DEF Is
<1>6. run[0] = s
  BY <1>2, <1>5
<1>7. \A k \in 1..N : run[k] = DomStep(d, lit, run[k - 1], k)
  <2>1. \A k \in 1..N : k \in 0..N /\ k # 0
    BY <1>2
  <2> QED BY <1>5, <2>1 DEF DomStep
<1> QED BY <1>1, <1>6, <1>7

\* A clause about a bound v of an interval and its neighbour.
LEMMA DomClauseDoes ==
    ASSUME Assumptions, IInv, dl = 0, NEW s, NEW n \in Nat, GoodBuilder(s, n), n + 1 <= program.atoms,
           NEW v \in Int, NEW truth \in {-1, 0, 1}, NEW u, u = UpdateLiteral(s, v, truth)
    PROVE  /\ LiteralsOf(s.used) \subseteq LiteralsOf(u.used) /\ u.used \subseteq Nat \ {0, 1}
           /\ LitOf(u, v) \in LiteralsOf(u.used)
           /\ \A c \in SUBSET LiteralsOf(u.used) :
                /\ GoodBuilder(StoreClause(u, c), n + 1) /\ s.used \subseteq StoreClause(u, c).used
                /\ Onward(BuilderWorld(s), BuilderWorld(StoreClause(u, c)))
                /\ Enforced(BuilderWorld(StoreClause(u, c)), c)
                /\ Stands(BuilderWorld(StoreClause(u, c)), LitOf(u, v), v)
                /\ LitOf(u, v) \in LiteralsOf(StoreClause(u, c).used)
<1> DEFINE l == LitOf(u, v)
<1>1. /\ GoodBuilder(u, n + 1) /\ s.used \subseteq u.used
      /\ Onward(BuilderWorld(s), BuilderWorld(u))
      /\ Stands(BuilderWorld(u), l, v) /\ l \in LiteralsOf(u.used)
  BY LiteralDoes
<1>2. u.used \subseteq Nat \ {0, 1} /\ LiteralsOf(s.used) \subseteq LiteralsOf(u.used)
  BY <1>1, BuilderFacts, MoreLiterals
<1> HIDE DEF l
<1>4. ASSUME NEW c \in SUBSET LiteralsOf(u.used)
      PROVE  LET t == StoreClause(u, c) IN
             /\ GoodBuilder(t, n + 1) /\ s.used \subseteq t.used
             /\ Onward(BuilderWorld(s), BuilderWorld(t))
             /\ Enforced(BuilderWorld(t), c)
             /\ Stands(BuilderWorld(t), l, v) /\ l \in LiteralsOf(t.used)
  <2> DEFINE t == StoreClause(u, c)
  <2>1. GoodBuilder(t, n + 1) /\ t.used = u.used
    BY <1>1, StoreClauseOk
  <2>2. Onward(BuilderWorld(u), BuilderWorld(t)) /\ Enforced(BuilderWorld(t), c)
    BY <1>1, StoreClauseDoes
  <2> HIDE DEF t
  <2>3. Onward(BuilderWorld(s), BuilderWorld(t))
    BY <1>1, <2>2, OnwardTransitive
  <2>4. Stands(BuilderWorld(t), l, v)
    BY <1>1, <2>2, StandsOnward
  <2> QED BY <1>1, <2>1, <2>2, <2>3, <2>4 DEF t
<1> QED BY <1>1, <1>2, <1>4 DEF l

\* A step of the first loop links the start of an interval.
LEMMA DomFromLeftDoes ==
    ASSUME Assumptions, IInv, dl = 0, NEW s, NEW n \in Nat, GoodBuilder(s, n), n + 2 <= program.atoms,
           NEW lit \in LiteralsOf(s.used), NEW d, d.dom \in Seq(Int \X Int), NEW i \in 1..Len(d.dom)
    PROVE  LET r == DomFromLeft(s, d, lit, i) IN
           /\ GoodBuilder(r, n + 2) /\ s.used \subseteq r.used
           /\ Onward(BuilderWorld(s), BuilderWorld(r))
           /\ i = 1 => FirstLinked(BuilderWorld(r), d, lit)
           /\ i # 1 => NextLinked(BuilderWorld(r), d, lit, i)
<1> DEFINE w == d.dom[i - 1][2] - 1
           v == d.dom[i][1] - 1
           t == IF i = 1 THEN s ELSE GetLiteral(s, w)
           ly == IF i = 1 THEN T ELSE -LitOf(t, w)
           truth == IF lit = T /\ IsTrue(ly) THEN -1 ELSE 0
           u == UpdateLiteral(t, v, truth)
           c == {-lit, -ly, -LitOf(u, v)}
           r == StoreClause(u, c)
<1>1. v \in Int /\ (i # 1 => w \in Int)
  <2>1. Len(d.dom) \in Nat /\ (i # 1 => i - 1 \in 1..Len(d.dom))
    OBVIOUS
  <2>2. d.dom[i][1] \in Int /\ (i # 1 => d.dom[i - 1][2] \in Int)
    BY <2>1, IntervalIs
  <2>3. \A x \in Int : x - 1 \in Int
    OBVIOUS
  <2> QED BY <2>2, <2>3
<1>2. DomFromLeft(s, d, lit, i) = r
  BY DEF DomFromLeft
<1>3. truth \in {-1, 0, 1}
  OBVIOUS
<1>4. program.atoms \in Nat /\ n + 1 \in Nat /\ n + 1 <= program.atoms /\ n <= n + 1 /\ (n + 1) + 1 = n + 2
      /\ (n + 1) + 1 <= program.atoms
  <2>1. program.atoms \in Nat
    BY Basics
  <2>2. n + 2 <= program.atoms /\ n \in Nat
    OBVIOUS
  <2> QED BY ONLY <2>1, <2>2
<1>5. /\ GoodBuilder(t, n + 1) /\ s.used \subseteq t.used /\ ly \in LiteralsOf(t.used) /\ lit \in LiteralsOf(t.used)
      /\ Onward(BuilderWorld(s), BuilderWorld(t))
      /\ i = 1 => -ly = -T
      /\ i # 1 => Stands(BuilderWorld(t), -ly, w) /\ -ly \in LiteralsOf(t.used)
  <2>1. CASE i = 1
    <3>1. t = s /\ ly = T
      BY <2>1
    <3>2. 0 \in Int
      OBVIOUS
    <3>3. GoodBuilder(s, n + 1) /\ T \in LiteralsOf(s.used)
      BY <1>4, <3>2, NeighbourOk
    <3>4. Onward(BuilderWorld(s), BuilderWorld(s))
      BY BuilderOnward DEF More
    <3> QED BY <2>1, <3>1, <3>3, <3>4
  <2>2. CASE i # 1
    <3>1. t = GetLiteral(s, w) /\ ly = -LitOf(t, w)
      BY <2>2
    <3>2. w \in Int
      BY <1>1, <2>2
    <3> HIDE DEF t, w, ly
    <3>3. /\ GoodBuilder(t, n + 1) /\ s.used \subseteq t.used /\ ly \in LiteralsOf(t.used) /\ lit \in LiteralsOf(t.used)
          /\ LitOf(t, w) \in LiteralsOf(t.used)
      BY <1>4, <3>1, <3>2, NeighbourOk
    <3>4. 0 \in {-1, 0, 1}
      OBVIOUS
    <3>5. Onward(BuilderWorld(s), BuilderWorld(t)) /\ Stands(BuilderWorld(t), LitOf(t, w), w)
      BY <1>4, <3>1, <3>2, <3>4, LiteralDoes
    <3>6. t.used \subseteq Nat \ {0, 1}
      BY <3>3, BuilderFacts
    <3>7. LitOf(t, w) \in Int
      BY <3>3, <3>6, LiteralsAreInts
    <3>8. -ly = LitOf(t, w)
      BY <3>1, <3>7
    <3> QED BY <2>2, <3>3, <3>5, <3>8
  <2> QED BY <2>1, <2>2
<1>6. u = UpdateLiteral(t, v, truth)
  OBVIOUS
<1>9. c = {-lit, -ly, -LitOf(u, v)}
  OBVIOUS
<1> DEFINE l == LitOf(u, v)
<1> HIDE DEF t, ly, truth, u, c
<1>8. /\ GoodBuilder(r, (n + 1) + 1) /\ t.used \subseteq r.used
      /\ Onward(BuilderWorld(t), BuilderWorld(r)) /\ Enforced(BuilderWorld(r), c)
      /\ Stands(BuilderWorld(r), l, v) /\ l \in LiteralsOf(r.used)
  <2> DEFINE z == v
             m == n + 1
  <2>1. z \in Int /\ u = UpdateLiteral(t, z, truth) /\ l = LitOf(u, z) /\ c = {-lit, -ly, -LitOf(u, z)}
    BY <1>1, <1>6, <1>9
  <2>2. m \in Nat /\ GoodBuilder(t, m) /\ m + 1 <= program.atoms /\ r = StoreClause(u, c)
        /\ lit \in LiteralsOf(t.used) /\ ly \in LiteralsOf(t.used)
    BY <1>4, <1>5
  <2> HIDE DEF z, l, m, r
  <2>3. truth \in {-1, 0, 1}
    BY ONLY <1>3
  <2>5. u = UpdateLiteral(t, z, truth) /\ z \in Int /\ m \in Nat /\ GoodBuilder(t, m) /\ m + 1 <= program.atoms
    BY ONLY <2>1, <2>2
  <2>6. LiteralsOf(t.used) \subseteq LiteralsOf(u.used) /\ u.used \subseteq Nat \ {0, 1} /\ LitOf(u, z) \in LiteralsOf(u.used)
    BY ONLY Assumptions, IInv, dl = 0, <2>3, <2>5, DomClauseDoes
  <2>4. c \in SUBSET LiteralsOf(u.used)
    <3>1. -lit \in LiteralsOf(u.used) /\ -ly \in LiteralsOf(u.used) /\ -LitOf(u, z) \in LiteralsOf(u.used)
      BY <2>2, <2>6, NegatedLiteral
    <3> QED BY <2>1, <2>6, <3>1
  <2>7. /\ GoodBuilder(StoreClause(u, c), m + 1) /\ t.used \subseteq StoreClause(u, c).used
        /\ Onward(BuilderWorld(t), BuilderWorld(StoreClause(u, c)))
        /\ Enforced(BuilderWorld(StoreClause(u, c)), c)
        /\ Stands(BuilderWorld(StoreClause(u, c)), LitOf(u, z), z)
        /\ LitOf(u, z) \in LiteralsOf(StoreClause(u, c).used)
    BY ONLY Assumptions, IInv, dl = 0, <2>3, <2>4, <2>5, DomClauseDoes
  <2> QED BY <2>1, <2>2, <2>7 DEF z, m
<1> HIDE DEF l, r
<1>10. Onward(BuilderWorld(s), BuilderWorld(r))
  BY <1>5, <1>8, OnwardTransitive
<1>11. BuilderWorld(r).kept = r.used
  BY BuilderWorldIs
<1>12. c = {-lit, -ly, -l}
  BY <1>9 DEF l
<1>13. ASSUME i = 1
       PROVE  FirstLinked(BuilderWorld(r), d, lit)
  <2>1. Enforced(BuilderWorld(r), {-lit, -T, -l})
    BY <1>5, <1>8, <1>12, <1>13
  <2>2. Stands(BuilderWorld(r), l, d.dom[1][1] - 1)
    BY <1>8, <1>13
  <2> QED BY <1>8, <1>11, <2>1, <2>2 DEF FirstLinked
<1>14. ASSUME i # 1
       PROVE  NextLinked(BuilderWorld(r), d, lit, i)
  <2> DEFINE z == w
  <2>1. z \in Int /\ Stands(BuilderWorld(t), -ly, z)
    BY <1>1, <1>5, <1>14
  <2> HIDE DEF z
  <2>2. Stands(BuilderWorld(r), -ly, z) /\ -ly \in LiteralsOf(BuilderWorld(r).kept)
    BY <1>8, <2>1, StandsOnward
  <2>3. Enforced(BuilderWorld(r), {-lit, -ly, -l})
    BY <1>8, <1>12
  <2>4. Stands(BuilderWorld(r), -ly, d.dom[i - 1][2] - 1)
    BY <2>2 DEF z
  <2>5. Stands(BuilderWorld(r), l, d.dom[i][1] - 1)
    BY <1>8
  <2> QED BY <1>8, <1>11, <2>2, <2>3, <2>4, <2>5 DEF NextLinked
<1>15. GoodBuilder(r, n + 2) /\ s.used \subseteq r.used
  BY <1>4, <1>5, <1>8
<1> QED BY <1>2, <1>10, <1>13, <1>14, <1>15

\* A step of the second loop loses nothing, and the first of them links the
\* end of the last interval.
LEMMA DomFromRightDoes ==
    ASSUME Assumptions, IInv, dl = 0, NEW s, NEW n \in Nat, GoodBuilder(s, n), n + 2 <= program.atoms,
           NEW lit \in LiteralsOf(s.used), NEW d, d.dom \in Seq(Int \X Int), NEW i \in 1..Len(d.dom)
    PROVE  LET r == DomFromRight(s, d, lit, i) IN
           /\ GoodBuilder(r, n + 2) /\ s.used \subseteq r.used
           /\ Onward(BuilderWorld(s), BuilderWorld(r))
           /\ i = Len(d.dom) => LastLinked(BuilderWorld(r), d, lit)
<1> DEFINE N == Len(d.dom)
           w == d.dom[i + 1][1] - 1
           v == d.dom[i][2] - 1
           t == IF i = N THEN s ELSE GetLiteral(s, w)
           lx == IF i = N THEN T ELSE LitOf(t, w)
           truth == IF lit = T /\ IsTrue(lx) THEN 1 ELSE 0
           u == UpdateLiteral(t, v, truth)
           c == {-lit, -lx, LitOf(u, v)}
           r == StoreClause(u, c)
<1>1. v \in Int /\ (i # N => w \in Int)
  <2>1. Len(d.dom) \in Nat /\ (i # N => i + 1 \in 1..Len(d.dom))
    OBVIOUS
  <2>2. d.dom[i][2] \in Int /\ (i # N => d.dom[i + 1][1] \in Int)
    BY <2>1, IntervalIs
  <2>3. \A x \in Int : x - 1 \in Int
    OBVIOUS
  <2> QED BY <2>2, <2>3
<1>2. DomFromRight(s, d, lit, i) = r
  BY DEF DomFromRight
<1>3. truth \in {-1, 0, 1}
  OBVIOUS
<1>4. program.atoms \in Nat /\ n + 1 \in Nat /\ n + 1 <= program.atoms /\ n <= n + 1 /\ (n + 1) + 1 = n + 2
      /\ (n + 1) + 1 <= program.atoms
  <2>1. program.atoms \in Nat
    BY Basics
  <2>2. n + 2 <= program.atoms /\ n \in Nat
    OBVIOUS
  <2> QED BY ONLY <2>1, <2>2
<1>5. /\ GoodBuilder(t, n + 1) /\ s.used \subseteq t.used /\ lx \in LiteralsOf(t.used) /\ lit \in LiteralsOf(t.used)
      /\ Onward(BuilderWorld(s), BuilderWorld(t))
      /\ i = N => -lx = -T
  <2>1. CASE i = N
    <3>1. t = s /\ lx = T
      BY <2>1
    <3>2. 0 \in Int
      OBVIOUS
    <3>3. GoodBuilder(s, n + 1) /\ T \in LiteralsOf(s.used)
      BY <1>4, <3>2, NeighbourOk
    <3>4. Onward(BuilderWorld(s), BuilderWorld(s))
      BY BuilderOnward DEF More
    <3> QED BY <2>1, <3>1, <3>3, <3>4
  <2>2. CASE i # N
    <3>1. t = GetLiteral(s, w) /\ lx = LitOf(t, w)
      BY <2>2
    <3>2. w \in Int
      BY <1>1, <2>2
    <3> HIDE DEF t, w, lx
    <3>3. /\ GoodBuilder(t, n + 1) /\ s.used \subseteq t.used /\ lx \in LiteralsOf(t.used) /\ lit \in LiteralsOf(t.used)
      BY <1>4, <3>1, <3>2, NeighbourOk
    <3>4. 0 \in {-1, 0, 1}
      OBVIOUS
    <3>5. Onward(BuilderWorld(s), BuilderWorld(t))
      BY <1>4, <3>1, <3>2, <3>4, LiteralDoes
    <3> QED BY <2>2, <3>3, <3>5
  <2> QED BY <2>1, <2>2
<1>6. u = UpdateLiteral(t, v, truth)
  OBVIOUS
<1>9. c = {-lit, -lx, LitOf(u, v)}
  OBVIOUS
<1> DEFINE l == LitOf(u, v)
<1> HIDE DEF t, lx, truth, u, c
<1>8. /\ GoodBuilder(r, (n + 1) + 1) /\ t.used \subseteq r.used
      /\ Onward(BuilderWorld(t), BuilderWorld(r)) /\ Enforced(BuilderWorld(r), c)
      /\ Stands(BuilderWorld(r), l, v) /\ l \in LiteralsOf(r.used)
  <2> DEFINE z == v
             m == n + 1
  <2>1. z \in Int /\ u = UpdateLiteral(t, z, truth) /\ l = LitOf(u, z) /\ c = {-lit, -lx, LitOf(u, z)}
    BY <1>1, <1>6, <1>9
  <2>2. m \in Nat /\ GoodBuilder(t, m) /\ m + 1 <= program.atoms /\ r = StoreClause(u, c)
        /\ lit \in LiteralsOf(t.used) /\ lx \in LiteralsOf(t.used)
    BY <1>4, <1>5
  <2> HIDE DEF z, l, m, r
  <2>3. truth \in {-1, 0, 1}
    BY ONLY <1>3
  <2>5. u = UpdateLiteral(t, z, truth) /\ z \in Int /\ m \in Nat /\ GoodBuilder(t, m) /\ m + 1 <= program.atoms
    BY ONLY <2>1, <2>2
  <2>6. LiteralsOf(t.used) \subseteq LiteralsOf(u.used) /\ u.used \subseteq Nat \ {0, 1} /\ LitOf(u, z) \in LiteralsOf(u.used)
    BY ONLY Assumptions, IInv, dl = 0, <2>3, <2>5, DomClauseDoes
  <2>4. c \in SUBSET LiteralsOf(u.used)
    <3>1. -lit \in LiteralsOf(u.used) /\ -lx \in LiteralsOf(u.used) /\ -LitOf(u, z) \in LiteralsOf(u.used)
      BY <2>2, <2>6, NegatedLiteral
    <3> QED BY <2>1, <2>6, <3>1
  <2>7. /\ GoodBuilder(StoreClause(u, c), m + 1) /\ t.used \subseteq StoreClause(u, c).used
        /\ Onward(BuilderWorld(t), BuilderWorld(StoreClause(u, c)))
        /\ Enforced(BuilderWorld(StoreClause(u, c)), c)
        /\ Stands(BuilderWorld(StoreClause(u, c)), LitOf(u, z), z)
        /\ LitOf(u, z) \in LiteralsOf(StoreClause(u, c).used)
    BY ONLY Assumptions, IInv, dl = 0, <2>3, <2>4, <2>5, DomClauseDoes
  <2> QED BY <2>1, <2>2, <2>7 DEF z, m
<1> HIDE DEF l, r
<1>10. Onward(BuilderWorld(s), BuilderWorld(r))
  BY <1>5, <1>8, OnwardTransitive
<1>11. BuilderWorld(r).kept = r.used
  BY BuilderWorldIs
<1>12. c = {-lit, -lx, l}
  BY <1>9 DEF l
<1>13. ASSUME i = N
       PROVE  LastLinked(BuilderWorld(r), d, lit)
  <2>1. Enforced(BuilderWorld(r), {-lit, -T, l})
    BY <1>5, <1>8, <1>12, <1>13
  <2>2. Stands(BuilderWorld(r), l, d.dom[Len(d.dom)][2] - 1)
    BY <1>8, <1>13
  <2> QED BY <1>8, <1>11, <2>1, <2>2 DEF LastLinked
<1>15. GoodBuilder(r, n + 2) /\ s.used \subseteq r.used
  BY <1>4, <1>5, <1>8
<1> QED BY <1>2, <1>10, <1>13, <1>15

\* The loops link all intervals.
LEMMA DomStepsDo ==
    ASSUME Assumptions, IInv, dl = 0, NEW s, NEW n \in Nat, GoodBuilder(s, n),
           NEW d, d.dom \in Seq(Int \X Int), d.dom # <<>>,
           n + 4 * Len(d.dom) <= program.atoms, NEW lit \in LiteralsOf(s.used)
    PROVE  LET t == DomSteps(s, d, lit) IN
           Onward(BuilderWorld(s), BuilderWorld(t)) /\ DomLinked(BuilderWorld(t), d, lit)
<1> DEFINE L == Len(d.dom)
           N == 2 * L
<1>1. L \in Nat /\ L >= 1
  BY EmptySeq, LenProperties
<1>2. N \in Nat /\ program.atoms \in Nat /\ n + 2 * N <= program.atoms
  <2>1. program.atoms \in Nat /\ n + 4 * L <= program.atoms
    BY Basics
  <2> HIDE DEF L
  <2> QED BY <1>1, <2>1
<1>3. PICK run : /\ DomSteps(s, d, lit) = run[N]
                 /\ run[0] = s
                 /\ \A k \in 1..N : run[k] = DomStep(d, lit, run[k - 1], k)
  BY <1>1, DomRun
<1> DEFINE w(k) == BuilderWorld(run[k])
           Linked(k) == /\ k >= 1 => FirstLinked(w(k), d, lit)
                        /\ \A j \in 2..L : j <= k => NextLinked(w(k), d, lit, j)
                        /\ k > L => LastLinked(w(k), d, lit)
           Good(k) == /\ GoodBuilder(run[k], n + 2 * k) /\ s.used \subseteq run[k].used
                      /\ Onward(BuilderWorld(s), w(k)) /\ Linked(k)
           Bad == {k \in 0..N : ~Good(k)}
<1>4. Good(0)
  <2>1. run[0] = s /\ n + 2 * 0 = n
    BY <1>3
  <2>2. Onward(BuilderWorld(s), BuilderWorld(s))
    BY BuilderOnward DEF More
  <2>3. ~(0 >= 1) /\ ~(0 > L) /\ \A j \in 2..L : ~(j <= 0)
    <3> HIDE DEF L
    <3> QED BY <1>1
  <2> QED BY <2>1, <2>2, <2>3
<1>5. ASSUME NEW k \in 1..N, Good(k - 1)
      PROVE  Good(k)
  <2> DEFINE m == n + 2 * (k - 1)
             r == run[k - 1]
             q == run[k]
  <2>1. m \in Nat /\ m + 2 = n + 2 * k /\ m + 2 <= program.atoms
    <3> HIDE DEF N
    <3> QED BY <1>2
  <2>2. GoodBuilder(r, m) /\ s.used \subseteq r.used /\ Onward(BuilderWorld(s), BuilderWorld(r))
    BY <1>5
  <2>3. q = DomStep(d, lit, r, k)
    BY <1>3
  <2>4. /\ k - 1 >= 1 => FirstLinked(BuilderWorld(r), d, lit)
        /\ \A j \in 2..L : j <= k - 1 => NextLinked(BuilderWorld(r), d, lit, j)
        /\ k - 1 > L => LastLinked(BuilderWorld(r), d, lit)
    BY <1>5
  <2>5. lit \in LiteralsOf(r.used)
    BY <2>2, MoreLiterals
  <2>6. SUFFICES /\ GoodBuilder(q, m + 2) /\ s.used \subseteq q.used
                 /\ Onward(BuilderWorld(s), BuilderWorld(q))
                 /\ k >= 1 => FirstLinked(BuilderWorld(q), d, lit)
                 /\ \A j \in 2..L : j <= k => NextLinked(BuilderWorld(q), d, lit, j)
                 /\ k > L => LastLinked(BuilderWorld(q), d, lit)
    BY <2>1
  <2> HIDE DEF m, r, q
  <2>7. ASSUME Onward(BuilderWorld(r), BuilderWorld(q))
        PROVE  /\ k - 1 >= 1 => FirstLinked(BuilderWorld(q), d, lit)
               /\ \A j \in 2..L : j <= k - 1 => NextLinked(BuilderWorld(q), d, lit, j)
               /\ k - 1 > L => LastLinked(BuilderWorld(q), d, lit)
    <3>1. 1 \in 1..Len(d.dom) /\ \A j \in 2..L : j \in 1..Len(d.dom) /\ j > 1
      BY <1>1
    <3> DEFINE x == BuilderWorld(r)  y == BuilderWorld(q)
    <3>2. Onward(x, y)
      BY <2>7
    <3> HIDE DEF x, y
    <3>3. /\ FirstLinked(x, d, lit) => FirstLinked(y, d, lit)
          /\ LastLinked(x, d, lit) => LastLinked(y, d, lit)
      BY <3>1, <3>2, LinksOnward
    <3>4. \A j \in 2..L : NextLinked(x, d, lit, j) => NextLinked(y, d, lit, j)
      BY <3>1, <3>2, LinksOnward
    <3> QED BY <2>4, <3>3, <3>4 DEF x, y
  <2>8. CASE k <= L
    <3>1. k \in 1..Len(d.dom)
      BY <1>1, <2>8
    <3>2. q = DomFromLeft(r, d, lit, k)
      BY <2>3, <2>8 DEF DomStep
    <3>3. /\ GoodBuilder(q, m + 2) /\ r.used \subseteq q.used
          /\ Onward(BuilderWorld(r), BuilderWorld(q))
          /\ k = 1 => FirstLinked(BuilderWorld(q), d, lit)
          /\ k # 1 => NextLinked(BuilderWorld(q), d, lit, k)
      BY <2>1, <2>2, <2>5, <3>1, <3>2, DomFromLeftDoes
    <3>4. Onward(BuilderWorld(s), BuilderWorld(q))
      BY <2>2, <3>3, OnwardTransitive
    <3>5. k \in Nat /\ (k = 1 \/ k - 1 >= 1) /\ ~(k > L) /\ \A j \in 2..L : j <= k => j <= k - 1 \/ (j = k /\ k # 1)
      <4> HIDE DEF L, N
      <4> QED BY <1>1, <1>2, <2>8
    <3> QED BY <2>2, <2>7, <3>3, <3>4, <3>5
  <2>9. CASE ~(k <= L)
    <3> DEFINE i == N + 1 - k
    <3>1. i \in 1..L /\ (k = L + 1 => i = L) /\ (k = L + 1 \/ k - 1 > L) /\ k - 1 >= 1
          /\ \A j \in 2..L : j <= k - 1
      <4>1. k \in 1..(2 * L) /\ ~(k <= L) /\ L \in Nat /\ L >= 1
        BY <2>9, <1>1
      <4> HIDE DEF L
      <4> QED BY <4>1
    <3>2. q = DomFromRight(r, d, lit, i)
      BY <2>3, <2>9 DEF DomStep
    <3> HIDE DEF i
    <3>3. /\ GoodBuilder(q, m + 2) /\ r.used \subseteq q.used
          /\ Onward(BuilderWorld(r), BuilderWorld(q))
          /\ i = L => LastLinked(BuilderWorld(q), d, lit)
      BY <2>1, <2>2, <2>5, <3>1, <3>2, DomFromRightDoes
    <3>4. Onward(BuilderWorld(s), BuilderWorld(q))
      BY <2>2, <3>3, OnwardTransitive
    <3> QED BY <2>2, <2>7, <3>1, <3>3, <3>4
  <2> QED BY <2>8, <2>9
<1>6. Bad = {}
  <2>1. 0 \notin Bad
    BY <1>4
  <2>0. \A k \in 1..N : k - 1 \in 0..N
    <3> HIDE DEF N, Good, Bad
    <3> QED BY <1>2
  <2>2. \A k \in 1..N : k - 1 \notin Bad => k \notin Bad
    <3> SUFFICES ASSUME NEW k \in 1..N, k - 1 \notin Bad PROVE k \notin Bad
      OBVIOUS
    <3>1. k - 1 \in 0..N
      BY <2>0
    <3> HIDE DEF Good
    <3>2. Good(k - 1)
      BY <3>1
    <3> QED BY <1>5, <3>2
  <2>3. Bad \subseteq 0..N
    OBVIOUS
  <2> HIDE DEF Bad
  <2> QED BY <1>2, <2>1, <2>2, <2>3, CountUp
<1>7. Good(N)
  <2> HIDE DEF Good
  <2>1. N \in 0..N
    <3> HIDE DEF N
    <3> QED BY <1>2
  <2> QED BY <1>6, <2>1
<1>8. N >= 1 /\ N > L /\ \A j \in 2..L : j <= N
  <2> HIDE DEF L
  <2> QED BY <1>1
<1> QED BY <1>3, <1>7, <1>8 DEF DomLinked

\* Adding a domain keeps it.
LEMMA AddDomAdds ==
    ASSUME Assumptions, KindsApart, AddedInv, NEW d \in Doms, AddDom(d), UNCHANGED program
    PROVE  KeptInv'
<1>0. IInv /\ KeptInv
  BY DEF AddedInv
<1>1. pc = "build" /\ EnoughAtoms(4 * Len(d.dom)) /\ pc # "unsat" /\ added' = added \union {d}
  BY DEF AddDom
<1>2. d.dom \in Seq(Int \X Int) /\ d.dom # <<>> /\ Len(d.dom) \in Nat /\ 4 * Len(d.dom) \in Nat
      /\ d.lit \in LiteralsOf(used)
  <2>1. d.dom \in Seq(Int \X Int) /\ d.dom # <<>> /\ d.lit \in LiteralsOf(used)
    BY <1>0, ProgramParts, KeptLiterals
  <2>2. Len(d.dom) \in Nat
    BY <2>1
  <2> QED BY <2>1, <2>2
<1>3. PICK n \in Nat : n + 4 * Len(d.dom) <= program.atoms /\ GoodBuilder(Builder, n)
  BY <1>0, <1>1, <1>2, BuilderOk
<1>4. PICK s : s = Builder
  OBVIOUS
<1>5. dl = 0
  BY <1>0, <1>1, PhaseFacts DEF Building
<1>6. \E t : Built(t) /\ Onward(BuilderWorld(s), BuilderWorld(t)) /\ DomKept(BuilderWorld(t), d)
  <2>1. CASE IsFalse(d.lit)
    <3>1. Built(s)
      BY <1>4, <2>1 DEF AddDom
    <3>2. World = BuilderWorld(s)
      BY <1>0, <1>1, <1>4, <3>1, BuiltWorld
    <3>3. Sure(World, -d.lit)
      BY <1>0, <1>2, <1>5, <2>1, FalseForGood
    <3>4. Onward(World, World)
      BY <1>0, OnwardSame
    <3> QED BY <3>1, <3>2, <3>3, <3>4 DEF DomKept
  <2>2. CASE ~IsFalse(d.lit)
    <3>1. PICK lit : lit = IF IsTrue(d.lit) THEN T ELSE d.lit
      OBVIOUS
    <3>2. lit \in LiteralsOf(s.used) /\ lit \in {T, d.lit}
      <4>1. s.used = used
        BY <1>4 DEF Builder
      <4> QED BY <1>2, <3>1, <4>1, TrueAndFalse
    <3>3. PICK t : t = DomSteps(s, d, lit)
      OBVIOUS
    <3>4. Built(t)
      BY <1>4, <2>2, <3>1, <3>3 DEF AddDom
    <3>5. Onward(BuilderWorld(s), BuilderWorld(t)) /\ DomLinked(BuilderWorld(t), d, lit)
      BY <1>0, <1>2, <1>3, <1>4, <1>5, <3>2, <3>3, DomStepsDo
    <3> QED BY <3>2, <3>4, <3>5 DEF DomKept
  <2> QED BY <2>1, <2>2
<1>7. PICK t : Built(t) /\ Onward(BuilderWorld(s), BuilderWorld(t)) /\ DomKept(BuilderWorld(t), d)
  BY <1>6
<1>8. Onward(World, World') /\ DomKept(World', d)
  BY <1>0, <1>1, <1>4, <1>7, BuiltWorld
<1>9. \A e \in (added' \ added) \intersect Doms : DomKept(World', e)
  <2>1. \A e \in added' \ added : e = d
    BY <1>1
  <2> QED BY <1>8, <2>1
<1>10. \A c \in (added' \ added) \intersect Simples : SimpleKept(World', c)
  <2>1. \A c \in added' \ added : c = d
    BY <1>1
  <2>2. d \notin Simples
    BY <1>0, ProgramParts
  <2> QED BY <2>1, <2>2
<1> QED BY <1>0, <1>1, <1>8, <1>9, <1>10, KeptOnward

-----------------------------------------------------------------------------
(* Integrating facts and simplifying literals.                             *)

\* The literal T is true and -T is false.
LEMMA FactTruth == IsTrue(T) /\ ~IsFalse(T) /\ IsFalse(-T) /\ ~IsTrue(-T)
<1>1. Abs(T) = T /\ Abs(-T) = T
  <2>1. \A a \in Nat : (1 = a \/ 1 = -a => a = 1) /\ (-1 = a \/ -1 = -a => a = 1)
    OBVIOUS
  <2>2. T = 1 /\ T \in Int /\ -T \in Int
    BY DEF T
  <2> QED BY <2>1, <2>2, AbsIs
<1>2. Truth(assign, T) = 1 /\ Truth(assign, -T) = -1
  BY <1>1 DEF T, Truth
<1> QED BY <1>2 DEF IsTrue, IsFalse

\* The values with a literal in f have it in f2 as well, or it is decided and
\* so is the value, by a fact in f2 or by the bounds b2.
Taken(f, f2, b2) ==
    \A v \in DOMAIN f :
      \/ v \in DOMAIN f2 /\ f2[v] = f[v]
      \/ IsTrue(f[v]) /\ (v >= b2.up \/ (v \in DOMAIN f2 /\ f2[v] = T))
      \/ IsFalse(f[v]) /\ (v < b2.lo \/ (v \in DOMAIN f2 /\ f2[v] = -T))

\* The bounds b2 are not wider than b.
Inside(b, b2) == b \in Bounds /\ b2 \in Bounds /\ b.lo <= b2.lo /\ b2.up <= b.up

\* Replacing literals twice.
LEMMA TakenTwice ==
    ASSUME NEW f, DOMAIN f \subseteq Int, NEW f2, NEW f3, NEW b2, NEW b3, Inside(b2, b3),
           Taken(f, f2, b2), Taken(f2, f3, b3)
    PROVE  Taken(f, f3, b3)
<1> SUFFICES ASSUME NEW v \in DOMAIN f
             PROVE  \/ v \in DOMAIN f3 /\ f3[v] = f[v]
                    \/ IsTrue(f[v]) /\ (v >= b3.up \/ (v \in DOMAIN f3 /\ f3[v] = T))
                    \/ IsFalse(f[v]) /\ (v < b3.lo \/ (v \in DOMAIN f3 /\ f3[v] = -T))
  BY DEF Taken
<1>0. (v >= b2.up => v >= b3.up) /\ (v < b2.lo => v < b3.lo)
  <2>1. v \in Int /\ b2.up \in Int /\ b3.up \in Int /\ b2.lo \in Int /\ b3.lo \in Int
        /\ b2.lo <= b3.lo /\ b3.up <= b2.up
    BY DEF Inside, Bounds
  <2> QED BY <2>1
<1>1. CASE v \in DOMAIN f2 /\ f2[v] = f[v]
  BY <1>1 DEF Taken
<1>2. CASE IsTrue(f[v]) /\ (v >= b2.up \/ (v \in DOMAIN f2 /\ f2[v] = T))
  BY <1>0, <1>2, FactTruth DEF Taken
<1>3. CASE IsFalse(f[v]) /\ (v < b2.lo \/ (v \in DOMAIN f2 /\ f2[v] = -T))
  BY <1>0, <1>3, FactTruth DEF Taken
<1> QED BY <1>1, <1>2, <1>3 DEF Taken

\* A map with the literals f and the facts h.
MapWith(r, f, h) == \E x : r = [lits |-> f, litmap |-> x, factmap |-> h]

\* Only the links of an entry change.
LEMMA SetLinkLits ==
    ASSUME NEW f, NEW h, NEW o, MapWith(o, f, h), NEW l, NEW s
    PROVE  MapWith(SetSucc(o, l, s), f, h) /\ MapWith(SetPrev(o, l, s), f, h)
<1>0. PICK g : o = [lits |-> f, litmap |-> g, factmap |-> h]
  BY DEF MapWith
<1>1. [o EXCEPT !.litmap[Abs(l)].succ = s] = [lits |-> f, litmap |-> [g EXCEPT ![Abs(l)].succ = s], factmap |-> h]
  BY <1>0
<1>2. [o EXCEPT !.litmap[Abs(l)].prev = s] = [lits |-> f, litmap |-> [g EXCEPT ![Abs(l)].prev = s], factmap |-> h]
  BY <1>0
<1>3. MapWith(SetSucc(o, l, s), f, h)
  BY <1>1, Zenon DEF SetSucc, MapWith
<1>4. MapWith(SetPrev(o, l, s), f, h)
  BY <1>2, Zenon DEF SetPrev, MapWith
<1> QED BY <1>3, <1>4

\* Only links change when the neighbours of a value are linked.
LEMMA RelinkLits ==
    ASSUME NEW f, NEW h, NEW o, MapWith(o, f, h), NEW lit, NEW v
    PROVE  MapWith(Relink(o, lit, v), f, h)
<1> DEFINE p == LitPrev(o, v)
           s == LitSucc(o, v)
           y == IF lit # 0 THEN lit ELSE s
           z == IF lit # 0 THEN lit ELSE p
           q == SetSucc(o, p, y)
<1>1. Relink(o, lit, v) = SetPrev(q, s, z)
  BY DEF Relink
<1> HIDE DEF p, s, y, z
<1>2. MapWith(q, f, h)
  BY SetLinkLits
<1> HIDE DEF q
<1>3. MapWith(SetPrev(q, s, z), f, h)
  BY <1>2, SetLinkLits
<1> QED BY <1>1, <1>3

\* An integrated fact is not in the map any more.
LEMMA UnsetFactLits ==
    ASSUME NEW o \in MapSet, NEW v
    PROVE  UnsetFact(o, v).lits = Without(o.lits, v)
<1> DEFINE f == o.lits
           g == o.litmap
           h == o.factmap
<1>1. o = [lits |-> f, litmap |-> g, factmap |-> h]
  BY MapParts
<1> HIDE DEF f, g, h
<1>2. PICK x : Relink(o, 0, v) = [lits |-> f, litmap |-> x, factmap |-> h]
  <2>1. PICK n : n = 0
    OBVIOUS
  <2>2. MapWith(o, f, h)
    BY <1>1 DEF MapWith
  <2>3. MapWith(Relink(o, n, v), f, h)
    BY <2>2, RelinkLits
  <2> QED BY <2>1, <2>3 DEF MapWith
<1>3. UnsetFact(o, v) = [Relink(o, 0, v) EXCEPT !.lits = Without(f, v)]
  BY <1>2 DEF UnsetFact, UnsetLiteral
<1> DEFINE y == Without(f, v)
<1> HIDE DEF y
<1>4. UnsetFact(o, v) = [lits |-> y, litmap |-> x, factmap |-> h]
  BY <1>2, <1>3 DEF y
<1>5. UnsetFact(o, v).lits = y
  BY <1>4
<1> QED BY <1>5 DEF y, f

\* A simplified literal is a fact.
LEMMA SimplifiedAsLits ==
    ASSUME OrderAssumption, NEW o, NEW U, MapOk(o, U, 0), NEW l, NEW fact, NEW q, q = SimplifiedAs(o, l, fact)
    PROVE  \A v \in DOMAIN o.lits : /\ v \in DOMAIN q.lits
                                    /\ q.lits[v] = o.lits[v] \/ (q.lits[v] = fact /\ o.lits[v] = l)
<1>1. CASE ~Valid(o, l)
  BY <1>1 DEF SimplifiedAs
<1>2. CASE Valid(o, l)
  <2> DEFINE f == o.lits
             g == o.litmap
             h == o.factmap
             c == Abs(l)
             v == g[c].value
             y == With(f, v, fact)
             b == SetLiteral(o, v, fact)
  <2>1. o = [lits |-> f, litmap |-> g, factmap |-> h]
    BY MapParts DEF MapOk
  <2>2. v \in DOMAIN f /\ f[v] = l
    BY <1>2 DEF MapOk, EntriesLinked, Valid
  <2>3. q = [Relink(b, fact, v) EXCEPT !.litmap = Without(@, c),
                  !.factmap = Append(@, [lit |-> fact, value |-> v, prec |-> IF fact = T THEN g[c].succ ELSE g[c].prev])]
    BY <1>2 DEF SimplifiedAs
  <2> DEFINE e == [lit |-> fact, value |-> v, prec |-> IF fact = T THEN g[c].succ ELSE g[c].prev]
  <2>4. q = [Relink(b, fact, v) EXCEPT !.litmap = Without(@, c), !.factmap = Append(@, e)]
    BY <2>3
  <2> HIDE DEF v, e, c, g, h
  <2>5. b = [lits |-> y, litmap |-> g, factmap |-> h]
    BY <2>1 DEF SetLiteral
  <2>6. /\ v \in DOMAIN y /\ y[v] = fact
        /\ \A z \in DOMAIN f : z \in DOMAIN y /\ (z # v => y[z] = f[z])
    <3>1. /\ DOMAIN y = DOMAIN f \union {v} /\ y[v] = fact
          /\ \A z \in DOMAIN f : z # v => y[z] = f[z]
      BY DEF With
    <3> HIDE DEF y, f
    <3> QED BY <3>1
  <2> HIDE DEF b, y
  <2>7. PICK x : Relink(b, fact, v) = [lits |-> y, litmap |-> x, factmap |-> h]
    <3>1. MapWith(b, y, h)
      BY <2>5 DEF MapWith
    <3>2. MapWith(Relink(b, fact, v), y, h)
      BY <3>1, RelinkLits
    <3> QED BY <3>2 DEF MapWith
  <2> DEFINE r == Relink(b, fact, v)
             x2 == Without(r.litmap, c)
             h2 == Append(r.factmap, e)
  <2>8. q = SetBoth(r, x2, h2)
    BY <2>4 DEF SetBoth
  <2>9. r = [lits |-> y, litmap |-> x, factmap |-> h]
    BY <2>7
  <2> HIDE DEF r, x2, h2
  <2>10. q = [lits |-> y, litmap |-> x2, factmap |-> h2]
    BY <2>8, <2>9, BothSet
  <2>11. q.lits = y
    BY <2>10
  <2> QED BY <2>2, <2>6, <2>11
<1> QED BY <1>1, <1>2

\* Literals that are simplified are decided.
LEMMA SimplifiedTakes ==
    ASSUME Assumptions, IInv, NEW o, NEW U, MapOk(o, U, 0), U \subseteq Atoms, NEW l \in Int, IsTrue(l), IsFalse(-l),
           NEW b
    PROVE  Taken(o.lits, Simplified(o, l).lits, b)
<1> DEFINE p == SimplifiedAs(o, l, T)
           q == SimplifiedAs(p, -l, -T)
<1>1. OrderAssumption /\ Atoms \subseteq Nat
  BY Basics DEF Assumptions
<1>2. T \in FactLits
  BY DEF FactLits
<1>3. MapOk(p, U, 0)
  BY <1>1, <1>2, SimplifiedAsOk
<1>4. \A v \in DOMAIN o.lits : v \in DOMAIN p.lits /\ (p.lits[v] = o.lits[v] \/ (p.lits[v] = T /\ o.lits[v] = l))
  BY <1>1, SimplifiedAsLits
<1> HIDE DEF p
<1>5. \A v \in DOMAIN p.lits : v \in DOMAIN q.lits /\ (q.lits[v] = p.lits[v] \/ (q.lits[v] = -T /\ p.lits[v] = -l))
  <2> DEFINE y == -l
             z == -T
  <2>1. q = SimplifiedAs(p, y, z)
    OBVIOUS
  <2> HIDE DEF y, z, q
  <2>2. \A v \in DOMAIN p.lits : v \in DOMAIN q.lits /\ (q.lits[v] = p.lits[v] \/ (q.lits[v] = z /\ p.lits[v] = y))
    BY <1>1, <1>3, <2>1, SimplifiedAsLits
  <2> QED BY <2>2 DEF y, z
<1>6. Simplified(o, l) = q
  BY DEF Simplified, p
<1> HIDE DEF q
<1>7. ~IsFalse(T) /\ ~IsTrue(-T)
  BY FactTruth
<1>8. \A v \in DOMAIN o.lits :
        \/ v \in DOMAIN q.lits /\ q.lits[v] = o.lits[v]
        \/ IsTrue(o.lits[v]) /\ v \in DOMAIN q.lits /\ q.lits[v] = T
        \/ IsFalse(o.lits[v]) /\ v \in DOMAIN q.lits /\ q.lits[v] = -T
  <2> SUFFICES ASSUME NEW v \in DOMAIN o.lits
               PROVE  \/ v \in DOMAIN q.lits /\ q.lits[v] = o.lits[v]
                      \/ IsTrue(o.lits[v]) /\ v \in DOMAIN q.lits /\ q.lits[v] = T
                      \/ IsFalse(o.lits[v]) /\ v \in DOMAIN q.lits /\ q.lits[v] = -T
    OBVIOUS
  <2>1. v \in DOMAIN p.lits /\ v \in DOMAIN q.lits
    BY <1>4, <1>5
  <2>2. q.lits[v] = p.lits[v] \/ (q.lits[v] = -T /\ p.lits[v] = -l)
    BY <1>5, <2>1
  <2>3. p.lits[v] = o.lits[v] \/ (p.lits[v] = T /\ o.lits[v] = l)
    BY <1>4
  <2>4. p.lits[v] = T /\ p.lits[v] = -l => FALSE
    BY <1>7
  <2> QED BY <2>1, <2>2, <2>3, <2>4, Zenon
<1> QED BY <1>6, <1>8, Zenon DEF Taken

-----------------------------------------------------------------------------
(* States of a step.                                                       *)

\* The state t has what s has: bounds that are not wider, all unit clauses,
\* and the literals that are not decided.
Further(s, t) == Inside(s.b, t.b) /\ s.units \subseteq t.units /\ Taken(s.om.lits, t.om.lits, t.b)

\* Implied literals only add units.
LEMMA ImplyFurther ==
    ASSUME Assumptions, IInv, NEW U, U \subseteq Atoms, NEW s, GoodState(s, U), NEW ls, ls \subseteq LiteralsOf(U),
           NEW t, t = Imply(s, ls), t.ok
    PROVE  t.om = s.om /\ t.b = s.b /\ s.units \subseteq t.units
<1>1. t.om = s.om /\ t.b = s.b /\ GoodState(t, U)
  BY ImplyOk
<1>2. CASE ~Preparing
  BY <1>1, <1>2 DEF GoodState
<1>3. CASE Preparing
  <2> DEFINE y == s.units \union ls
  <2>1. t = SetUnits(s, y)
    BY <1>3 DEF Imply, SetUnits
  <2>2. s.units \subseteq y /\ IsState(s)
    BY DEF GoodState
  <2> HIDE DEF y
  <2>3. t.units = y
    BY <2>1, <2>2, UnitsSet
  <2> QED BY <1>1, <2>2, <2>3
<1> QED BY <1>2, <1>3

\* Bounds of a state are bounds.
LEMMA InsideSame ==
    ASSUME NEW b \in Bounds, NEW b2, b2 = b
    PROVE  Inside(b, b2)
<1>1. b.lo \in Int /\ b.up \in Int
  BY DEF Bounds
<1>2. b.lo <= b.lo /\ b.up <= b.up
  BY <1>1
<1> QED BY <1>2 DEF Inside

\* The upper bound gets tighter.
LEMMA UpperFurther ==
    ASSUME Assumptions, IInv, NEW U, U \subseteq Atoms, NEW s, GoodState(s, U), NEW m, MapOk(s.om, U, m),
           NEW value \in Int, NEW succ, NEW t, t = UpdateUpper(s, value, succ), t.ok
    PROVE  t.om = s.om /\ s.units \subseteq t.units /\ Inside(s.b, t.b)
<1> DEFINE up == Min({s.b.up, value})
           r == [s EXCEPT !.b.up = Min({@, value})]
<1>1. IsState(s) /\ s.b \in Bounds /\ s.b.lo \in Int /\ s.b.up \in Int /\ Top.lo <= s.b.lo /\ s.b.lo <= s.b.up
      /\ s.b.up <= Top.up /\ Top.lo \in Int /\ Top.up \in Int
  BY Basics DEF GoodState, Bounds
<1>2. ~(value < s.b.lo)
  <2> SUFFICES ASSUME value < s.b.lo PROVE FALSE
    OBVIOUS
  <2>1. t = Fail(s)
    BY DEF UpdateUpper, Fail
  <2> QED BY <1>1, <2>1, FailIs
<1>3. t = IF Truth(s.val, succ) = 1 THEN r ELSE Imply(r, ImpliedAbove(r, value))
  BY <1>2 DEF UpdateUpper
<1>4. r = SetUpper(s, up)
  BY DEF SetUpper
<1>5. up \in Int /\ s.b.lo <= up /\ up <= s.b.up
  <2>1. up = (IF s.b.up <= value THEN s.b.up ELSE value)
    BY <1>1, LeastOfTwo
  <2> HIDE DEF up
  <2> QED BY <2>1, <1>1, <1>2
<1> HIDE DEF r, up
<1>6. /\ IsState(r) /\ r.om = s.om /\ r.b = [lo |-> s.b.lo, up |-> up] /\ r.val = s.val /\ r.units = s.units
      /\ r.ok = s.ok
  BY <1>1, <1>4, UpperSet
<1>7. r.b \in Bounds /\ r.b.lo = s.b.lo /\ r.b.up = up
  BY <1>1, <1>5, <1>6 DEF Bounds
<1>8. GoodState(r, U)
  <2>1. Top.lo <= r.b.lo /\ r.b.lo <= r.b.up /\ r.b.up <= Top.up
    BY <1>1, <1>5, <1>7
  <2> QED BY <2>1, <1>6, <1>7 DEF GoodState
<1>9. Inside(s.b, r.b)
  <2>1. s.b.lo <= r.b.lo /\ r.b.up <= s.b.up
    BY <1>1, <1>5, <1>7
  <2> QED BY <1>1, <1>7, <2>1 DEF Inside
<1>10. CASE Truth(s.val, succ) = 1
  BY <1>3, <1>6, <1>9, <1>10
<1>11. CASE Truth(s.val, succ) # 1
  <2> DEFINE ls == ImpliedAbove(r, value)
  <2>1. MapOk(r.om, U, m)
    BY <1>6
  <2>2. ls \subseteq LiteralsOf(U)
    BY <2>1, ImpliedAre
  <2>3. t = Imply(r, ls)
    BY <1>3, <1>11
  <2> HIDE DEF ls
  <2>4. t.om = r.om /\ t.b = r.b /\ r.units \subseteq t.units
    BY <1>8, <2>2, <2>3, ImplyFurther
  <2> QED BY <1>6, <1>9, <2>4
<1> QED BY <1>10, <1>11

\* The lower bound gets tighter.
LEMMA LowerFurther ==
    ASSUME Assumptions, IInv, NEW U, U \subseteq Atoms, NEW s, GoodState(s, U), NEW m, MapOk(s.om, U, m),
           NEW value \in Int, NEW prev, NEW t, t = UpdateLower(s, value, prev), t.ok
    PROVE  t.om = s.om /\ s.units \subseteq t.units /\ Inside(s.b, t.b)
<1> DEFINE lo == Max({s.b.lo, value + 1})
           r == [s EXCEPT !.b.lo = Max({@, value + 1})]
<1>1. IsState(s) /\ s.b \in Bounds /\ s.b.lo \in Int /\ s.b.up \in Int /\ Top.lo <= s.b.lo /\ s.b.lo <= s.b.up
      /\ s.b.up <= Top.up /\ Top.lo \in Int /\ Top.up \in Int
  BY Basics DEF GoodState, Bounds
<1>2. ~(s.b.up < value + 1)
  <2> SUFFICES ASSUME s.b.up < value + 1 PROVE FALSE
    OBVIOUS
  <2>1. t = Fail(s)
    BY DEF UpdateLower, Fail
  <2> QED BY <1>1, <2>1, FailIs
<1>3. t = IF Truth(s.val, prev) = -1 THEN r ELSE Imply(r, ImpliedBelow(r, value))
  BY <1>2 DEF UpdateLower
<1>4. r = SetLower(s, lo)
  BY DEF SetLower
<1>5. lo \in Int /\ s.b.lo <= lo /\ lo <= s.b.up
  <2>0. value + 1 \in Int
    OBVIOUS
  <2>1. lo = (IF s.b.lo >= value + 1 THEN s.b.lo ELSE value + 1)
    BY <1>1, <2>0, GreatestOfTwo
  <2> HIDE DEF lo
  <2> QED BY <2>1, <1>1, <1>2
<1> HIDE DEF r, lo
<1>6. /\ IsState(r) /\ r.om = s.om /\ r.b = [lo |-> lo, up |-> s.b.up] /\ r.val = s.val /\ r.units = s.units
      /\ r.ok = s.ok
  BY <1>1, <1>4, LowerSet
<1>7. r.b \in Bounds /\ r.b.lo = lo /\ r.b.up = s.b.up
  BY <1>1, <1>5, <1>6 DEF Bounds
<1>8. GoodState(r, U)
  <2>1. Top.lo <= r.b.lo /\ r.b.lo <= r.b.up /\ r.b.up <= Top.up
    BY <1>1, <1>5, <1>7
  <2> QED BY <2>1, <1>6, <1>7 DEF GoodState
<1>9. Inside(s.b, r.b)
  <2>1. s.b.lo <= r.b.lo /\ r.b.up <= s.b.up
    BY <1>1, <1>5, <1>7
  <2> QED BY <1>1, <1>7, <2>1 DEF Inside
<1>10. CASE Truth(s.val, prev) = -1
  BY <1>3, <1>6, <1>9, <1>10
<1>11. CASE Truth(s.val, prev) # -1
  <2> DEFINE ls == ImpliedBelow(r, value)
  <2>1. MapOk(r.om, U, m)
    BY <1>6
  <2>2. ls \subseteq LiteralsOf(U)
    BY <2>1, ImpliedAre
  <2>3. t = Imply(r, ls)
    BY <1>3, <1>11
  <2> HIDE DEF ls
  <2>4. t.om = r.om /\ t.b = r.b /\ r.units \subseteq t.units
    BY <1>8, <2>2, <2>3, ImplyFurther
  <2> QED BY <1>6, <1>9, <2>4
<1> QED BY <1>10, <1>11

\* One fact is integrated.
LEMMA FactFurther ==
    ASSUME Assumptions, IInv, NEW U, U \subseteq Atoms, NEW s, GoodState(s, U), s.ok,
           NEW m \in Nat, MapOk(s.om, U, m), m < Len(s.om.factmap),
           NEW t, t = IntegrateFact(s, s.om.factmap[m + 1]), t.ok
    PROVE  Further(s, t)
<1> DEFINE f == s.om.factmap[m + 1]
           v == f.value
           r == IF f.lit = T THEN UpdateUpper(s, f.value, f.prec) ELSE UpdateLower(s, f.value, f.prec)
           o == UnsetFact(s.om, v)
<1>1. /\ s.om \in MapSet /\ v \in Int /\ f.lit \in FactLits
      /\ v \in DOMAIN s.om.lits /\ s.om.lits[v] = f.lit /\ DOMAIN s.om.lits \subseteq Int
  <2>1. s.om.factmap \in Seq(FactSet) /\ m + 1 \in 1..Len(s.om.factmap) /\ DOMAIN s.om.lits \subseteq Int
        /\ m + 1 \in (m + 1)..Len(s.om.factmap)
    BY MapParts DEF MapOk
  <2>2. f \in FactSet
    BY <2>1
  <2>3. f.lit \in FactLits /\ v \in DOMAIN s.om.lits /\ s.om.lits[v] = f.lit
    BY <2>1 DEF MapOk, FactsListed
  <2> QED BY <2>1, <2>2, <2>3 DEF FactSet, MapOk
<1>2. t = IF ~r.ok THEN r ELSE [r EXCEPT !.om = UnsetLiteral(Relink(@, 0, v), v)]
  BY DEF IntegrateFact
<1>3. r.ok
  <2> HIDE DEF r
  <2> QED BY <1>2
<1>4. /\ r.om = s.om /\ s.units \subseteq r.units /\ Inside(s.b, r.b) /\ IsState(r)
      /\ f.lit = T => v >= r.b.up
      /\ f.lit # T => v < r.b.lo
  <2> DEFINE p == f.prec
  <2>1. CASE f.lit = T
    <3>1. r = UpdateUpper(s, v, p)
      BY <2>1
    <3> HIDE DEF r, v, p
    <3>2. r.om = s.om /\ s.units \subseteq r.units /\ Inside(s.b, r.b)
      BY <1>1, <1>3, <3>1, UpperFurther
    <3>3. IsState(r) /\ r.b.up <= v
      BY <1>1, <1>3, <3>1, UpdateUpperOk
    <3>4. r.b.up \in Int
      BY <3>2 DEF Inside, Bounds
    <3>5. v >= r.b.up
      BY <1>1, <3>3, <3>4
    <3> QED BY <2>1, <3>2, <3>3, <3>5
  <2>2. CASE f.lit # T
    <3>1. r = UpdateLower(s, v, p)
      BY <2>2
    <3> HIDE DEF r, v, p
    <3>2. r.om = s.om /\ s.units \subseteq r.units /\ Inside(s.b, r.b)
      BY <1>1, <1>3, <3>1, LowerFurther
    <3>3. IsState(r) /\ v + 1 <= r.b.lo
      BY <1>1, <1>3, <3>1, UpdateLowerOk
    <3>4. r.b.lo \in Int
      BY <3>2 DEF Inside, Bounds
    <3>5. v < r.b.lo
      BY <1>1, <3>3, <3>4
    <3> QED BY <2>2, <3>2, <3>3, <3>5
  <2> QED BY <2>1, <2>2
<1>5. t = SetOm(r, o)
  <2>1. t = [r EXCEPT !.om = UnsetLiteral(Relink(r.om, 0, v), v)]
    <3> HIDE DEF r, f, v
    <3> QED BY ONLY <1>2, <1>3
  <2>2. UnsetLiteral(Relink(r.om, 0, v), v) = o
    BY <1>4 DEF UnsetFact
  <2> HIDE DEF r, o, f, v
  <2> QED BY <2>1, <2>2 DEF SetOm
<1>6. o.lits = Without(s.om.lits, v)
  BY <1>1, UnsetFactLits
<1> HIDE DEF r, o, f, v
<1>7. t.om = o /\ t.b = r.b /\ t.units = r.units
  BY <1>4, <1>5, OmSet
<1>8. \A k \in DOMAIN s.om.lits : k # v => k \in DOMAIN o.lits /\ o.lits[k] = s.om.lits[k]
  <2>1. /\ DOMAIN Without(s.om.lits, v) = DOMAIN s.om.lits \ {v}
        /\ \A z \in DOMAIN s.om.lits : z # v => Without(s.om.lits, v)[z] = s.om.lits[z]
    BY WithoutIs
  <2> QED BY <1>6, <2>1
<1>9. Taken(s.om.lits, o.lits, r.b)
  <2>1. s.om.lits[v] = T \/ s.om.lits[v] = -T
    BY <1>1 DEF FactLits
  <2>2. \/ IsTrue(s.om.lits[v]) /\ v >= r.b.up
        \/ IsFalse(s.om.lits[v]) /\ v < r.b.lo
    BY <1>1, <1>4, <2>1, FactTruth
  <2> QED BY <1>8, <2>2 DEF Taken
<1> QED BY <1>4, <1>7, <1>9 DEF Further

\* A state that is not changed.
LEMMA FurtherSame ==
    ASSUME NEW s, s.b \in Bounds
    PROVE  Further(s, s)
BY InsideSame DEF Further, Taken

\* Steps follow each other.
LEMMA FurtherTwice ==
    ASSUME NEW s, DOMAIN s.om.lits \subseteq Int, NEW r, NEW t, Further(s, r), Further(r, t)
    PROVE  Further(s, t)
<1>1. Taken(s.om.lits, t.om.lits, t.b)
  BY TakenTwice DEF Further
<1>2. Inside(s.b, t.b)
  <2>1. /\ s.b.lo \in Int /\ s.b.up \in Int /\ r.b.lo \in Int /\ r.b.up \in Int /\ t.b.lo \in Int /\ t.b.up \in Int
        /\ s.b.lo <= r.b.lo /\ r.b.up <= s.b.up /\ r.b.lo <= t.b.lo /\ t.b.up <= r.b.up
    BY DEF Further, Inside, Bounds
  <2>2. s.b.lo <= t.b.lo /\ t.b.up <= s.b.up
    BY <2>1
  <2> QED BY <2>2 DEF Further, Inside
<1> QED BY <1>1, <1>2 DEF Further

\* All facts are integrated.
LEMMA FactsFurther ==
    ASSUME Assumptions, IInv, NEW U, U \subseteq Atoms, NEW s, GoodState(s, U), s.ok, MapOk(s.om, U, 0),
           NEW t, t = IntegrateFacts(s), t.ok
    PROVE  Further(s, t)
<1> DEFINE list == s.om.factmap
           N == Len(list)
<1>1. N \in Nat /\ DOMAIN s.om.lits \subseteq Int /\ s.b \in Bounds
  BY MapParts DEF MapOk, GoodState
<1>2. PICK run : /\ IntegrateFacts(s) = IF run[N].ok THEN SetOm(run[N], NoFacts(run[N].om)) ELSE run[N]
                 /\ \A i \in 0..N : run[i] = IF i = 0 THEN s ELSE IntegrateFact(run[i - 1], list[i])
  BY <1>1, FactRun
<1> DEFINE Keeps(k) == /\ GoodState(run[k], U) /\ MapOk(run[k].om, U, k)
                       /\ Further(s, run[k]) /\ run[k].om.factmap = list
           Bad == {k \in 0..N : ~(run[k].ok => Keeps(k))}
<1>3. 0 \notin Bad
  <2>1. run[0] = s
    BY <1>1, <1>2
  <2> QED BY <1>1, <2>1, FurtherSame
<1>4. ASSUME NEW k \in 1..N, k - 1 \notin Bad
      PROVE  k \notin Bad
  <2> SUFFICES ASSUME run[k].ok PROVE Keeps(k)
    OBVIOUS
  <2> DEFINE r == run[k - 1]
             m == k - 1
  <2>1. m \in 0..N /\ m \in Nat /\ m + 1 = k /\ k \in 0..N /\ k # 0 /\ m < N
    BY <1>1
  <2>2. run[k] = IntegrateFact(r, list[k])
    BY <1>2, <2>1
  <2>3. r.ok
    <3> SUFFICES ASSUME ~r.ok PROVE FALSE
      OBVIOUS
    <3> DEFINE x == list[k]
    <3> HIDE DEF r, x
    <3>1. IntegrateFact(r, x) = r
      BY DEF IntegrateFact
    <3> QED BY <2>2, <3>1 DEF x
  <2>4. Keeps(m)
    <3> HIDE DEF Keeps
    <3> QED BY <1>4, <2>1, <2>3
  <2>5. GoodState(r, U) /\ MapOk(r.om, U, m) /\ Further(s, r) /\ r.om.factmap = list
    BY <2>4
  <2> HIDE DEF r, m, Keeps
  <2>6. run[k] = IntegrateFact(r, r.om.factmap[m + 1]) /\ m < Len(r.om.factmap)
    BY <2>1, <2>2, <2>5
  <2> HIDE DEF list
  <2>7. /\ GoodState(run[k], U) /\ MapOk(run[k].om, U, m + 1) /\ run[k].om.factmap = r.om.factmap
    <3> DEFINE q == IntegrateFact(r, r.om.factmap[m + 1])
    <3>1. q.ok
      BY <2>6
    <3>2. /\ GoodState(q, U) /\ MapOk(q.om, U, m + 1)
          /\ DOMAIN q.om.litmap = DOMAIN r.om.litmap /\ q.om.factmap = r.om.factmap
      BY ONLY Assumptions, IInv, U \subseteq Atoms, <2>1, <2>3, <2>5, <2>6, <3>1, IntegrateFactOk
    <3> HIDE DEF q
    <3>3. q = run[k]
      BY <2>6 DEF q
    <3> QED BY <3>2, <3>3
  <2>8. Further(r, run[k])
    BY <2>1, <2>3, <2>5, <2>6, FactFurther
  <2>9. Further(s, run[k])
    BY <1>1, <2>5, <2>8, FurtherTwice
  <2> QED BY <2>1, <2>5, <2>7, <2>9 DEF Keeps
<1>5. Bad = {}
  <2>1. Bad \subseteq 0..N
    OBVIOUS
  <2> HIDE DEF Bad, N
  <2> QED BY <1>1, <1>3, <1>4, <2>1, CountUp
<1> DEFINE r == run[N]
           o == NoFacts(r.om)
<1>6. r.ok
  <2> HIDE DEF r
  <2>1. t = IF r.ok THEN SetOm(r, NoFacts(r.om)) ELSE r
    BY <1>2 DEF r
  <2> QED BY <2>1
<1>7. GoodState(r, U) /\ MapOk(r.om, U, N) /\ Further(s, r) /\ r.om.factmap = list
  <2>1. N \in 0..N
    BY <1>1
  <2>2. Keeps(N)
    <3> HIDE DEF Keeps
    <3> QED BY <1>5, <1>6, <2>1
  <2> QED BY <2>2
<1>8. t = SetOm(r, o)
  <2> HIDE DEF r
  <2> QED BY <1>2, <1>6 DEF r
<1> HIDE DEF r, Keeps, Bad
<1>9. o.lits = r.om.lits
  BY <1>7, NoFactsOk DEF Assumptions
<1> HIDE DEF o, list, N
<1>10. t.om = o /\ t.b = r.b /\ t.units = r.units
  BY <1>7, <1>8, OmSet DEF GoodState
<1> QED BY <1>7, <1>9, <1>10 DEF Further

-----------------------------------------------------------------------------
(* Steps that change the state as a whole.                                 *)

\* A literal that is true on level 0 is so for good.
LEMMA TrueForGood ==
    ASSUME Assumptions, IInv, dl = 0, NEW l \in LiteralsOf(used), IsTrue(l)
    PROVE  Sure(World, l)
<1>1. /\ Atoms \subseteq Nat \ {0, 1} /\ assign \in [Atoms -> {-1, 0, 1}] /\ used \subseteq Nat \ {0, 1}
      /\ alevel \in [Atoms -> 0..dl] /\ used \subseteq Atoms
  <2>1. used \subseteq Atoms /\ Atoms \subseteq Nat \ {0, 1} /\ assign \in [Atoms -> {-1, 0, 1}]
    BY Basics DEF Assignment
  <2>2. alevel \in [Atoms -> 0..dl]
    BY DEF IInv, AssignInv
  <2>3. used \subseteq Nat \ {0, 1}
    BY <2>1
  <2> QED BY <2>1, <2>2, <2>3
<1>2. l \in Int /\ (Abs(l) = T \/ Abs(l) \in used)
  BY <1>1, AtomOf
<1>3. Abs(l) = T \/ (assign[Abs(l)] # 0 /\ alevel[Abs(l)] = 0)
  <2>1. SUFFICES ASSUME Abs(l) # T
                 PROVE  assign[Abs(l)] # 0 /\ alevel[Abs(l)] = 0
    OBVIOUS
  <2>2. Abs(l) \in Atoms
    BY <1>1, <1>2, <2>1
  <2>3. Truth(assign, l) = 0 <=> assign[Abs(l)] = 0
    <3>1. l \in LiteralsOf(Atoms)
      BY <1>1, MoreLiterals
    <3> QED BY ONLY <1>1, <2>2, <3>1, TruthZero
  <2>4. Truth(assign, l) # 0
    BY DEF IsTrue
  <2>5. alevel[Abs(l)] = 0
    <3>1. alevel[Abs(l)] \in 0..0
      BY <1>1, <2>2
    <3> QED BY <3>1
  <2> QED BY <2>3, <2>4, <2>5
<1> QED BY <1>3, KeptLiterals DEF Sure, IsTrue

\* Literals that are taken out of the map still stand for their values.
LEMMA TakenCarried ==
    ASSUME Assumptions, IInv, dl = 0, NEW w2, SureKept(Kept, World, w2), Taken(om.lits, w2.om.lits, w2.b)
    PROVE  Carried(World, w2)
<1>1. World.kept = Kept /\ World.om = om /\ Kept \subseteq Nat \ {0, 1} /\ LiteralsOf(Kept) \subseteq LiteralsOf(used)
  BY KeptLiterals
<1> SUFFICES ASSUME NEW v \in DOMAIN om.lits, om.lits[v] \in LiteralsOf(Kept)
             PROVE  Means(w2, om.lits[v], v)
  BY <1>1 DEF Carried
<1> DEFINE l == om.lits[v]
<1>2. l \in LiteralsOf(used) /\ -l \in LiteralsOf(Kept)
  BY <1>1, KeptLiterals
<1> HIDE DEF l
<1>3. l \in LiteralsOf(Kept)
  BY DEF l
<1>4. IsTrue(l) => Sure(w2, l)
  BY <1>1, <1>2, <1>3, TrueForGood, SureStays
<1>5. IsFalse(l) => Sure(w2, -l)
  <2> SUFFICES ASSUME IsFalse(l) PROVE Sure(w2, -l)
    OBVIOUS
  <2>1. Sure(World, -l)
    BY <1>2, FalseForGood
  <2> DEFINE y == -l
  <2> HIDE DEF y
  <2>2. Sure(World, y) /\ y \in LiteralsOf(Kept)
    BY <1>2, <2>1 DEF y
  <2>3. Sure(w2, y)
    BY <1>1, <2>2, SureStays
  <2> QED BY <2>3 DEF y
<1>6. \/ v \in DOMAIN w2.om.lits /\ w2.om.lits[v] = l
      \/ IsTrue(l) /\ (v >= w2.b.up \/ (v \in DOMAIN w2.om.lits /\ w2.om.lits[v] = T))
      \/ IsFalse(l) /\ (v < w2.b.lo \/ (v \in DOMAIN w2.om.lits /\ w2.om.lits[v] = -T))
  BY DEF Taken, l
<1>7. Means(w2, l, v)
  BY <1>4, <1>5, <1>6 DEF Means
<1> QED BY <1>7 DEF l

\* A map with more literals.
LEMMA TakenByMore ==
    ASSUME NEW f, NEW f2, \A v \in DOMAIN f : v \in DOMAIN f2 /\ f2[v] = f[v], NEW b
    PROVE  Taken(f, f2, b)
BY DEF Taken

\* Atoms that stay keep staying.
LEMMA KeptStays ==
    ASSUME Assumptions, IInv, static' = static, used \subseteq used', pc' \in Searching => pc \in Searching
    PROVE  Kept \subseteq Kept'
<1>1. static \subseteq used
  BY DEF IInv, PhaseInv
<1> QED BY <1>1 DEF Kept

\* A step that succeeds loses nothing.
LEMMA BecomeOnward ==
    ASSUME Assumptions, IInv, NEW U, used \subseteq U, U \subseteq Atoms, NEW s, s.ok, GoodState(s, U),
           units \subseteq s.units, dl = 0 => Taken(om.lits, s.om.lits, s.b),
           dl > 0 => \A v \in DOMAIN om.lits : v \in DOMAIN s.om.lits /\ s.om.lits[v] = om.lits[v],
           NEW rest, NEW next, next \in Searching => pc \in Searching, Become(s, rest, next),
           used' = U, static' = static, clauses \subseteq clauses'
    PROVE  Onward(World, World')
<1> DEFINE w == World
           w2 == World'
<1>1. /\ w.kept = Kept /\ w.om = om /\ w.b = trail[1] /\ w.clauses = clauses
      /\ w.units = units /\ w.val = assign /\ w.lev = alevel
      /\ Kept \subseteq Nat \ {0, 1} /\ Kept \subseteq Atoms
  BY KeptLiterals
<1>2. /\ w2.kept = Kept' /\ w2.om = om' /\ w2.b = trail'[1] /\ w2.clauses = clauses'
      /\ w2.units = units' /\ w2.val = assign' /\ w2.lev = alevel'
  BY DEF World
<1> HIDE DEF w, w2
<1>3. /\ om' = s.om /\ trail' = [trail EXCEPT ![Len(trail)] = s.b] /\ units' = s.units /\ pc' = next
      /\ assign' = s.val /\ alevel' = [a \in Atoms |-> IF s.val[a] # assign[a] THEN dl ELSE alevel[a]]
  BY DEF Become, AssignAt
<1>4. w.kept \subseteq w2.kept
  BY <1>1, <1>2, <1>3, KeptStays
<1>5. SureKept(Kept, w, w2)
  <2> SUFFICES ASSUME NEW a \in Kept, w.val[a] # 0, w.lev[a] = 0
               PROVE  w2.val[a] = w.val[a] /\ w2.lev[a] = 0
    BY DEF SureKept
  <2>1. a \in Atoms /\ assign[a] # 0 /\ alevel[a] = 0
    BY <1>1
  <2>2. s.val[a] = assign[a]
    BY <2>1 DEF GoodState
  <2>3. alevel'[a] = alevel[a] /\ assign'[a] = assign[a]
    BY <1>3, <2>1, <2>2
  <2> QED BY <1>1, <1>2, <2>1, <2>3
<1>12. dl \in Nat /\ Len(trail) \in Nat /\ Len(trail) >= 1 /\ dl = Len(trail) - 1 /\ DOMAIN trail = 1..Len(trail)
  <2>1. trail \in Seq(Bounds)
    BY DEF IInv, TrailInv
  <2> QED BY <2>1, Basics, LenProperties
<1>6. dl = 0 => w2.b = s.b /\ trail[1] = Top
  <2> SUFFICES ASSUME dl = 0 PROVE w2.b = s.b /\ trail[1] = Top
    OBVIOUS
  <2> DEFINE N == Len(trail)
  <2>1. N = 1 /\ 1 \in DOMAIN trail
    <3> HIDE DEF N
    <3>1. N \in Nat /\ dl = N - 1
      BY <1>12 DEF N
    <3>2. N = 1
      BY <3>1
    <3> QED BY <1>12, <3>2 DEF N
  <2>2. trail'[1] = s.b
    BY <1>3, <2>1
  <2> QED BY <1>2, <2>1, <2>2 DEF Top
<1>7. dl # 0 => w2.b = trail[1] /\ dl > 0
  <2> SUFFICES ASSUME dl # 0 PROVE w2.b = trail[1] /\ dl > 0
    OBVIOUS
  <2> DEFINE N == Len(trail)
  <2>1. N # 1 /\ 1 \in 1..N /\ dl > 0
    <3> HIDE DEF N
    <3>1. N \in Nat /\ dl = N - 1 /\ N >= 1 /\ dl \in Nat
      BY <1>12 DEF N
    <3> QED BY <3>1
  <2>2. trail'[1] = trail[1]
    BY <1>3, <1>12, <2>1
  <2> QED BY <1>2, <2>1, <2>2
<1>8. Tighter(w, w2)
  <2>1. CASE dl = 0
    <3>1. /\ s.b.lo \in Int /\ s.b.up \in Int /\ Top.lo \in Int /\ Top.up \in Int
          /\ Top.lo <= s.b.lo /\ s.b.up <= Top.up
      BY Basics DEF GoodState, Bounds
    <3> QED BY <1>1, <1>6, <2>1, <3>1 DEF Tighter
  <2>2. CASE dl # 0
    <3>1. trail[1].lo \in Int /\ trail[1].up \in Int
      BY BottomBounds
    <3>2. trail[1].lo <= trail[1].lo /\ trail[1].up <= trail[1].up
      BY <3>1
    <3> QED BY <1>1, <1>7, <2>2, <3>1, <3>2 DEF Tighter
  <2> QED BY <2>1, <2>2
<1>9. Carried(w, w2)
  <2>1. CASE dl = 0
    <3>1. Taken(om.lits, w2.om.lits, w2.b)
      BY <1>2, <1>3, <1>6, <2>1
    <3>2. SureKept(Kept, World, w2)
      BY <1>5 DEF w
    <3> QED BY <2>1, <3>1, <3>2, TakenCarried DEF w
  <2>2. CASE dl # 0
    BY <1>1, <1>2, <1>3, <1>7, <2>2, CarriedBySame
  <2> QED BY <2>1, <2>2
<1>10. UnitsKept(w, w2) /\ w.clauses \subseteq w2.clauses
  BY <1>1, <1>2, <1>3 DEF UnitsKept
<1>11. Onward(w, w2)
  BY <1>1, <1>4, <1>5, <1>8, <1>9, <1>10, OnwardFrom
<1> QED BY <1>11 DEF w, w2

\* A step that adds literals to the map and changes neither bounds nor values.
LEMMA GrowOnward ==
    ASSUME Assumptions, IInv, used \subseteq used', static' = static, pc' \in Searching => pc \in Searching,
           \A v \in DOMAIN om.lits : v \in DOMAIN om'.lits /\ om'.lits[v] = om.lits[v],
           UNCHANGED <<trail, assign, alevel>>, units \subseteq units', clauses \subseteq clauses'
    PROVE  Onward(World, World')
<1> DEFINE w == World
           w2 == World'
<1>1. /\ w.kept = Kept /\ w.om = om /\ w.b = trail[1] /\ w.clauses = clauses
      /\ w.units = units /\ w.val = assign /\ w.lev = alevel
      /\ Kept \subseteq Nat \ {0, 1} /\ Kept \subseteq Atoms
  BY KeptLiterals
<1>2. /\ w2.kept = Kept' /\ w2.om = om' /\ w2.b = trail[1] /\ w2.clauses = clauses'
      /\ w2.units = units' /\ w2.val = assign /\ w2.lev = alevel
  BY DEF World
<1> HIDE DEF w, w2
<1>3. w.kept \subseteq w2.kept
  BY <1>1, <1>2, KeptStays
<1>4. SureKept(w.kept, w, w2) /\ UnitsKept(w, w2) /\ w.clauses \subseteq w2.clauses
  BY <1>1, <1>2 DEF SureKept, UnitsKept
<1>5. Carried(w, w2)
  BY <1>1, <1>2, CarriedBySame
<1>6. Tighter(w, w2)
  <2>1. trail[1].lo \in Int /\ trail[1].up \in Int
    BY BottomBounds
  <2>2. trail[1].lo <= trail[1].lo /\ trail[1].up <= trail[1].up
    BY <2>1
  <2> QED BY <1>1, <1>2, <2>1, <2>2 DEF Tighter
<1>7. Onward(w, w2)
  BY <1>1, <1>3, <1>4, <1>5, <1>6, OnwardFrom
<1> QED BY <1>7 DEF w, w2

\* A step that fails loses nothing, unless there is nothing to be solved.
LEMMA FailsOnward ==
    ASSUME Assumptions, IInv, NEW s, ~s.ok, NEW rest, NEW next, Become(s, rest, next), pc' # "unsat",
           used \subseteq used', static' = static, clauses \subseteq clauses'
    PROVE  Onward(World, World')
<1>1. pc' = "conflict" /\ dl # 0 /\ UNCHANGED <<om, trail, units, assign, alevel>>
  BY DEF Become
<1>2. pc \in Searching
  <2>1. dl > 0
    <3>1. dl # 0 /\ dl \in Nat
      BY <1>1, Basics
    <3> HIDE DEF dl
    <3>2. \A n \in Nat : n # 0 => n > 0
      OBVIOUS
    <3> QED BY <3>1, <3>2
  <2> QED BY <2>1, PhaseFacts
<1> QED BY <1>1, <1>2, GrowOnward

\* Nothing is added.
LEMMA KeptByOnward ==
    ASSUME Assumptions, KindsApart, IInv, KeptInv, pc # "unsat", added' = added, UNCHANGED program,
           pc' # "unsat" => Onward(World, World')
    PROVE  KeptInv'
<1>1. CASE pc' = "unsat"
  BY <1>1 DEF KeptInv
<1>2. CASE pc' # "unsat"
  <2>1. (added' \ added) = {}
    OBVIOUS
  <2>2. \A c \in (added' \ added) \intersect Simples : SimpleKept(World', c)
    BY <2>1
  <2>3. \A d \in (added' \ added) \intersect Doms : DomKept(World', d)
    BY <2>1
  <2> QED BY <1>2, <2>2, <2>3, KeptOnward
<1> QED BY <1>1, <1>2

-----------------------------------------------------------------------------
(* Every step keeps what was added.                                        *)

\* A step that changes the state as a whole.
LEMMA BecomeAdds ==
    ASSUME Assumptions, KindsApart, IInv, KeptInv, pc # "unsat", NEW U, used \subseteq U, U \subseteq Atoms,
           NEW s, s.ok => /\ GoodState(s, U) /\ units \subseteq s.units
                          /\ dl = 0 => Taken(om.lits, s.om.lits, s.b)
                          /\ dl > 0 => \A v \in DOMAIN om.lits : v \in DOMAIN s.om.lits /\ s.om.lits[v] = om.lits[v],
           NEW rest, NEW next, next \in Searching => pc \in Searching, Become(s, rest, next),
           used' = U, static' = static, clauses \subseteq clauses', added' = added, UNCHANGED program
    PROVE  KeptInv'
<1>1. CASE s.ok
  <2>1. Onward(World, World')
    BY <1>1, BecomeOnward
  <2> QED BY <2>1, KeptByOnward
<1>2. CASE ~s.ok
  <2>1. pc' # "unsat" => Onward(World, World')
    BY <1>2, FailsOnward
  <2> QED BY <2>1, KeptByOnward
<1> QED BY <1>1, <1>2

\* Facts are integrated in check.
LEMMA IntegratedAdds ==
    ASSUME Assumptions, KindsApart, IInv, KeptInv, pc # "unsat", NEW next, next \in Searching => pc \in Searching,
           Become(IntegrateFacts(State), queue, next),
           UNCHANGED <<used, static, clauses, added, program>>
    PROVE  KeptInv'
<1>1. PICK s : s = State
  OBVIOUS
<1>2. PICK t : t = IntegrateFacts(s)
  OBVIOUS
<1>3. s.om = om /\ s.b = Top /\ s.units = units /\ s.ok /\ GoodState(s, used) /\ MapOk(s.om, used, 0)
  BY <1>1, StateIs
<1>4. used \subseteq Atoms
  BY Basics
<1>5. t.ok => GoodState(t, used) /\ Further(s, t)
  <2>1. t.ok => GoodState(t, used)
    BY <1>2, <1>3, <1>4, IntegrateFactsOk
  <2>2. t.ok => Further(s, t)
    BY <1>2, <1>3, <1>4, FactsFurther
  <2> QED BY <2>1, <2>2
<1>6. t.ok => units \subseteq t.units /\ Taken(om.lits, t.om.lits, t.b)
  BY <1>3, <1>5 DEF Further
<1>7. dl > 0 => t.om = om
  <2> SUFFICES ASSUME dl > 0 PROVE t.om = om
    OBVIOUS
  <2>1. dl # 0
    OBVIOUS
  <2>2. om.factmap = <<>>
    BY <2>1, PhaseFacts
  <2> QED BY <1>1, <1>2, <2>2, StateIntegrated
<1>8. t.ok => /\ GoodState(t, used) /\ units \subseteq t.units
              /\ dl = 0 => Taken(om.lits, t.om.lits, t.b)
              /\ dl > 0 => \A v \in DOMAIN om.lits : v \in DOMAIN t.om.lits /\ t.om.lits[v] = om.lits[v]
  BY <1>5, <1>6, <1>7
<1>9. Become(t, queue, next)
  BY <1>1, <1>2
<1> QED BY <1>4, <1>8, <1>9, BecomeAdds

\* Literals are implied after literals have been added to the map.
LEMMA ImpliedAdds ==
    ASSUME Assumptions, KindsApart, IInv, KeptInv, NEW s, NEW n, GoodBuilder(s, n), Extends(om, s.om),
           NEW ls, ls \subseteq LiteralsOf(s.used), pc # "unsat",
           Become(Imply(SetOm(State, s.om), ls), queue, pc),
           used' = s.used, UNCHANGED <<static, clauses, added, program>>
    PROVE  KeptInv'
<1>1. PICK U, o : U = s.used /\ o = s.om
  OBVIOUS
<1>2. U \subseteq Atoms /\ used \subseteq U
  BY <1>1, BuilderFacts DEF GoodBuilder
<1>3. PICK z : z = SetOm(State, o)
  OBVIOUS
<1>4. GoodState(z, U) /\ z.om = o /\ z.b = Top /\ z.units = units
  BY <1>2, <1>3, StateWithMap
<1>5. PICK t : t = Imply(z, ls)
  OBVIOUS
<1>6. t.ok => GoodState(t, U) /\ t.om = o /\ units \subseteq t.units
  <2>1. ls \subseteq LiteralsOf(U)
    BY <1>1
  <2>2. t.ok => GoodState(t, U)
    <3>1. U \subseteq Atoms /\ GoodState(z, U)
      BY <1>2, <1>4
    <3> QED BY ONLY Assumptions, IInv, <1>5, <2>1, <3>1, ImplyOk
  <2>3. t.ok => t.om = z.om /\ z.units \subseteq t.units
    BY <1>2, <1>4, <1>5, <2>1, ImplyFurther
  <2> QED BY <1>4, <2>2, <2>3
<1>7. \A v \in DOMAIN om.lits : v \in DOMAIN o.lits /\ o.lits[v] = om.lits[v]
  BY <1>1 DEF Extends
<1>8. Taken(om.lits, o.lits, t.b)
  BY <1>7, TakenByMore
<1>9. Become(t, queue, pc)
  BY <1>1, <1>3, <1>5
<1>10. t.ok => /\ GoodState(t, U) /\ units \subseteq t.units
               /\ dl = 0 => Taken(om.lits, t.om.lits, t.b)
               /\ dl > 0 => \A v \in DOMAIN om.lits : v \in DOMAIN t.om.lits /\ t.om.lits[v] = om.lits[v]
  BY <1>6, <1>7, <1>8
<1> QED BY <1>1, <1>2, <1>9, <1>10, BecomeAdds

\* Builders grow twice.
LEMMA MoreTwice ==
    ASSUME NEW s, NEW r, NEW t, More(s, r), More(r, t)
    PROVE  More(s, t)
BY DEF More

\* The upper bound of another thread only adds to a builder.
LEMMA WithUpperMore ==
    ASSUME Assumptions, IInv, dl = 0, NEW s, NEW n \in Nat, GoodBuilder(s, n), n + 1 <= program.atoms, NEW v \in Int,
           NEW r, r = WithUpper(s, v)
    PROVE  More(s, r)
<1>1. CASE v >= MaxBound
  BY <1>1 DEF WithUpper, More
<1>2. CASE ~(v >= MaxBound)
  <2>1. PICK t : t = UpdateLiteral(s, v, 1)
    OBVIOUS
  <2>2. GoodBuilder(t, n + 1) /\ HasLiteral(t, v)
    BY <2>1, UpdateLiteralOk
  <2>3. More(s, t)
    BY <2>1, UpdateLiteralOk DEF More, Extends
  <2>4. PICK c : c = {LitOf(t, v)}
    OBVIOUS
  <2>5. c \subseteq LiteralsOf(t.used)
    BY <2>2, <2>4 DEF HasLiteral
  <2>6. More(t, StoreClause(t, c))
    BY <2>2, <2>5, StoreClauseDoes
  <2>7. r = StoreClause(t, c)
    BY <1>2, <2>1, <2>4 DEF WithUpper
  <2> QED BY <2>3, <2>6, <2>7, MoreTwice
<1> QED BY <1>1, <1>2

\* The lower bound of another thread only adds to a builder.
LEMMA WithLowerMore ==
    ASSUME Assumptions, IInv, dl = 0, NEW s, NEW n \in Nat, GoodBuilder(s, n), n + 1 <= program.atoms, NEW v \in Int,
           NEW r, r = WithLower(s, v)
    PROVE  More(s, r)
<1>1. CASE v <= MinBound
  BY <1>1 DEF WithLower, More
<1>2. CASE ~(v <= MinBound)
  <2>0. PICK w : w = v - 1 /\ w \in Int
    OBVIOUS
  <2>1. PICK t : t = UpdateLiteral(s, w, -1)
    OBVIOUS
  <2>2. GoodBuilder(t, n + 1) /\ HasLiteral(t, w)
    BY <2>0, <2>1, UpdateLiteralOk
  <2>3. More(s, t)
    BY <2>0, <2>1, UpdateLiteralOk DEF More, Extends
  <2>4. PICK c : c = {-LitOf(t, w)}
    OBVIOUS
  <2>5. c \subseteq LiteralsOf(t.used)
    <3>1. LitOf(t, w) \in LiteralsOf(t.used) /\ t.used \subseteq Nat \ {0, 1}
      BY <2>2, BuilderFacts DEF HasLiteral
    <3> QED BY <2>4, <3>1, NegatedLiteral
  <2>6. More(t, StoreClause(t, c))
    BY <2>2, <2>5, StoreClauseDoes
  <2>7. r = StoreClause(t, c)
    BY <1>2, <2>0, <2>1, <2>4 DEF WithLower
  <2> QED BY <2>3, <2>6, <2>7, MoreTwice
<1> QED BY <1>1, <1>2

\* Taking the bounds of another thread.
LEMMA UpdateBoundsAdds ==
    ASSUME Assumptions, KindsApart, IInv, KeptInv, NEW b \in Shared, UpdateBounds(b), UNCHANGED program
    PROVE  KeptInv'
<1>1. pc = "build" /\ EnoughAtoms(2) /\ static' = static /\ added' = added
  BY DEF UpdateBounds
<1>2. b.lo \in Int /\ b.up \in Int
  <2>1. program \in Programs
    BY Basics
  <2> QED BY <2>1 DEF Assumptions, ProgramsAssumption, Shared
<1>3. PICK n \in Nat : n + 2 <= program.atoms /\ GoodBuilder(Builder, n)
  BY <1>1, BuilderOk
<1>4. PICK q : q = Builder
  OBVIOUS
<1>5. PICK r : r = WithUpper(q, b.up)
  OBVIOUS
<1>6. PICK s : s = WithLower(r, b.lo)
  OBVIOUS
<1>7. n + 1 <= program.atoms /\ program.atoms \in Nat /\ (n + 1) + 1 = n + 2 /\ n + 1 \in Nat /\ (n + 1) + 1 <= program.atoms
  BY <1>3, Basics
<1>8. GoodBuilder(r, n + 1) /\ GoodBuilder(s, n + 2)
  <2>1. GoodBuilder(r, n + 1)
    BY <1>2, <1>3, <1>4, <1>5, <1>7, WithUpperOk
  <2>2. GoodBuilder(s, (n + 1) + 1)
    <3>1. Assumptions /\ IInv
      OBVIOUS
    <3> QED BY ONLY <1>2, <1>6, <1>7, <2>1, <3>1, WithLowerOk
  <2> QED BY <1>7, <2>1, <2>2
<1>9. dl = 0 /\ Preparing /\ pc \notin Searching
  BY <1>1, PhaseFacts DEF Preparing, Building
<1>10. More(q, r)
  BY <1>2, <1>3, <1>4, <1>5, <1>7, <1>9, WithUpperMore
<1>11. More(r, s)
  <2>1. PICK m : m = n + 1 /\ m \in Nat /\ m + 1 <= program.atoms
    BY <1>7
  <2>2. GoodBuilder(r, m)
    BY <1>8, <2>1
  <2> QED BY <1>2, <1>6, <1>9, <2>1, <2>2, WithLowerMore
<1>12. /\ used \subseteq s.used /\ clauses \subseteq s.clauses /\ units \subseteq s.units
       /\ \A v \in DOMAIN om.lits : v \in DOMAIN s.om.lits /\ s.om.lits[v] = om.lits[v]
  <2>1. q.om = om /\ q.used = used /\ q.clauses = clauses /\ q.units = units
    BY <1>4 DEF Builder
  <2> QED BY <1>10, <1>11, <2>1 DEF More
<1>13. s.used \subseteq Atoms /\ MapOk(s.om, s.used, 0) /\ s.units \subseteq LiteralsOf(s.used)
  BY <1>8, BuilderFacts DEF GoodBuilder
<1>14. PICK t : t = SetMapUnits(State, s.om, s.units)
  OBVIOUS
<1>15. GoodState(t, s.used) /\ t.om = s.om /\ t.ok /\ t.units = s.units
  <2>1. PICK U, y, z : U = s.used /\ y = s.om /\ z = s.units
    OBVIOUS
  <2>2. used \subseteq U /\ U \subseteq Atoms /\ z \subseteq LiteralsOf(U) /\ (~Preparing => z = units)
    BY <1>9, <1>12, <1>13, <2>1
  <2>3. /\ GoodState(SetMapUnits(State, y, z), U) /\ SetMapUnits(State, y, z).om = y /\ SetMapUnits(State, y, z).ok
        /\ SetMapUnits(State, y, z).units = z
    BY <2>2, StateWith
  <2> QED BY <1>14, <2>1, <2>3
<1>16. PICK w : w = IntegrateFacts(t)
  OBVIOUS
<1>17. w.ok => GoodState(w, s.used) /\ Further(t, w)
  <2>1. MapOk(t.om, s.used, 0)
    BY <1>13, <1>15
  <2>2. w.ok => GoodState(w, s.used)
    BY <1>13, <1>15, <1>16, <2>1, IntegrateFactsOk
  <2>3. w.ok => Further(t, w)
    BY <1>13, <1>15, <1>16, <2>1, FactsFurther
  <2> QED BY <2>2, <2>3
<1>18. w.ok => units \subseteq w.units /\ Taken(om.lits, w.om.lits, w.b)
  <2> SUFFICES ASSUME w.ok PROVE units \subseteq w.units /\ Taken(om.lits, w.om.lits, w.b)
    OBVIOUS
  <2>1. Inside(t.b, w.b) /\ t.units \subseteq w.units /\ Taken(t.om.lits, w.om.lits, w.b)
    BY <1>17 DEF Further
  <2>2. Taken(om.lits, t.om.lits, t.b)
    BY <1>12, <1>15, TakenByMore
  <2>3. DOMAIN om.lits \subseteq Int
    BY MapParts DEF IInv, MapOk
  <2>4. Taken(om.lits, w.om.lits, w.b)
    BY <2>1, <2>2, <2>3, TakenTwice
  <2> QED BY <1>12, <1>15, <2>1, <2>4
<1>19. Become(w, queue, "build") /\ used' = s.used /\ clauses' = s.clauses
  BY <1>4, <1>5, <1>6, <1>14, <1>16 DEF UpdateBounds, SetMapUnits
<1>20. w.ok => /\ GoodState(w, s.used) /\ units \subseteq w.units
               /\ dl = 0 => Taken(om.lits, w.om.lits, w.b)
               /\ dl > 0 => \A v \in DOMAIN om.lits : v \in DOMAIN w.om.lits /\ w.om.lits[v] = om.lits[v]
  <2>1. ~(dl > 0)
    BY <1>9
  <2> QED BY <1>17, <1>18, <2>1
<1>21. "build" \notin Searching /\ pc # "unsat"
  BY <1>1 DEF Searching
<1>22. used \subseteq s.used /\ clauses \subseteq clauses'
  BY <1>12, <1>19
<1> QED BY <1>1, <1>13, <1>19, <1>20, <1>21, <1>22, BecomeAdds

\* Propagating a queued literal.
LEMMA PropagateAdds ==
    ASSUME Assumptions, KindsApart, IInv, KeptInv, Propagate, UNCHANGED program
    PROVE  KeptInv'
<1>1. PICK l \in queue : Become(UpdateDomain(State, l), queue \ {l}, pc)
  BY DEF Propagate
<1>2. pc \in {"deliver", "propagate"} /\ UNCHANGED <<used, static, clauses, added, program>> /\ pc # "unsat"
  BY DEF Propagate
<1>3. PICK t : t = UpdateDomain(State, l)
  OBVIOUS
<1>4. PICK U, rest, next : U = used /\ rest = queue \ {l} /\ next = pc
  OBVIOUS
<1>5. used \subseteq U /\ U \subseteq Atoms /\ used' = U /\ Become(t, rest, next) /\ (next \in Searching => pc \in Searching)
  BY <1>1, <1>2, <1>3, <1>4, Basics
<1>6. dl \in Nat
  BY PhaseFacts
<1>7. CASE dl = 0
  <2>1. l \in Int /\ IsTrue(l) /\ IsFalse(-l)
    <3>1. l \in Int /\ l \in LiteralsOf(Atoms) /\ Truth(assign, l) = 1
      BY QueuedLiteral
    <3>2. Atoms \subseteq Nat \ {0, 1} /\ assign \in [Atoms -> {-1, 0, 1}]
      BY Basics DEF Assignment
    <3> DEFINE y == -l
    <3>3. Opposite(y, l)
      BY DEF Opposite
    <3> HIDE DEF y
    <3>4. Truth(assign, y) = -1 <=> Truth(assign, l) = 1
      BY ONLY <3>1, <3>2, <3>3, OppositeTruth
    <3> QED BY <3>1, <3>4 DEF IsTrue, IsFalse, y
  <2>2. PICK o : o = om
    OBVIOUS
  <2>3. PICK y : y = Simplified(o, l)
    OBVIOUS
  <2>4. OrderAssumption /\ MapOk(o, U, 0) /\ Atoms \subseteq Nat
    BY <1>4, <2>2, Basics DEF IInv, Assumptions
  <2>5. MapOk(y, U, 0)
    BY <1>5, <2>1, <2>3, <2>4, SimplifiedOk
  <2>6. PICK s : s = SetOm(State, y)
    OBVIOUS
  <2>7. GoodState(s, U) /\ s.om = y /\ s.ok /\ s.units = units
    BY <1>5, <2>6, StateWithMap
  <2>8. t = IntegrateFacts(s)
    <3>1. State.om = om
      BY StateIs
    <3> QED BY <1>3, <1>7, <2>2, <2>3, <2>6, <3>1 DEF UpdateDomain, SetOm
  <2>9. t.ok => GoodState(t, U) /\ Further(s, t)
    <3>1. MapOk(s.om, U, 0)
      BY <2>5, <2>7
    <3>2. t.ok => GoodState(t, U)
      BY <1>5, <2>7, <2>8, <3>1, IntegrateFactsOk
    <3>3. t.ok => Further(s, t)
      BY <1>5, <2>7, <2>8, <3>1, FactsFurther
    <3> QED BY <3>2, <3>3
  <2>10. t.ok => units \subseteq t.units /\ Taken(om.lits, t.om.lits, t.b)
    <3> SUFFICES ASSUME t.ok PROVE units \subseteq t.units /\ Taken(om.lits, t.om.lits, t.b)
      OBVIOUS
    <3>1. Inside(s.b, t.b) /\ s.units \subseteq t.units /\ Taken(s.om.lits, t.om.lits, t.b)
      BY <2>9 DEF Further
    <3>2. Taken(om.lits, s.om.lits, s.b)
      <4>1. Taken(o.lits, Simplified(o, l).lits, s.b)
        BY <1>5, <2>1, <2>4, SimplifiedTakes
      <4> QED BY <2>2, <2>3, <2>7, <4>1
    <3>3. DOMAIN om.lits \subseteq Int
      BY MapParts DEF IInv, MapOk
    <3>4. Taken(om.lits, t.om.lits, t.b)
      BY <3>1, <3>2, <3>3, TakenTwice
    <3> QED BY <2>7, <3>1, <3>4
  <2>11. t.ok => /\ GoodState(t, U) /\ units \subseteq t.units
                 /\ dl = 0 => Taken(om.lits, t.om.lits, t.b)
                 /\ dl > 0 => \A v \in DOMAIN om.lits : v \in DOMAIN t.om.lits /\ t.om.lits[v] = om.lits[v]
    <3>1. ~(dl > 0)
      BY <1>7
    <3> QED BY <2>9, <2>10, <3>1
  <2> QED BY <1>2, <1>5, <2>11, BecomeAdds
<1>8. CASE dl > 0
  <2>0. dl # 0
    BY <1>8
  <2>1. t.ok => After(t, l)
    <3>1. PICK s : s = State
      OBVIOUS
    <3>2. s.om = om
      BY <3>1, StateIs
    <3>3. CASE Valid(om, l)
      <4>1. t = UpdateUpper(s, om.litmap[Abs(l)].value, om.litmap[Abs(l)].succ)
        BY <1>3, <2>0, <3>1, <3>2, <3>3 DEF UpdateDomain
      <4> QED BY <1>8, <3>1, <3>3, <4>1, PropagateUpper
    <3>4. CASE ~Valid(om, l) /\ Valid(om, -l)
      <4>1. t = UpdateLower(s, om.litmap[Abs(l)].value, om.litmap[Abs(l)].prev)
        BY <1>3, <2>0, <3>1, <3>2, <3>4 DEF UpdateDomain
      <4> QED BY <1>8, <3>1, <3>4, <4>1, PropagateLower
    <3>5. CASE ~Valid(om, l) /\ ~Valid(om, -l)
      <4>1. t = s
        BY <1>3, <2>0, <3>1, <3>2, <3>5 DEF UpdateDomain
      <4> QED BY <1>8, <3>1, <3>5, <4>1, PropagateOther
    <3> QED BY <3>3, <3>4, <3>5
  <2>2. t.ok => GoodState(t, U) /\ t.om = om
    BY <1>4, <2>1 DEF After
  <2>3. ~Preparing
    BY <1>8, PhaseFacts
  <2>4. t.ok => units \subseteq t.units
    BY <2>2, <2>3 DEF GoodState
  <2>5. t.ok => /\ GoodState(t, U) /\ units \subseteq t.units
                /\ dl = 0 => Taken(om.lits, t.om.lits, t.b)
                /\ dl > 0 => \A v \in DOMAIN om.lits : v \in DOMAIN t.om.lits /\ t.om.lits[v] = om.lits[v]
    BY <2>0, <2>2, <2>4
  <2> QED BY <1>2, <1>5, <2>5, BecomeAdds
<1> QED BY <1>6, <1>7, <1>8

\* Integrating facts before constraints are propagated.
LEMMA CheckAdds ==
    ASSUME Assumptions, KindsApart, IInv, KeptInv, Check, UNCHANGED program
    PROVE  KeptInv'
<1>1. PICK next : next = IF Preparing THEN "examine" ELSE "check"
  OBVIOUS
<1>2. /\ pc \in {"deliver", "propagate"} /\ queue = {} /\ Become(IntegrateFacts(State), {}, next)
      /\ UNCHANGED <<used, static, clauses, added, program>>
  BY <1>1 DEF Check
<1>3. Become(IntegrateFacts(State), queue, next) /\ pc # "unsat"
  BY <1>2
<1>4. next \in Searching => pc \in Searching
  <2>1. "examine" \notin Searching /\ "propagate" \in Searching /\ (pc = "deliver" => Preparing)
    BY DEF Searching, Preparing
  <2> QED BY <1>1, <1>2, <2>1
<1> QED BY <1>2, <1>3, <1>4, IntegratedAdds

\* Integrating facts after constraints are propagated.
LEMMA EndCheckAdds ==
    ASSUME Assumptions, KindsApart, IInv, KeptInv, EndCheck, UNCHANGED program
    PROVE  KeptInv'
<1>1. PICK next : next = IF om.factmap # <<>> THEN pc
              ELSE IF Preparing THEN "commit" ELSE IF queue # {} THEN "propagate" ELSE "fixpoint"
  OBVIOUS
<1>2. /\ pc \in {"examine", "check"} /\ Become(IntegrateFacts(State), queue, next)
      /\ UNCHANGED <<used, static, clauses, added, program>> /\ pc # "unsat"
  BY <1>1 DEF EndCheck
<1>3. next \in Searching => pc \in Searching
  <2>1. "commit" \notin Searching /\ "check" \in Searching /\ (pc = "examine" => Preparing)
    BY DEF Searching, Preparing
  <2> QED BY <1>1, <1>2, <2>1
<1> QED BY <1>2, <1>3, IntegratedAdds

\* A constraint tightens a bound.
LEMMA TightenAdds ==
    ASSUME Assumptions, KindsApart, IInv, KeptInv, Tighten, UNCHANGED program
    PROVE  KeptInv'
<1>1. PICK v \in Top.lo..(Top.up - 1), t \in {1, -1}, fact \in BOOLEAN :
        LET s == UpdateLiteral(Builder, v, IF fact THEN t ELSE 0) IN
        /\ Become(Imply([State EXCEPT !.om = s.om], {t * LitOf(s, v)} \ {T}), queue, pc)
        /\ used' = s.used
  BY DEF Tighten
<1>2. pc \in {"examine", "check"} /\ EnoughAtoms(1) /\ UNCHANGED <<static, clauses, added>> /\ pc # "unsat"
  BY DEF Tighten
<1>3. v \in Int
  BY Basics
<1>4. PICK n \in Nat : n + 1 <= program.atoms /\ GoodBuilder(Builder, n)
  BY <1>2, BuilderOk
<1>5. PICK truth : truth = IF fact THEN t ELSE 0
  OBVIOUS
<1>6. truth \in {-1, 0, 1}
  BY <1>5
<1>7. PICK s : s = UpdateLiteral(Builder, v, truth)
  OBVIOUS
<1>8. /\ GoodBuilder(s, n + 1) /\ LitOf(s, v) \in LiteralsOf(s.used) /\ Extends(om, s.om)
  <2>1. PICK q : q = Builder
    OBVIOUS
  <2>2. q.om = om /\ GoodBuilder(q, n) /\ s = UpdateLiteral(q, v, truth)
    BY <1>4, <1>7, <2>1 DEF Builder
  <2>3. GoodBuilder(s, n + 1) /\ HasLiteral(s, v) /\ Extends(q.om, s.om)
    BY <1>3, <1>4, <1>6, <2>2, UpdateLiteralOk
  <2> QED BY <2>2, <2>3 DEF HasLiteral
<1>9. PICK l, ls : l = t * LitOf(s, v) /\ ls = {l} \ {T}
  OBVIOUS
<1>10. s.used \subseteq Nat \ {0, 1} /\ s.used \subseteq Nat
  BY <1>8, BuilderFacts
<1>11. l \in LiteralsOf(s.used)
  <2>1. PICK x : x = LitOf(s, v)
    OBVIOUS
  <2>2. x \in LiteralsOf(s.used)
    BY <1>8, <2>1
  <2>3. x \in Int
    BY <1>10, <2>2, LiteralsAreInts
  <2>4. -x \in LiteralsOf(s.used)
    BY <1>10, <2>2, NegatedLiteral
  <2>5. CASE t = 1
    BY <1>9, <2>1, <2>2, <2>3, <2>5
  <2>6. CASE t = -1
    <3>1. l = t * x
      BY <1>9, <2>1
    <3>3. t * x = -x
      BY ONLY <2>3, <2>6
    <3>2. l = -x
      BY <3>1, <3>3
    <3> QED BY <2>4, <3>2
  <2> QED BY <2>5, <2>6
<1>12. ls \subseteq LiteralsOf(s.used)
  BY <1>9, <1>11
<1>13. Become(Imply(SetOm(State, s.om), ls), queue, pc) /\ used' = s.used
  BY <1>1, <1>5, <1>7, <1>9 DEF SetOm
<1> QED BY <1>2, <1>8, <1>12, <1>13, ImpliedAdds

\* A literal that get_literal creates only adds to the map.
LEMMA NewLiteralMore ==
    ASSUME Assumptions, IInv, EnoughAtoms(1), NEW v \in Int, NEW s, s = GetLiteral(Builder, v)
    PROVE  /\ \E n : GoodBuilder(s, n)
           /\ Extends(om, s.om) /\ used \subseteq s.used /\ LitOf(s, v) \in LiteralsOf(s.used)
<1>1. PICK n \in Nat : n + 1 <= program.atoms /\ GoodBuilder(Builder, n)
  BY BuilderOk
<1>2. PICK q : q = Builder
  OBVIOUS
<1>3. q.om = om /\ q.used = used /\ GoodBuilder(q, n) /\ s = GetLiteral(q, v)
  BY <1>1, <1>2 DEF Builder
<1>4. GoodBuilder(s, n + 1) /\ HasLiteral(s, v) /\ q.used \subseteq s.used /\ Extends(q.om, s.om)
  BY <1>1, <1>3, GetLiteralOk
<1> QED BY <1>3, <1>4 DEF HasLiteral

\* calculate_reason_ adds an implied literal for a weaker bound.
LEMMA IntroduceReasonAdds ==
    ASSUME Assumptions, KindsApart, IInv, KeptInv, IntroduceReason, UNCHANGED program
    PROVE  KeptInv'
<1>1. PICK v \in (MinBound..(MaxBound - 1)) \ DOMAIN om.lits :
        LET s == GetLiteral(Builder, v)
            l == IF v < Top.lo THEN -LitOf(s, v) ELSE LitOf(s, v) IN
         /\ Become(Imply([State EXCEPT !.om = s.om], {l}), queue, pc)
         /\ used' = s.used
  BY DEF IntroduceReason
<1>2. pc = "check" /\ EnoughAtoms(1) /\ UNCHANGED <<static, clauses, added>> /\ pc # "unsat"
  BY DEF IntroduceReason
<1>3. v \in Int
  BY Basics
<1>5. PICK s : s = GetLiteral(Builder, v)
  OBVIOUS
<1>6. PICK lit : lit = LitOf(s, v)
  OBVIOUS
<1>7. PICK n : GoodBuilder(s, n)
  BY <1>2, <1>3, <1>5, NewLiteralMore
<1>8. Extends(om, s.om) /\ lit \in LiteralsOf(s.used)
  BY <1>2, <1>3, <1>5, <1>6, NewLiteralMore
<1>9. PICK l, ls : l = (IF v < Top.lo THEN -lit ELSE lit) /\ ls = {l}
  OBVIOUS
<1>10. Become(Imply(SetOm(State, s.om), ls), queue, pc) /\ used' = s.used
  BY <1>1, <1>5, <1>6, <1>9 DEF SetOm
<1>11. ls \subseteq LiteralsOf(s.used)
  <2>1. s.used \subseteq Nat \ {0, 1}
    BY <1>7, BuilderFacts
  <2>2. -lit \in LiteralsOf(s.used)
    BY <1>8, <2>1, NegatedLiteral
  <2> QED BY <1>8, <1>9, <2>2
<1> QED BY <1>2, <1>7, <1>8, <1>10, <1>11, ImpliedAdds

\* A clause needs the literal of an open value.
LEMMA IntroduceAdds ==
    ASSUME Assumptions, KindsApart, IInv, KeptInv, Introduce, UNCHANGED program
    PROVE  KeptInv'
<1>1. PICK v \in Top.lo..(Top.up - 1) : om' = GetLiteral(Builder, v).om /\ used' = GetLiteral(Builder, v).used
  BY DEF Introduce
<1>2. /\ pc = "check" /\ EnoughAtoms(1) /\ pc # "unsat"
      /\ UNCHANGED <<trail, static, assign, alevel, clauses, units, queue, pc, added>>
  BY DEF Introduce
<1>3. v \in Int
  BY Basics
<1>4. Extends(om, om') /\ used \subseteq used'
  BY <1>1, <1>2, <1>3, NewLiteralMore
<1>5. Onward(World, World')
  BY <1>2, <1>4, GrowOnward DEF Extends
<1> QED BY <1>2, <1>5, KeptByOnward

\* check_full creates the literal of the value in the middle.
LEMMA CheckFullAdds ==
    ASSUME Assumptions, KindsApart, IInv, KeptInv, CheckFull, UNCHANGED program
    PROVE  KeptInv'
<1>1. PICK v : v = (Top.lo + Top.up) \div 2
  OBVIOUS
<1>2. /\ pc = "fixpoint" /\ EnoughAtoms(1) /\ pc' = "propagate" /\ pc # "unsat"
      /\ om' = GetLiteral(Builder, v).om /\ used' = GetLiteral(Builder, v).used
      /\ UNCHANGED <<trail, static, assign, alevel, clauses, units, queue, added>>
  BY <1>1 DEF CheckFull
<1>3. v \in Int
  <2>1. PICK lo, up : lo = Top.lo /\ up = Top.up
    OBVIOUS
  <2>2. lo \in Int /\ up \in Int
    BY <2>1, Basics
  <2>3. v = (lo + up) \div 2
    BY <1>1, <2>1
  <2> QED BY <2>2, <2>3
<1>4. Extends(om, om') /\ used \subseteq used'
  BY <1>2, <1>3, NewLiteralMore
<1>5. pc \in Searching
  BY <1>2 DEF Searching
<1>6. Onward(World, World')
  BY <1>2, <1>4, <1>5, GrowOnward DEF Extends
<1> QED BY <1>2, <1>6, KeptByOnward

-----------------------------------------------------------------------------
(* Steps of clasp.                                                         *)

\* A step that only changes values loses nothing if none of level 0 is lost.
LEMMA ValuesOnward ==
    ASSUME Assumptions, IInv, om' = om, trail'[1] = trail[1], clauses \subseteq clauses', Kept \subseteq Kept',
           SureKept(Kept, World, World'), UnitsKept(World, World')
    PROVE  Onward(World, World')
<1> DEFINE w == World
           w2 == World'
<1>1. /\ w.kept = Kept /\ w.om = om /\ w.b = trail[1] /\ w.clauses = clauses
      /\ Kept \subseteq Nat \ {0, 1}
  BY KeptLiterals
<1>2. /\ w2.kept = Kept' /\ w2.om = om /\ w2.b = trail[1] /\ w2.clauses = clauses'
  BY DEF World
<1>3. SureKept(Kept, w, w2) /\ UnitsKept(w, w2)
  OBVIOUS
<1> HIDE DEF w, w2
<1>4. w.kept \subseteq w2.kept /\ w.clauses \subseteq w2.clauses
  BY <1>1, <1>2
<1>5. Carried(w, w2)
  BY <1>1, <1>2, CarriedBySame
<1>6. Tighter(w, w2)
  <2>1. trail[1].lo \in Int /\ trail[1].up \in Int
    BY BottomBounds
  <2>2. trail[1].lo <= trail[1].lo /\ trail[1].up <= trail[1].up
    BY <2>1
  <2> QED BY <1>1, <1>2, <2>1, <2>2 DEF Tighter
<1>7. Onward(w, w2)
  BY <1>1, <1>3, <1>4, <1>5, <1>6, OnwardFrom
<1> QED BY <1>7 DEF w, w2

\* The parts of the world after a step.
LEMMA WorldPrimed ==
    /\ World'.kept = Kept' /\ World'.val = assign' /\ World'.lev = alevel' /\ World'.units = units'
BY DEF World

\* A step that keeps values on level 0 and units.
LEMMA ValuesKept ==
    ASSUME Assumptions, IInv,
           \A a \in Atoms : assign[a] # 0 /\ alevel[a] = 0 => assign'[a] = assign[a] /\ alevel'[a] = 0
    PROVE  SureKept(Kept, World, World') /\ (units \subseteq units' => UnitsKept(World, World'))
<1> DEFINE w == World
           w2 == World'
<1>1. w.val = assign /\ w.lev = alevel /\ w.units = units /\ Kept \subseteq Atoms
  BY KeptLiterals
<1>2. w2.val = assign' /\ w2.lev = alevel' /\ w2.units = units'
  BY WorldPrimed
<1> HIDE DEF w, w2
<1>3. SureKept(Kept, w, w2) /\ (units \subseteq units' => UnitsKept(w, w2))
  BY <1>1, <1>2 DEF SureKept, UnitsKept
<1> QED BY <1>3 DEF w, w2

\* begin_simplify.
LEMMA BeginSimplifyAdds ==
    ASSUME Assumptions, KindsApart, IInv, KeptInv, BeginSimplify, UNCHANGED program
    PROVE  KeptInv'
<1>1. pc = "build" /\ pc' = "commit" /\ UNCHANGED <<om, trail, used, static, assign, alevel, clauses, units, added>>
  BY DEF BeginSimplify, clasp
<1>2. pc # "unsat" /\ pc' \notin Searching
  BY <1>1 DEF Searching
<1>3. Onward(World, World')
  BY <1>1, <1>2, GrowOnward
<1> QED BY <1>1, <1>2, <1>3, KeptByOnward

\* A unit clause becomes true for good.
LEMMA UnitAssigned ==
    ASSUME Assumptions, IInv, dl = 0, ~ \E l \in units : IsFalse(l) \/ -l \in units,
           AssignAt(0, Assigned(assign, units)), NEW l \in units, l \in LiteralsOf(Atoms)
    PROVE  Sure(World', l)
<1> DEFINE w2 == World'
<1>1. w2.val = assign' /\ w2.lev = alevel'
  BY WorldPrimed
<1> HIDE DEF w2
<1>2. Atoms \subseteq Nat \ {0, 1} /\ -l \notin units /\ ~IsFalse(l) /\ T \in Int
  BY Basics DEF T
<1>3. l \in Int /\ (Abs(l) = T \/ Abs(l) \in Atoms)
  BY <1>2, AtomOf
<1>4. CASE l \in FactLits
  <2>1. l = T
    BY <1>2, <1>4, FactTruth DEF FactLits
  <2> QED BY <2>1, TrueAndFalse DEF w2
<1>5. CASE l \notin FactLits
  <2>1. Truth(assign', l) = 1
    <3>1. Truth(Assigned(assign, units), l) = 1
      BY <1>2, <1>5, AssignedTrue
    <3> QED BY <3>1 DEF AssignAt
  <2>2. Abs(l) \in Atoms
    <3>1. Abs(l) = T => l \in FactLits
      BY <1>3, AbsIs DEF FactLits, T
    <3> QED BY <1>3, <1>5, <3>1
  <2>3. assign \in [Atoms -> {-1, 0, 1}] /\ alevel \in [Atoms -> 0..0] /\ units \subseteq LiteralsOf(used)
    BY DEF IInv, AssignInv, PhaseInv
  <2>4. assign' \in [Atoms -> {-1, 0, 1}]
    <3>1. NoneFalse(assign, units)
      BY DEF NoneFalse, IsFalse
    <3>2. Atoms \subseteq Nat \ {0, 1} /\ used \subseteq Atoms /\ assign \in Values
      BY <2>3, Basics DEF Values
    <3>3. Assigned(assign, units) \in Values
      BY <2>3, <3>1, <3>2, AssignedIs
    <3> QED BY <3>3 DEF AssignAt, Values
  <2>5. assign'[Abs(l)] # 0
    <3>1. Truth(assign', l) = 0 <=> assign'[Abs(l)] = 0
      BY ONLY <1>2, <2>2, <2>4, l \in LiteralsOf(Atoms), TruthZero
    <3>2. Truth(assign', l) # 0
      BY <2>1
    <3> QED BY <3>1, <3>2
  <2>6. alevel'[Abs(l)] = 0
    <3>1. alevel'[Abs(l)] = IF Assigned(assign, units)[Abs(l)] # assign[Abs(l)] THEN 0 ELSE alevel[Abs(l)]
      BY <2>2 DEF AssignAt
    <3>2. alevel[Abs(l)] = 0
      BY <2>2, <2>3
    <3> QED BY <3>1, <3>2
  <2>7. Sure(w2, l)
    BY <1>1, <2>1, <2>5, <2>6 DEF Sure
  <2> QED BY <2>7 DEF w2
<1> QED BY <1>4, <1>5

\* Unit clauses are committed.
LEMMA CommitAdds ==
    ASSUME Assumptions, KindsApart, IInv, KeptInv, Commit, UNCHANGED program
    PROVE  KeptInv'
<1>1. pc = "commit" /\ pc # "unsat" /\ pc \notin Searching /\ UNCHANGED <<om, trail, used, static, clauses, added>>
  BY DEF Commit, Searching
<1>2. dl = 0 /\ ~(dl > 0)
  <2>1. pc \in Building
    BY <1>1 DEF Building
  <2> QED BY <2>1, PhaseFacts
<1>3. CASE \E l \in units : IsFalse(l) \/ -l \in units
  <2>1. pc' = "unsat"
    BY <1>3 DEF Commit
  <2> QED BY <1>1, <2>1, KeptByOnward
<1>4. CASE ~ \E l \in units : IsFalse(l) \/ -l \in units
  <2>1. AssignAt(0, Assigned(assign, units)) /\ pc' = pc
    BY <1>4 DEF Commit
  <2>2. Kept \subseteq Kept'
    BY <1>1, <2>1 DEF Kept
  <2>3. \A a \in Atoms : assign[a] # 0 => assign'[a] = assign[a]
    <3>1. NoneFalse(assign, units)
      BY <1>4 DEF NoneFalse, IsFalse
    <3>2. /\ Atoms \subseteq Nat \ {0, 1} /\ used \subseteq Atoms /\ assign \in Values
          /\ units \subseteq LiteralsOf(used)
      BY Basics DEF IInv, AssignInv, PhaseInv, Values
    <3>3. MoreValues(assign, Assigned(assign, units), used)
      BY <3>1, <3>2, AssignedIs
    <3> QED BY <2>1, <3>3 DEF MoreValues, AssignAt
  <2>4. \A a \in Atoms : assign[a] # 0 /\ alevel[a] = 0 => assign'[a] = assign[a] /\ alevel'[a] = 0
    BY <2>1, <2>3 DEF AssignAt
  <2>5. SureKept(Kept, World, World')
    BY <2>4, ValuesKept
  <2>6. UnitsKept(World, World')
    <3>1. World.kept = Kept /\ World.units = units /\ LiteralsOf(Kept) \subseteq LiteralsOf(Atoms)
      BY KeptLiterals
    <3>2. \A l \in LiteralsOf(Kept) : l \in units => Sure(World', l)
      BY <1>2, <1>4, <2>1, <3>1, UnitAssigned
    <3> QED BY <3>1, <3>2 DEF UnitsKept
  <2>7. Onward(World, World')
    BY <1>1, <2>2, <2>5, <2>6, ValuesOnward
  <2> QED BY <1>1, <2>7, KeptByOnward
<1> QED BY <1>3, <1>4

\* The commits end.
LEMMA CommittedAdds ==
    ASSUME Assumptions, KindsApart, IInv, KeptInv, Committed, UNCHANGED program
    PROVE  KeptInv'
<1>1. /\ pc = "commit" /\ pc # "unsat"
      /\ UNCHANGED <<om, trail, used, assign, alevel, clauses, units, added>>
  BY DEF Committed
<1>2. Kept = used /\ Kept' = used
  <2>1. \/ pc' = "deliver" /\ static' = static
        \/ pc' = "propagate" /\ static' = used
    BY DEF Committed
  <2>2. Kept = used
    BY <1>1 DEF Kept, Searching
  <2>3. Kept' = IF pc' \in Searching THEN static' ELSE used'
    BY DEF Kept, Searching
  <2> QED BY <1>1, <2>1, <2>2, <2>3 DEF Searching
<1>3. SureKept(Kept, World, World') /\ UnitsKept(World, World')
  BY <1>1, ValuesKept
<1>4. Onward(World, World')
  BY <1>1, <1>2, <1>3, ValuesOnward
<1> QED BY <1>1, <1>4, KeptByOnward

\* clasp derives a literal, or finds a conflict.
LEMMA UnitPropagateAdds ==
    ASSUME Assumptions, KindsApart, IInv, KeptInv, UnitPropagate, UNCHANGED program
    PROVE  KeptInv'
<1>1. /\ pc \in {"commit", "propagate"} /\ pc # "unsat"
      /\ UNCHANGED <<om, trail, used, static, clauses, units, added>>
  BY DEF UnitPropagate
<1>2. CASE \E c \in clauses : /\ \A l \in c : IsFalse(l)
                              /\ pc' = (IF dl = 0 THEN "unsat" ELSE "conflict")
                              /\ UNCHANGED <<assign, alevel, queue>>
  <2>1. UNCHANGED <<assign, alevel>> /\ pc' = IF dl = 0 THEN "unsat" ELSE "conflict"
    BY <1>2
  <2>2. CASE dl = 0
    BY <1>1, <2>1, <2>2, KeptByOnward
  <2>3. CASE dl # 0
    <3>1. pc \in Searching
      <4>1. dl > 0
        <5>1. dl \in Nat
          BY PhaseFacts
        <5> HIDE DEF dl
        <5>2. \A n \in Nat : n # 0 => n > 0
          OBVIOUS
        <5> QED BY <2>3, <5>1, <5>2
      <4> QED BY <4>1, PhaseFacts
    <3>2. Onward(World, World')
      BY <1>1, <2>1, <3>1, GrowOnward
    <3> QED BY <1>1, <3>2, KeptByOnward
  <2> QED BY <2>2, <2>3
<1>3. CASE \E a \in used, sign \in {1, -1} :
             /\ assign[a] = 0
             /\ AssignAt(dl, Assigned(assign, {sign * a}))
             /\ queue' = queue \union {sign * a}
             /\ pc' = pc
  <2>1. PICK a \in used, sign \in {1, -1} :
             /\ assign[a] = 0
             /\ AssignAt(dl, Assigned(assign, {sign * a}))
             /\ pc' = pc
    BY <1>3
  <2>2. PICK l : l = sign * a
    OBVIOUS
  <2>3. Atoms \subseteq Nat \ {0, 1} /\ used \subseteq Atoms /\ a \in Nat /\ a > 1 /\ a \in Atoms
    BY Basics
  <2>4. \A b \in Atoms : b # a => assign'[b] = assign[b]
    <3>1. \A b \in Atoms : b # a => b # l /\ -b # l
      <4> SUFFICES ASSUME NEW b \in Atoms, b # a PROVE b # l /\ -b # l
        OBVIOUS
      <4>1. b \in Nat /\ b > 1
        BY <2>3
      <4>2. l = a \/ l = -a
        BY <2>2, <2>3
      <4> QED BY <2>3, <4>1, <4>2
    <3>2. assign' = Assigned(assign, {l})
      BY <2>1, <2>2 DEF AssignAt
    <3> QED BY <3>1, <3>2 DEF Assigned
  <2>5. \A b \in Atoms : assign[b] # 0 /\ alevel[b] = 0 => assign'[b] = assign[b] /\ alevel'[b] = 0
    BY <2>1, <2>4 DEF AssignAt
  <2>6. SureKept(Kept, World, World') /\ UnitsKept(World, World')
    BY <1>1, <2>5, ValuesKept
  <2>7. Kept \subseteq Kept'
    BY <1>1, <2>1 DEF Kept
  <2>8. Onward(World, World')
    BY <1>1, <2>6, <2>7, ValuesOnward
  <2> QED BY <1>1, <2>8, KeptByOnward
<1> QED BY <1>2, <1>3 DEF UnitPropagate

\* A decision opens a level.
LEMMA DecideAdds ==
    ASSUME Assumptions, KindsApart, IInv, KeptInv, Decide, UNCHANGED program
    PROVE  KeptInv'
<1>1. /\ pc = "fixpoint" /\ pc' = "propagate" /\ pc # "unsat" /\ trail' = Append(trail, Top)
      /\ UNCHANGED <<om, used, static, clauses, units, added>>
  BY DEF Decide
<1>2. PICK l : Choosable(l) /\ AssignAt(dl + 1, Assigned(assign, {l}))
  <2>1. PICK f \in Fallbacks :
           LET l == IF Decision(f) = 0 THEN f ELSE Decision(f) IN AssignAt(dl + 1, Assigned(assign, {l}))
    BY DEF Decide
  <2>2. Choosable(IF Decision(f) = 0 THEN f ELSE Decision(f))
    BY <1>1, <2>1, DecisionChoosable
  <2> QED BY <2>1, <2>2
<1>3. \A a \in Atoms : assign[a] # 0 => assign'[a] = assign[a]
  <2>1. Truth(assign, l) # -1 /\ {l} \subseteq LiteralsOf(used)
    BY <1>2 DEF Choosable
  <2>2. NoneFalse(assign, {l})
    BY <2>1 DEF NoneFalse
  <2>3. Atoms \subseteq Nat \ {0, 1} /\ used \subseteq Atoms /\ assign \in Values
    BY Basics DEF IInv, AssignInv, Values
  <2>4. MoreValues(assign, Assigned(assign, {l}), used)
    BY <2>1, <2>2, <2>3, AssignedIs
  <2> QED BY <1>2, <2>4 DEF MoreValues, AssignAt
<1>4. \A a \in Atoms : assign[a] # 0 /\ alevel[a] = 0 => assign'[a] = assign[a] /\ alevel'[a] = 0
  BY <1>2, <1>3 DEF AssignAt
<1>5. SureKept(Kept, World, World') /\ UnitsKept(World, World')
  BY <1>1, <1>4, ValuesKept
<1>6. Kept \subseteq Kept'
  BY <1>1 DEF Kept, Searching
<1>7. trail'[1] = trail[1]
  <2>1. trail \in Seq(Bounds) /\ Len(trail) >= 1 /\ Len(trail) \in Nat /\ Top \in Bounds
    BY Basics DEF IInv, TrailInv
  <2>2. PICK b : b = Top
    OBVIOUS
  <2> QED BY <1>1, <2>1, <2>2
<1>8. Onward(World, World')
  BY <1>1, <1>5, <1>6, <1>7, ValuesOnward
<1> QED BY <1>1, <1>8, KeptByOnward

\* A level is undone.
LEMMA UndoAdds ==
    ASSUME Assumptions, KindsApart, IInv, KeptInv, Undo, UNCHANGED program
    PROVE  KeptInv'
<1>1. /\ pc \in Searching /\ pc' \in Searching /\ pc # "unsat" /\ dl > 0 /\ dl # 0 /\ dl \in Nat
      /\ UNCHANGED <<om, used, static, clauses, units, added>>
  <2>1. pc \in Searching /\ pc' \in Searching /\ pc # "unsat" /\ dl > 0 /\ UNCHANGED <<om, used, static, clauses, units, added>>
    BY DEF Undo, Searching
  <2>2. dl \in Nat
    BY Basics
  <2>3. dl # 0
    <3> HIDE DEF dl
    <3> QED BY <2>1, <2>2
  <2> QED BY <2>1, <2>2, <2>3
<1>2. \A a \in Atoms : assign[a] # 0 /\ alevel[a] = 0 => assign'[a] = assign[a] /\ alevel'[a] = 0
  BY <1>1 DEF Undo
<1>3. SureKept(Kept, World, World') /\ UnitsKept(World, World')
  BY <1>1, <1>2, ValuesKept
<1>4. Kept \subseteq Kept'
  BY <1>1 DEF Kept
<1>5. trail'[1] = trail[1]
  <2>1. trail \in Seq(Bounds) /\ Len(trail) \in Nat /\ dl = Len(trail) - 1
    BY Basics DEF IInv, TrailInv
  <2>2. trail' = SubSeq(trail, 1, Len(trail) - 1)
    BY DEF Undo
  <2>3. PICK n : n = Len(trail)
    OBVIOUS
  <2>4. n - 1 >= 1 /\ n \in Nat
    <3>1. PICK k : k = dl
      OBVIOUS
    <3>2. k \in Nat /\ k # 0 /\ k = n - 1 /\ n \in Nat
      BY <1>1, <2>1, <2>3, <3>1
    <3> QED BY <3>2
  <2> QED BY <2>1, <2>2, <2>3, <2>4
<1>6. Onward(World, World')
  BY <1>1, <1>3, <1>4, <1>5, ValuesOnward
<1> QED BY <1>1, <1>6, KeptByOnward

\* The literals of the atoms A in the map o are in the map q.
LitsKept(A, o, q) ==
    \A v \in DOMAIN o.lits : o.lits[v] \in LiteralsOf(A) => v \in DOMAIN q.lits /\ q.lits[v] = o.lits[v]

\* Removing the literal of an atom keeps those of others.
LEMMA RemoveLocalLits ==
    ASSUME NEW o, NEW U, MapOk(o, U, 0), NEW a \in DOMAIN o.litmap, NEW A, A \subseteq Nat \ {0, 1}, a \notin A
    PROVE  LitsKept(A, o, RemoveLocal(o, a))
<1> DEFINE f == o.lits
           g == o.litmap
           h == o.factmap
           v == g[a].value
           y == Without(f, v)
           p == UnsetLiteral(o, v)
<1>1. o = [lits |-> f, litmap |-> g, factmap |-> h]
  BY MapParts DEF MapOk
<1>2. v \in DOMAIN f /\ f[v] \in {a, -a} /\ a > 1 /\ a \in Int
  <2>1. EntriesLinked(o) /\ DOMAIN g \subseteq Int
    BY MapParts DEF MapOk
  <2> QED BY <2>1 DEF EntriesLinked
<1>3. f[v] \notin LiteralsOf(A)
  <2>1. a \notin {1, -1} /\ -a \notin {1, -1} /\ a \notin A /\ -a \notin A
    BY <1>2
  <2>2. \A b \in A : -b # a /\ -b # -a
    <3> SUFFICES ASSUME NEW b \in A PROVE -b # a /\ -b # -a
      OBVIOUS
    <3>1. b \in Nat /\ b # a
      OBVIOUS
    <3> QED BY <1>2, <3>1
  <2>3. PICK x : x = f[v]
    OBVIOUS
  <2>4. x = a \/ x = -a
    BY <1>2, <2>3
  <2>5. x \notin LiteralsOf(A)
    BY <2>1, <2>2, <2>4 DEF LiteralsOf
  <2> QED BY <2>3, <2>5
<1>4. RemoveLocal(o, a) = [Relink(p, 0, v) EXCEPT !.litmap = Without(@, a)]
  BY DEF RemoveLocal
<1> HIDE DEF f, g, h, v
<1>5. p = [lits |-> y, litmap |-> g, factmap |-> h]
  BY <1>1 DEF UnsetLiteral
<1> HIDE DEF y, p
<1>6. PICK x : Relink(p, 0, v) = [lits |-> y, litmap |-> x, factmap |-> h]
  <2>1. PICK n : n = 0
    OBVIOUS
  <2>2. MapWith(p, y, h)
    BY <1>5 DEF MapWith
  <2>3. MapWith(Relink(p, n, v), y, h)
    BY <2>2, RelinkLits
  <2> QED BY <2>1, <2>3 DEF MapWith
<1>7. RemoveLocal(o, a).lits = y
  <2>1. PICK r : r = Relink(p, 0, v)
    OBVIOUS
  <2>2. PICK z : z = Without(r.litmap, a)
    OBVIOUS
  <2>3. RemoveLocal(o, a) = [r EXCEPT !.litmap = z]
    BY <1>4, <2>1, <2>2
  <2> QED BY <1>6, <2>1, <2>3
<1>8. \A k \in DOMAIN f : k # v => k \in DOMAIN y /\ y[k] = f[k]
  BY WithoutIs DEF y
<1>9. \A k \in DOMAIN o.lits : o.lits[k] \in LiteralsOf(A) => k # v
  BY <1>3 DEF f
<1> QED BY <1>7, <1>8, <1>9 DEF LitsKept, f

\* Removing the literals of a search keeps those of static atoms.
LEMMA RemoveLocalsLits ==
    ASSUME Assumptions, IInv
    PROVE  LitsKept(static, om, RemoveLocals(om))
<1>1. PICK N, o, St : N = program.atoms /\ o = om /\ St = static
  OBVIOUS
<1>2. N \in Nat /\ N >= 1 /\ MapOk(o, used, 0) /\ OrderAssumption /\ St \subseteq Nat \ {0, 1}
  <2>1. static \subseteq used /\ used \subseteq Atoms /\ Atoms \subseteq Nat \ {0, 1}
    BY Basics, TrailNested
  <2> QED BY <1>1, <2>1, Basics, TrailNested
<1>3. PICK run : /\ RemoveLocals(om) = run[N]
                 /\ \A a \in 1..N :
                      run[a] = IF a = 1 THEN o
                               ELSE IF a \in DOMAIN o.litmap \ St THEN RemoveLocal(run[a - 1], a) ELSE run[a - 1]
  <2>1. program.atoms \in Nat /\ program.atoms >= 1
    BY <1>1, <1>2
  <2>2. PICK run : /\ RemoveLocals(om) = run[program.atoms]
                   /\ \A a \in 1..program.atoms :
                        run[a] = IF a = 1 THEN om
                           ELSE IF a \in DOMAIN om.litmap \ static THEN RemoveLocal(run[a - 1], a) ELSE run[a - 1]
    BY <2>1, RemovalRun
  <2> QED BY <1>1, <2>2
<1> DEFINE Left(a) == {b \in DOMAIN o.litmap : b \in St \/ b > a}
           Keeps(a) == MapOk(run[a], used, 0) /\ DOMAIN run[a].litmap = Left(a) /\ LitsKept(St, o, run[a])
           Bad == {k \in 0..(N - 1) : ~Keeps(k + 1)}
<1>4. \A b \in DOMAIN o.litmap : b \in 2..N
  <2>1. DOMAIN o.litmap \subseteq used /\ used \subseteq Atoms
    BY <1>2, Basics DEF MapOk
  <2> QED BY <1>1, <2>1 DEF Atoms
<1>5. 0 \notin Bad
  <2>1. run[1] = o
    BY <1>2, <1>3
  <2>2. Left(1) = DOMAIN o.litmap
    BY <1>4
  <2>3. LitsKept(St, o, o)
    BY DEF LitsKept
  <2>4. Keeps(1)
    BY <1>2, <2>1, <2>2, <2>3
  <2> HIDE DEF Keeps
  <2> QED BY <2>4
<1>6. ASSUME NEW k \in 1..(N - 1), k - 1 \notin Bad
      PROVE  k \notin Bad
  <2>1. k - 1 \in 0..(N - 1) /\ (k - 1) + 1 = k /\ k \in 1..N /\ k + 1 \in 1..N /\ k + 1 # 1 /\ (k + 1) - 1 = k /\ k \in Int
    BY <1>2
  <2>2. Keeps(k)
    <3> HIDE DEF Keeps
    <3> QED BY <1>6, <2>1
  <2>3. PICK r, a : r = run[k] /\ a = k + 1
    OBVIOUS
  <2>4. MapOk(r, used, 0) /\ DOMAIN r.litmap = Left(k) /\ LitsKept(St, o, r)
    BY <2>2, <2>3
  <2>5. run[a] = IF a \in DOMAIN o.litmap \ St THEN RemoveLocal(r, a) ELSE r
    BY <1>3, <2>1, <2>3
  <2>6. Keeps(a)
    <3>1. CASE a \in DOMAIN o.litmap \ St
      <4>1. a \in Left(k)
        BY <2>1, <2>3, <3>1
      <4>2. a \in DOMAIN r.litmap /\ a \notin St
        BY <2>4, <3>1, <4>1
      <4>3. MapOk(RemoveLocal(r, a), used, 0) /\ DOMAIN RemoveLocal(r, a).litmap = DOMAIN r.litmap \ {a}
        BY <1>2, <2>4, <4>2, RemoveLocalOk
      <4>4. Left(a) = Left(k) \ {a}
        BY <1>4, <2>1, <2>3, <3>1
      <4>5. LitsKept(St, r, RemoveLocal(r, a))
        BY <1>2, <2>4, <4>2, RemoveLocalLits
      <4>6. LitsKept(St, o, RemoveLocal(r, a))
        BY <2>4, <4>5 DEF LitsKept
      <4> QED BY <2>4, <2>5, <3>1, <4>3, <4>4, <4>6
    <3>2. CASE a \notin DOMAIN o.litmap \ St
      <4>1. Left(a) = Left(k)
        BY <1>4, <2>1, <2>3, <3>2
      <4> QED BY <2>4, <2>5, <3>2, <4>1
    <3> QED BY <3>1, <3>2
  <2> HIDE DEF Keeps
  <2> QED BY <2>3, <2>6
<1>7. Bad = {}
  <2>1. Bad \subseteq 0..(N - 1) /\ N - 1 \in Nat
    BY <1>2
  <2> HIDE DEF Bad
  <2> QED BY <1>5, <1>6, <2>1, CountUp
<1>8. Keeps(N)
  <2>1. N - 1 \in 0..(N - 1) /\ (N - 1) + 1 = N
    BY <1>2
  <2> HIDE DEF Keeps
  <2> QED BY <1>7, <2>1
<1> QED BY <1>1, <1>3, <1>8

\* Only atoms that nothing that was added depends on leave between solve steps.
LEMMA NextStepAdds ==
    ASSUME Assumptions, KindsApart, IInv, KeptInv, NextStep, UNCHANGED program
    PROVE  KeptInv'
<1>1. /\ pc \in {"propagate", "fixpoint"} /\ pc # "unsat" /\ pc' = "build"
      /\ om' = RemoveLocals(om) /\ used' = static
      /\ assign' = [a \in Atoms |-> IF a \in static THEN assign[a] ELSE 0]
      /\ UNCHANGED <<trail, static, alevel, clauses, units, added>>
  BY DEF NextStep
<1> DEFINE w == World
           w2 == World'
<1>2. /\ w.kept = static /\ w.om = om /\ w.b = trail[1] /\ w.clauses = clauses
      /\ w.units = units /\ w.val = assign /\ w.lev = alevel
      /\ Kept = static /\ static \subseteq Nat \ {0, 1} /\ static \subseteq Atoms
  BY <1>1, KeptLiterals DEF Kept, Searching
<1>3. /\ w2.kept = static /\ w2.om = om' /\ w2.b = trail[1] /\ w2.clauses = clauses
      /\ w2.units = units /\ w2.val = assign' /\ w2.lev = alevel
  BY <1>1 DEF World, Kept, Searching
<1> HIDE DEF w, w2
<1>4. SureKept(w.kept, w, w2) /\ UnitsKept(w, w2) /\ w.clauses \subseteq w2.clauses /\ w.kept \subseteq w2.kept
  BY <1>1, <1>2, <1>3 DEF SureKept, UnitsKept
<1>5. Carried(w, w2)
  <2>1. LitsKept(static, om, om')
    BY <1>1, RemoveLocalsLits
  <2> QED BY <1>2, <1>3, <2>1 DEF Carried, LitsKept, Means
<1>6. Tighter(w, w2)
  <2>1. trail[1].lo \in Int /\ trail[1].up \in Int
    BY BottomBounds
  <2>2. trail[1].lo <= trail[1].lo /\ trail[1].up <= trail[1].up
    BY <2>1
  <2> QED BY <1>2, <1>3, <2>1, <2>2 DEF Tighter
<1>7. Onward(w, w2)
  BY <1>2, <1>4, <1>5, <1>6, OnwardFrom
<1>8. Onward(World, World')
  BY <1>7 DEF w, w2
<1> QED BY <1>1, <1>8, KeptByOnward

-----------------------------------------------------------------------------
(* The static clauses stay propagated.                                     *)

\* Static clauses that are propagated stay so if nothing changes.
LEMMA ClosedSame ==
    ASSUME StaticClosed, clauses' = clauses, assign' = assign
    PROVE  StaticClosed'
<1>1. \A l : (IsTrue(l)' <=> IsTrue(l)) /\ (IsFalse(l)' <=> IsFalse(l))
  BY DEF IsTrue, IsFalse, Truth
<1> QED BY <1>1 DEF StaticClosed, IsTrue, IsFalse, Truth

\* A step that queues nothing assigns nothing.
LEMMA NothingQueued ==
    ASSUME IInv, IInv', UNCHANGED program, NEW s, NEW rest, NEW next, Become(s, rest, next),
           pc' \notin {"unsat", "conflict"}, queue' = {}
    PROVE  rest = {} /\ assign' = assign /\ pc' = next
<1>1. s.ok
  BY DEF Become
<1>2. queue' = rest \union NewLits(s.val) /\ assign' = s.val /\ pc' = next
  BY <1>1 DEF Become, AssignAt
<1>3. rest = {} /\ NewLits(s.val) = {}
  BY <1>2
<1>4. \A a \in Atoms : assign'[a] = assign[a]
  BY <1>2, <1>3 DEF NewLits
<1>5. assign \in [Atoms -> {-1, 0, 1}] /\ assign' \in [Atoms -> {-1, 0, 1}]
  <2>1. Atoms' = Atoms
    BY DEF Atoms
  <2> QED BY <2>1 DEF IInv, AssignInv
<1> QED BY <1>2, <1>3, <1>4, <1>5

\* Steps of a phase whose end needs no closed clauses.
LEMMA ElsewhereClosed ==
    ASSUME pc' \notin {"check", "fixpoint"}
    PROVE  ClosedInv'
BY DEF ClosedInv

\* Preparing a solve step, clasp's steps and those that open the search again.
LEMMA OthersClosed ==
    ASSUME \/ \E c \in Simples : AddSimple(c)
           \/ \E d \in Doms : AddDom(d)
           \/ \E b \in Shared : UpdateBounds(b)
           \/ BeginSimplify \/ Commit \/ Committed \/ UnitPropagate \/ Propagate
           \/ Decide \/ CheckFull \/ Undo \/ NextStep
    PROVE  ClosedInv'
<1>1. (\E c \in Simples : AddSimple(c)) => pc' = "build"
  BY DEF AddSimple, Built
<1>2. (\E d \in Doms : AddDom(d)) => pc' = "build"
  BY DEF AddDom, Built
<1>3. (\E b \in Shared : UpdateBounds(b)) => pc' \in {"build", "unsat", "conflict"}
  BY DEF UpdateBounds, Become
<1>4. BeginSimplify \/ Commit \/ Committed => pc' \in {"commit", "unsat", "deliver", "propagate"}
  BY DEF BeginSimplify, Commit, Committed
<1>5. UnitPropagate => pc' \in {"commit", "propagate", "unsat", "conflict"}
  BY DEF UnitPropagate
<1>6. Propagate => pc' \in {"deliver", "propagate", "unsat", "conflict"}
  BY DEF Propagate, Become
<1>7. Decide \/ CheckFull \/ Undo \/ NextStep => pc' \in {"propagate", "build"}
  BY DEF Decide, CheckFull, Undo, NextStep
<1>8. pc' \notin {"check", "fixpoint"}
  BY <1>1, <1>2, <1>3, <1>4, <1>5, <1>6, <1>7
<1> QED BY <1>8, ElsewhereClosed

\* check starts when the static clauses are propagated.
LEMMA CheckClosed ==
    ASSUME Assumptions, IInv, IInv', ClosedInv, Check, UNCHANGED program
    PROVE  ClosedInv'
<1>1. PICK next : next = IF Preparing THEN "examine" ELSE "check"
  OBVIOUS
<1>2. /\ pc = "deliver" \/ (pc = "propagate" /\ StaticClosed)
      /\ Become(IntegrateFacts(State), {}, next) /\ clauses' = clauses
  BY <1>1 DEF Check
<1>3. SUFFICES ASSUME pc' \notin {"unsat", "conflict"}
               PROVE  ClosedInv'
  BY DEF ClosedInv
<1>4. pc' = next
  BY <1>2, <1>3 DEF Become
<1>5. CASE pc = "deliver"
  BY <1>1, <1>4, <1>5, ElsewhereClosed DEF Preparing
<1>6. CASE pc = "propagate" /\ StaticClosed
  <2>1. pc' = "check"
    BY <1>1, <1>4, <1>6 DEF Preparing
  <2>2. queue' = {} => StaticClosed'
    <3> SUFFICES ASSUME queue' = {} PROVE StaticClosed'
      OBVIOUS
    <3>1. assign' = assign
      BY <1>2, <1>3, NothingQueued
    <3> QED BY <1>2, <1>6, <3>1, ClosedSame
  <2> QED BY <2>1, <2>2 DEF ClosedInv
<1> QED BY <1>2, <1>5, <1>6

\* Constraints that queue nothing leave the static clauses propagated.
LEMMA ConstraintsClosed ==
    ASSUME Assumptions, IInv, IInv', ClosedInv, UNCHANGED <<program, clauses>>, pc \in {"examine", "check"},
           NEW s, Become(s, queue, pc)
    PROVE  ClosedInv'
<1>1. SUFFICES ASSUME pc' = "check", queue' = {}
               PROVE  StaticClosed'
  BY DEF ClosedInv, Become
<1>2. queue = {} /\ assign' = assign /\ pc' = pc
  BY <1>1, NothingQueued
<1>3. StaticClosed
  BY <1>1, <1>2 DEF ClosedInv
<1> QED BY <1>2, <1>3, ClosedSame

\* Tighten, Introduce and IntroduceReason.
LEMMA TightenClosed ==
    ASSUME Assumptions, IInv, IInv', ClosedInv, Tighten \/ Introduce \/ IntroduceReason, UNCHANGED program
    PROVE  ClosedInv'
<1>1. CASE Tighten
  <2>1. pc \in {"examine", "check"} /\ UNCHANGED <<program, clauses>> /\ \E s : Become(s, queue, pc)
    BY <1>1 DEF Tighten
  <2> QED BY <2>1, ConstraintsClosed
<1>2. CASE IntroduceReason
  <2>1. pc \in {"examine", "check"} /\ UNCHANGED <<program, clauses>> /\ \E s : Become(s, queue, pc)
    BY <1>2 DEF IntroduceReason
  <2> QED BY <2>1, ConstraintsClosed
<1>3. CASE Introduce
  <2>1. UNCHANGED <<pc, queue, clauses, assign>>
    BY <1>3 DEF Introduce
  <2> QED BY <2>1, ClosedSame DEF ClosedInv
<1> QED BY <1>1, <1>2, <1>3

\* check ends at a fixpoint only if nothing is queued.
LEMMA EndCheckClosed ==
    ASSUME Assumptions, IInv, IInv', ClosedInv, EndCheck, UNCHANGED program
    PROVE  ClosedInv'
<1>1. PICK next : next = IF om.factmap # <<>> THEN pc
              ELSE IF Preparing THEN "commit" ELSE IF queue # {} THEN "propagate" ELSE "fixpoint"
  OBVIOUS
<1>2. PICK t : t = IntegrateFacts(State)
  OBVIOUS
<1>3. pc \in {"examine", "check"} /\ Become(t, queue, next) /\ clauses' = clauses
  BY <1>1, <1>2 DEF EndCheck
<1>4. CASE om.factmap # <<>>
  BY <1>1, <1>3, <1>4, ConstraintsClosed
<1>5. CASE om.factmap = <<>>
  <2>1. t.val = assign /\ t.ok
    BY <1>2, <1>5, StateIntegrated
  <2>2. assign' = assign /\ pc' = next
    BY <1>3, <2>1 DEF Become, AssignAt
  <2>3. CASE next # "fixpoint"
    <3>1. pc' \notin {"check", "fixpoint"}
      BY <1>1, <1>5, <2>2, <2>3
    <3> QED BY <3>1, ElsewhereClosed
  <2>4. CASE next = "fixpoint"
    <3>1. ~Preparing /\ queue = {}
      BY <1>1, <1>5, <2>4
    <3>2. pc = "check"
      BY <1>3, <3>1 DEF Preparing
    <3>3. StaticClosed
      BY <3>1, <3>2 DEF ClosedInv
    <3>4. StaticClosed'
      BY <1>3, <2>2, <3>3, ClosedSame
    <3> QED BY <3>4 DEF ClosedInv
  <2> QED BY <2>3, <2>4
<1> QED BY <1>4, <1>5

-----------------------------------------------------------------------------

\* The invariant holds at the start.
LEMMA AddedInitOk ==
    ASSUME Assumptions, Init
    PROVE  AddedInv
<1>1. IInv
  BY InitOk
<1>2. pc = "build" /\ added = {}
  BY DEF Init
<1>3. ClosedInv
  BY <1>2 DEF ClosedInv
<1>4. KeptInv
  BY <1>2 DEF KeptInv
<1> QED BY <1>1, <1>3, <1>4 DEF AddedInv

\* A step that changes nothing.
LEMMA AddedStutter ==
    ASSUME Assumptions, KindsApart, AddedInv, UNCHANGED vars
    PROVE  AddedInv'
<1>1. /\ UNCHANGED <<om, trail, used, static, assign, alevel, clauses, units, queue, pc, added, program>>
      /\ IInv /\ ClosedInv /\ KeptInv
  BY DEF vars, clasp, AddedInv
<1>2. IInv'
  BY <1>1, StutterKeeps
<1>3. ClosedInv'
  BY <1>1, ClosedSame DEF ClosedInv
<1>4. KeptInv'
  <2>1. CASE pc = "unsat"
    BY <1>1, <2>1 DEF KeptInv
  <2>2. CASE pc # "unsat"
    <3>1. Onward(World, World')
      BY <1>1, GrowOnward
    <3> QED BY <1>1, <2>2, <3>1, KeptByOnward
  <2> QED BY <2>1, <2>2
<1> QED BY <1>2, <1>3, <1>4 DEF AddedInv

\* Every step preserves the invariant.
LEMMA AddedNext ==
    ASSUME Assumptions, KindsApart, AddedInv, [Next]_vars
    PROVE  AddedInv'
<1>1. CASE UNCHANGED vars
  BY <1>1, AddedStutter
<1>2. CASE Next
  <2>1. UNCHANGED program /\ Step /\ IInv /\ ClosedInv /\ KeptInv
    BY <1>2 DEF Next, AddedInv
  <2>2. IInv'
    BY <2>1, NextKeeps
  <2>3. ClosedInv'
    <3>1. CASE \/ \E c \in Simples : AddSimple(c)
               \/ \E d \in Doms : AddDom(d)
               \/ \E b \in Shared : UpdateBounds(b)
               \/ BeginSimplify \/ Commit \/ Committed \/ UnitPropagate \/ Propagate
               \/ Decide \/ CheckFull \/ Undo \/ NextStep
      BY <3>1, OthersClosed
    <3>2. CASE Check
      BY <2>1, <2>2, <3>2, CheckClosed
    <3>3. CASE Tighten \/ Introduce \/ IntroduceReason
      BY <2>1, <2>2, <3>3, TightenClosed
    <3>4. CASE EndCheck
      BY <2>1, <2>2, <3>4, EndCheckClosed
    <3> QED BY <2>1, <3>1, <3>2, <3>3, <3>4 DEF Step
  <2>4. KeptInv'
    <3>1. CASE \E c \in Simples : AddSimple(c)
      BY <2>1, <3>1, AddSimpleAdds
    <3>2. CASE \E d \in Doms : AddDom(d)
      BY <2>1, <3>2, AddDomAdds
    <3>3. CASE \E b \in Shared : UpdateBounds(b)
      BY <2>1, <3>3, UpdateBoundsAdds
    <3>4. CASE BeginSimplify \/ Commit \/ Committed
      BY <2>1, <3>4, BeginSimplifyAdds, CommitAdds, CommittedAdds
    <3>5. CASE UnitPropagate \/ Propagate \/ Check
      BY <2>1, <3>5, UnitPropagateAdds, PropagateAdds, CheckAdds
    <3>6. CASE Tighten \/ EndCheck
      BY <2>1, <3>6, TightenAdds, EndCheckAdds
    <3>7. CASE Introduce \/ IntroduceReason
      BY <2>1, <3>7, IntroduceAdds, IntroduceReasonAdds
    <3>8. CASE Decide \/ CheckFull \/ Undo \/ NextStep
      BY <2>1, <3>8, DecideAdds, CheckFullAdds, UndoAdds, NextStepAdds
    <3> QED BY <2>1, <3>1, <3>2, <3>3, <3>4, <3>5, <3>6, <3>7, <3>8 DEF Step
  <2> QED BY <2>2, <2>3, <2>4 DEF AddedInv
<1> QED BY <1>1, <1>2

\* At a solution everything that was added holds.
LEMMA AddedHoldsThen ==
    ASSUME Assumptions, KindsApart, AddedInv
    PROVE  AddedHold
<1>1. IInv /\ ClosedInv /\ KeptInv
  BY DEF AddedInv
<1>2. Solved => pc # "unsat"
  BY DEF Solved, AtFixpoint
<1>3. ASSUME Solved, NEW c \in added \intersect Simples
      PROVE  SimpleHolds(c, Top.lo)
  BY <1>1, <1>2, <1>3, SimpleHoldsThen DEF KeptInv
<1>4. ASSUME Solved, NEW d \in added \intersect Doms
      PROVE  DomHolds(d, Top.lo)
  <2>1. d.dom # <<>>
    BY Basics, <1>1 DEF KindsApart, Doms
  <2> QED BY <1>1, <1>2, <1>4, <2>1, DomHoldsThen DEF KeptInv
<1> QED BY <1>3, <1>4 DEF AddedHold, SimplesHold, DomsHold

\* Solutions satisfy what was passed to add_simple and add_dom, in every
\* solve step, whatever propagation and clasp do in between (add_simple,
\* add_dom, update_bounds, check, check_full, update).
THEOREM AddedAlwaysHold ==
    ASSUME KindsApart
    PROVE  Spec => []AddedHold
<1>1. Init => AddedInv
  BY ConstantsOk, AddedInitOk
<1>2. AddedInv /\ [Next]_vars => AddedInv'
  BY ConstantsOk, AddedNext
<1>3. AddedInv => AddedHold
  BY ConstantsOk, AddedHoldsThen
<1> QED BY <1>1, <1>2, <1>3, PTL DEF Spec
=============================================================================
