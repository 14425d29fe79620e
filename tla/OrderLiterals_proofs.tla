------------------------ MODULE OrderLiterals_proofs ------------------------
(***************************************************************************)
(* The order map of a variable stays consistent and its bounds follow the  *)
(* order literals, for any range of values, any number of atoms, any       *)
(* constraints and any sequence of calls.  The invariant IInv relates the  *)
(* map, the facts that are not integrated yet, the assignment of clasp,    *)
(* the literals it has still to deliver and the bounds of every level.     *)
(* Each action has a lemma; those that change the map or the bounds rest   *)
(* on what the operators do to a map, a builder or a state.                *)
(***************************************************************************)
EXTENDS OrderLiterals, Sums_proofs, SequenceTheorems, FunctionTheorems

-----------------------------------------------------------------------------
(* The inductive invariant.                                                *)

\* The types of the parts of the order map.
LitMaps == UNION {[D -> Int] : D \in SUBSET Int}
EntrySet == [lit : Int, value : Int, prev : Int, succ : Int]
EntryMaps == UNION {[A -> EntrySet] : A \in SUBSET Int}
FactSet == [lit : Int, value : Int, prec : Int]
MapSet == [lits : LitMaps, litmap : EntryMaps, factmap : Seq(FactSet)]

\* The literals of facts.
FactLits == {T, -T}

\* Entries and values belong to each other one to one, and an entry has the
\* literals of the values next to its own.
EntriesLinked(o) ==
    \A a \in DOMAIN o.litmap :
        /\ a > 1 /\ o.litmap[a].lit \in {a, -a}
        /\ o.litmap[a].value \in DOMAIN o.lits
        /\ o.lits[o.litmap[a].value] = o.litmap[a].lit
        /\ o.litmap[a].prev = LitPrev(o, o.litmap[a].value)
        /\ o.litmap[a].succ = LitSucc(o, o.litmap[a].value)

\* A value has a fact or an entry that refers back to it.
ValuesIndexed(o) ==
    \A k \in DOMAIN o.lits :
        \/ o.lits[k] \in FactLits
        \/ Abs(o.lits[k]) \in DOMAIN o.litmap /\ o.litmap[Abs(o.lits[k])].value = k

\* The facts in the list from entry m + 1 on are those in the map.
FactsListed(o, m) ==
    /\ \A i \in (m + 1)..Len(o.factmap) :
         /\ o.factmap[i].lit \in FactLits /\ o.factmap[i].prec \in Literals
         /\ o.factmap[i].value \in DOMAIN o.lits
         /\ o.lits[o.factmap[i].value] = o.factmap[i].lit
    /\ \A i, j \in (m + 1)..Len(o.factmap) : o.factmap[i].value = o.factmap[j].value => i = j
    /\ \A k \in DOMAIN o.lits :
         o.lits[k] \in FactLits => \E i \in (m + 1)..Len(o.factmap) : o.factmap[i].value = k

\* The order map o over the atoms atoms, where m facts are integrated.
MapOk(o, atoms, m) ==
    /\ o \in MapSet
    /\ DOMAIN o.lits \subseteq Lo..(Hi - 1)
    /\ DOMAIN o.litmap \subseteq atoms
    /\ EntriesLinked(o) /\ ValuesIndexed(o) /\ FactsListed(o, m)

\* The phases of a solve step.
Building == {"build", "commit", "deliver", "examine", "unsat"}
Searching == {"propagate", "check", "fixpoint", "conflict"}

\* What holds in the phases of a solve step.
PhaseInv ==
    /\ program \in Programs /\ pc \in Building \union Searching
    /\ dl > 0 => pc \in Searching
    /\ Clits \subseteq used /\ static \subseteq used /\ used \subseteq Atoms
    /\ pc \in Searching => Clits \subseteq static /\ units = {}
    /\ units \subseteq LiteralsOf(used)
    /\ om.factmap # <<>> => dl = 0
    /\ pc = "fixpoint" => queue = {} /\ om.factmap = <<>>

\* The assignment of clasp and the literals that are still to be delivered.
AssignInv ==
    /\ assign \in [Atoms -> {-1, 0, 1}] /\ alevel \in [Atoms -> 0..dl]
    /\ \A a \in Atoms : /\ assign[a] # 0 => a \in used
                        /\ assign[a] = 0 => alevel[a] = 0
    /\ queue \subseteq Literals /\ \A l \in queue : IsTrue(l)

\* Bounds of a level.
Bounds == [lo : Int, up : Int]

\* Bounds get tighter from level to level and leave a value.
TrailInv ==
    /\ trail \in Seq(Bounds) /\ Len(trail) > 0
    /\ \A i \in 1..Len(trail) : trail[i].lo <= trail[i].up
    /\ \A i, j \in 1..Len(trail) : i <= j => trail[i].lo <= trail[j].lo /\ trail[j].up <= trail[i].up
    /\ Lo <= MinBound /\ MaxBound <= Hi

\* On level 0 the literals of the map are free or still to be simplified.
TopInv ==
    \A a \in DOMAIN om.litmap :
        assign[a] # 0 /\ alevel[a] = 0 => dl = 0 /\ assign[a] * a \in queue

(* The bounds of the levels follow the order literals; A are the atoms, o  *)
(* is the order map, val and lev are the assignment, q is the queue and tr *)
(* has the bounds.                                                         *)

\* The literal l is true (false) on level i.
TrueIn(A, val, lev, l, i) == Abs(l) \in A /\ Truth(val, l) = 1 /\ lev[Abs(l)] < i
FalseIn(A, val, lev, l, i) == Abs(l) \in A /\ Truth(val, l) = -1 /\ lev[Abs(l)] < i

\* The bounds of a level come from order literals, ...
BoundsIn(A, o, val, lev, tr) ==
    \A i \in 2..Len(tr) :
        /\ tr[i].lo > tr[1].lo =>
             tr[i].lo - 1 \in DOMAIN o.lits /\ FalseIn(A, val, lev, o.lits[tr[i].lo - 1], i)
        /\ tr[i].up < tr[1].up =>
             tr[i].up \in DOMAIN o.lits /\ TrueIn(A, val, lev, o.lits[tr[i].up], i)

\* ... and are not behind those that have been propagated.
LevelsIn(A, o, val, lev, q, tr) ==
    \A i \in 2..Len(tr), k \in DOMAIN o.lits :
        /\ FalseIn(A, val, lev, o.lits[k], i) =>
             k < tr[i].lo \/ (i = Len(tr) /\ -o.lits[k] \in q)
        /\ TrueIn(A, val, lev, o.lits[k], i) =>
             tr[i].up <= k \/ (i = Len(tr) /\ o.lits[k] \in q)

\* Above (below) an order literal that is true (false) on a level are only
\* such literals, unless one between them is still to be propagated.
ClosedIn(A, o, val, lev, q, tr) ==
    \A i \in 2..Len(tr), j, k \in DOMAIN o.lits :
        k < j =>
          /\ TrueIn(A, val, lev, o.lits[k], i) =>
               \/ TrueIn(A, val, lev, o.lits[j], i)
               \/ i = Len(tr) /\ \E m \in DOMAIN o.lits : k <= m /\ m < j /\ o.lits[m] \in q
          /\ FalseIn(A, val, lev, o.lits[j], i) =>
               \/ FalseIn(A, val, lev, o.lits[k], i)
               \/ i = Len(tr) /\ \E m \in DOMAIN o.lits : k < m /\ m <= j /\ -o.lits[m] \in q

\* The bounds of the levels belong to the literals.
LevelsOk(A, o, val, lev, q, tr) ==
    BoundsIn(A, o, val, lev, tr) /\ LevelsIn(A, o, val, lev, q, tr) /\ ClosedIn(A, o, val, lev, q, tr)

LevelsInv == LevelsOk(Atoms, om, assign, alevel, queue, trail)

\* The invariant.
IInv ==
    /\ PhaseInv /\ AssignInv /\ TrailInv /\ MapOk(om, used, 0)
    /\ TopInv /\ LevelsInv

-----------------------------------------------------------------------------
(* The neighbours of a value.                                              *)

\* A set of integers between two bounds that is not empty has a least and a
\* greatest element.
LEMMA LeastAndGreatest ==
    ASSUME NEW S, NEW m \in Int, NEW n \in Int, S \subseteq m..n, S # {}
    PROVE  /\ Min(S) \in S /\ \A x \in S : Min(S) <= x
           /\ Max(S) \in S /\ \A x \in S : x <= Max(S)
<1>1. \E y \in S : \A x \in S : y <= x
  <2> DEFINE Gaps == {x - m : x \in S}
  <2>1. Gaps \subseteq Nat /\ Gaps # {}
    <3>1. \A x \in S : x \in Int /\ m <= x /\ x <= n
      OBVIOUS
    <3>2. \A x \in S : x - m \in Nat /\ n - x \in Nat
      BY <3>1
    <3> QED BY <3>2
  <2>2. PICK g \in Gaps : \A h \in Gaps : g <= h
    <3> HIDE DEF Gaps
    <3> QED BY <2>1, LeastNatural
  <2>3. PICK y \in S : g = y - m
    OBVIOUS
  <2>4. ASSUME NEW x \in S PROVE y <= x
    <3>1. x - m \in Gaps /\ x \in Int /\ y \in Int
      OBVIOUS
    <3>2. g <= x - m
      BY <3>1, <2>2
    <3> QED BY <3>1, <3>2, <2>3
  <2> QED BY <2>4
<1>2. \E y \in S : \A x \in S : y >= x
  <2> DEFINE Gaps == {n - x : x \in S}
  <2>1. Gaps \subseteq Nat /\ Gaps # {}
    <3>1. \A x \in S : x \in Int /\ m <= x /\ x <= n
      OBVIOUS
    <3>2. \A x \in S : x - m \in Nat /\ n - x \in Nat
      BY <3>1
    <3> QED BY <3>2
  <2>2. PICK g \in Gaps : \A h \in Gaps : g <= h
    <3> HIDE DEF Gaps
    <3> QED BY <2>1, LeastNatural
  <2>3. PICK y \in S : g = n - y
    OBVIOUS
  <2>4. ASSUME NEW x \in S PROVE y >= x
    <3>1. n - x \in Gaps /\ x \in Int /\ y \in Int
      OBVIOUS
    <3>2. g <= n - x
      BY <3>1, <2>2
    <3> QED BY <3>1, <3>2, <2>3
  <2> QED BY <2>4
<1>3. Min(S) \in S /\ \A x \in S : Min(S) <= x
  BY <1>1 DEF Min
<1>4. Max(S) \in S /\ \A x \in S : Max(S) >= x
  BY <1>2 DEF Max
<1>5. \A x \in S : x \in Int
  OBVIOUS
<1> QED BY <1>3, <1>4, <1>5

\* The literal p belongs to the last value before v, the literal s to the
\* first one behind it.
IsPrev(f, v, p) ==
    \/ p = -T /\ \A k \in DOMAIN f : k >= v
    \/ \E k \in DOMAIN f : k < v /\ p = f[k] /\ \A j \in DOMAIN f : j < v => j <= k
IsSucc(f, v, s) ==
    \/ s = T /\ \A k \in DOMAIN f : k <= v
    \/ \E k \in DOMAIN f : k > v /\ s = f[k] /\ \A j \in DOMAIN f : j > v => j >= k

\* LitPrev and LitSucc are the literals of the neighbouring values.
LEMMA PrevAndSucc ==
    ASSUME OrderAssumption, NEW o, DOMAIN o.lits \subseteq Lo..(Hi - 1), NEW v \in Int
    PROVE  IsPrev(o.lits, v, LitPrev(o, v)) /\ IsSucc(o.lits, v, LitSucc(o, v))
<1> DEFINE f == o.lits
           below == {k \in DOMAIN f : k < v}
           above == {k \in DOMAIN f : k > v}
<1>1. Lo \in Int /\ Hi - 1 \in Int /\ below \subseteq Lo..(Hi - 1) /\ above \subseteq Lo..(Hi - 1)
  BY DEF OrderAssumption
<1>2. \A k \in DOMAIN f : k \in Int
  OBVIOUS
<1>3. LitPrev(o, v) = IF below = {} THEN -T ELSE f[Max(below)]
  BY DEF LitPrev
<1>4. LitSucc(o, v) = IF above = {} THEN T ELSE f[Min(above)]
  BY DEF LitSucc
<1>5. below # {} => Max(below) \in below /\ \A x \in below : x <= Max(below)
  <2> HIDE DEF below
  <2> QED BY <1>1, LeastAndGreatest
<1>6. above # {} => Min(above) \in above /\ \A x \in above : Min(above) <= x
  <2> HIDE DEF above
  <2> QED BY <1>1, LeastAndGreatest
<1>7. IsPrev(f, v, LitPrev(o, v))
  <2>1. CASE below = {}
    <3>1. \A k \in DOMAIN f : k >= v
      BY <2>1, <1>2
    <3> QED BY <2>1, <3>1, <1>3 DEF IsPrev
  <2>2. CASE below # {}
    <3>1. /\ Max(below) \in DOMAIN f /\ Max(below) < v
          /\ \A j \in DOMAIN f : j < v => j <= Max(below)
      BY <2>2, <1>5
    <3> HIDE DEF below
    <3> QED BY <2>2, <3>1, <1>3 DEF IsPrev
  <2> QED BY <2>1, <2>2
<1>8. IsSucc(f, v, LitSucc(o, v))
  <2>1. CASE above = {}
    <3>1. \A k \in DOMAIN f : k <= v
      BY <2>1, <1>2
    <3> QED BY <2>1, <3>1, <1>4 DEF IsSucc
  <2>2. CASE above # {}
    <3>1. /\ Min(above) \in DOMAIN f /\ Min(above) > v
          /\ \A j \in DOMAIN f : j > v => j >= Min(above)
      BY <2>2, <1>6
    <3> HIDE DEF above
    <3> QED BY <2>2, <3>1, <1>4 DEF IsSucc
  <2> QED BY <2>1, <2>2
<1> QED BY <1>7, <1>8

\* A value has one neighbour on each side.
LEMMA NeighboursUnique ==
    ASSUME NEW f, NEW v \in Int, DOMAIN f \subseteq Int, NEW p, NEW q
    PROVE  /\ IsPrev(f, v, p) /\ IsPrev(f, v, q) => p = q
           /\ IsSucc(f, v, p) /\ IsSucc(f, v, q) => p = q
<1>1. \A j, k \in Int : j <= k /\ k <= j => j = k
  OBVIOUS
<1>2. \A k \in Int : ~(k < v /\ k >= v) /\ ~(k > v /\ k <= v)
  OBVIOUS
<1>3. IsPrev(f, v, p) /\ IsPrev(f, v, q) => p = q
  BY <1>1, <1>2 DEF IsPrev
<1>4. IsSucc(f, v, p) /\ IsSucc(f, v, q) => p = q
  <2>1. SUFFICES ASSUME IsSucc(f, v, p), IsSucc(f, v, q) PROVE p = q
    OBVIOUS
  <2>2. \A j, k \in Int : j >= k /\ k >= j => j = k
    OBVIOUS
  <2> QED BY <2>1, <2>2, <1>2 DEF IsSucc
<1> QED BY <1>3, <1>4

\* f and g are the same but for v.
SameOff(f, g, v) ==
    /\ DOMAIN f \subseteq Int /\ DOMAIN g \subseteq Int
    /\ \A k \in Int : k # v => (k \in DOMAIN f <=> k \in DOMAIN g)
    /\ \A k \in DOMAIN f : k # v => f[k] = g[k]

\* No value of f is between k and v.
Adjacent(f, k, v) == \A j \in DOMAIN f : ~(k < j /\ j < v) /\ ~(v < j /\ j < k)

\* A change for v is seen by its neighbours only.
LEMMA PrevOff ==
    ASSUME NEW f, NEW g, NEW v \in Int, SameOff(f, g, v), NEW k \in Int
    PROVE  /\ ~(v < k /\ Adjacent(f, v, k)) => \A p : IsPrev(f, k, p) <=> IsPrev(g, k, p)
           /\ v < k /\ Adjacent(f, v, k) /\ v \in DOMAIN f => IsPrev(f, k, f[v])
           /\ v < k /\ Adjacent(f, v, k) /\ v \notin DOMAIN f =>
                \A p : IsPrev(f, k, p) <=> IsPrev(g, v, p)
<1> USE DEF SameOff
<1>1. ASSUME ~(v < k /\ Adjacent(f, v, k)), NEW p
      PROVE  IsPrev(f, k, p) <=> IsPrev(g, k, p)
  <2>1. CASE k <= v
    BY <2>1 DEF IsPrev
  <2>2. CASE v < k
    <3>1. PICK i \in DOMAIN f : v < i /\ i < k
      BY <2>2, <1>1 DEF Adjacent
    <3>2. i \in DOMAIN g
      BY <3>1
    <3>3. IsPrev(f, k, p) <=> \E n \in DOMAIN f : v < n /\ n < k /\ p = f[n] /\ \A j \in DOMAIN f : j < k => j <= n
      BY <3>1 DEF IsPrev
    <3>4. IsPrev(g, k, p) <=> \E n \in DOMAIN g : v < n /\ n < k /\ p = g[n] /\ \A j \in DOMAIN g : j < k => j <= n
      BY <3>1, <3>2 DEF IsPrev
    <3>5. \A n \in DOMAIN f : v < n =>
            /\ n \in DOMAIN g /\ f[n] = g[n]
            /\ (\A j \in DOMAIN f : j < k => j <= n) <=> (\A j \in DOMAIN g : j < k => j <= n)
      OBVIOUS
    <3>6. \A n \in DOMAIN g : v < n => n \in DOMAIN f
      OBVIOUS
    <3> QED BY <3>3, <3>4, <3>5, <3>6
  <2> QED BY <2>1, <2>2
<1>2. v < k /\ Adjacent(f, v, k) /\ v \in DOMAIN f => IsPrev(f, k, f[v])
  BY DEF IsPrev, Adjacent
<1>3. ASSUME v < k, Adjacent(f, v, k), v \notin DOMAIN f, NEW p
      PROVE  IsPrev(f, k, p) <=> IsPrev(g, v, p)
  <2>1. \A j \in Int : j # v => (j \in DOMAIN f /\ j < k <=> j \in DOMAIN g /\ j < v)
    BY <1>3 DEF Adjacent
  <2>2. \A j \in DOMAIN f : j # v
    BY <1>3
  <2> QED BY <2>1, <2>2, <1>3 DEF IsPrev
<1> QED BY <1>1, <1>2, <1>3

\* The upper neighbours of the other values, when the value v is changed.
LEMMA SuccOff ==
    ASSUME NEW f, NEW g, NEW v \in Int, SameOff(f, g, v), NEW k \in Int
    PROVE  /\ ~(k < v /\ Adjacent(f, k, v)) => \A s : IsSucc(f, k, s) <=> IsSucc(g, k, s)
           /\ k < v /\ Adjacent(f, k, v) /\ v \in DOMAIN f => IsSucc(f, k, f[v])
           /\ k < v /\ Adjacent(f, k, v) /\ v \notin DOMAIN f =>
                \A s : IsSucc(f, k, s) <=> IsSucc(g, v, s)
<1> USE DEF SameOff
<1>1. ASSUME ~(k < v /\ Adjacent(f, k, v)), NEW s
      PROVE  IsSucc(f, k, s) <=> IsSucc(g, k, s)
  <2>1. CASE k >= v
    BY <2>1 DEF IsSucc
  <2>2. CASE k < v
    <3>1. PICK i \in DOMAIN f : k < i /\ i < v
      BY <2>2, <1>1 DEF Adjacent
    <3>2. i \in DOMAIN g
      BY <3>1
    <3>3. IsSucc(f, k, s) <=> \E n \in DOMAIN f : k < n /\ n < v /\ s = f[n] /\ \A j \in DOMAIN f : j > k => j >= n
      BY <3>1 DEF IsSucc
    <3>4. IsSucc(g, k, s) <=> \E n \in DOMAIN g : k < n /\ n < v /\ s = g[n] /\ \A j \in DOMAIN g : j > k => j >= n
      BY <3>1, <3>2 DEF IsSucc
    <3>5. \A n \in DOMAIN f : n < v =>
            /\ n \in DOMAIN g /\ f[n] = g[n]
            /\ (\A j \in DOMAIN f : j > k => j >= n) <=> (\A j \in DOMAIN g : j > k => j >= n)
      OBVIOUS
    <3>6. \A n \in DOMAIN g : n < v => n \in DOMAIN f
      OBVIOUS
    <3> QED BY <3>3, <3>4, <3>5, <3>6
  <2> QED BY <2>1, <2>2
<1>2. k < v /\ Adjacent(f, k, v) /\ v \in DOMAIN f => IsSucc(f, k, f[v])
  BY DEF IsSucc, Adjacent
<1>3. ASSUME k < v, Adjacent(f, k, v), v \notin DOMAIN f, NEW s
      PROVE  IsSucc(f, k, s) <=> IsSucc(g, v, s)
  <2>1. \A j \in Int : j # v => (j \in DOMAIN f /\ j > k <=> j \in DOMAIN g /\ j > v)
    BY <1>3 DEF Adjacent
  <2>2. \A j \in DOMAIN f : j # v
    BY <1>3
  <2> QED BY <2>1, <2>2, <1>3 DEF IsSucc
<1> QED BY <1>1, <1>2, <1>3

-----------------------------------------------------------------------------
(* Changing the order map.                                                 *)

\* The parts of an order map.
LEMMA MapParts ==
    ASSUME NEW o \in MapSet
    PROVE  /\ o.lits \in [DOMAIN o.lits -> Int] /\ DOMAIN o.lits \subseteq Int
           /\ o.litmap \in [DOMAIN o.litmap -> EntrySet] /\ DOMAIN o.litmap \subseteq Int
           /\ o.factmap \in Seq(FactSet)
           /\ o = [lits |-> o.lits, litmap |-> o.litmap, factmap |-> o.factmap]
<1>1. o.lits \in LitMaps /\ o.litmap \in EntryMaps /\ o.factmap \in Seq(FactSet)
      /\ o = [lits |-> o.lits, litmap |-> o.litmap, factmap |-> o.factmap]
  BY DEF MapSet
<1>2. PICK D \in SUBSET Int : o.lits \in [D -> Int]
  BY <1>1 DEF LitMaps
<1>3. PICK A \in SUBSET Int : o.litmap \in [A -> EntrySet]
  BY <1>1 DEF EntryMaps
<1> QED BY <1>1, <1>2, <1>3

\* An order map made of its parts.
LEMMA MapFrom ==
    ASSUME NEW f, NEW g, NEW h \in Seq(FactSet),
           f \in [DOMAIN f -> Int], DOMAIN f \subseteq Int,
           g \in [DOMAIN g -> EntrySet], DOMAIN g \subseteq Int
    PROVE  [lits |-> f, litmap |-> g, factmap |-> h] \in MapSet
<1>1. f \in LitMaps /\ g \in EntryMaps
  BY DEF LitMaps, EntryMaps
<1> QED BY <1>1 DEF MapSet

\* Functions with a value more or less.
LEMMA WithIs ==
    \A f, x, y : /\ DOMAIN With(f, x, y) = DOMAIN f \union {x}
                 /\ With(f, x, y)[x] = y
                 /\ \A z \in DOMAIN f : z # x => With(f, x, y)[z] = f[z]
  BY DEF With

\* A function with another value.
LEMMA WithType ==
    ASSUME NEW S, NEW f, f \in [DOMAIN f -> S], NEW x, NEW y \in S
    PROVE  With(f, x, y) \in [DOMAIN f \union {x} -> S]
  BY DEF With

\* What is left of a function without one of its arguments.
LEMMA WithoutIs ==
    \A f, x : /\ DOMAIN Without(f, x) = DOMAIN f \ {x}
              /\ \A z \in DOMAIN f : z # x => Without(f, x)[z] = f[z]
  BY DEF Without, Restrict

\* A function with one argument less has values of the same set.
LEMMA WithoutType ==
    ASSUME NEW S, NEW f, f \in [DOMAIN f -> S], NEW x
    PROVE  Without(f, x) \in [DOMAIN f \ {x} -> S]
  BY DEF Without, Restrict

\* Entries with other neighbours but the same literals and values.
SameEntries(o, r) ==
    /\ r \in MapSet /\ r.lits = o.lits /\ r.factmap = o.factmap
    /\ DOMAIN r.litmap = DOMAIN o.litmap
    /\ \A a \in DOMAIN o.litmap : r.litmap[a].lit = o.litmap[a].lit /\ r.litmap[a].value = o.litmap[a].value

\* SetSucc changes the upper neighbour of one entry.
LEMMA SetSuccIs ==
    ASSUME NEW o \in MapSet, NEW l \in Int, NEW s \in Int
    PROVE  /\ SameEntries(o, SetSucc(o, l, s))
           /\ \A a \in DOMAIN o.litmap :
                /\ SetSucc(o, l, s).litmap[a].prev = o.litmap[a].prev
                /\ SetSucc(o, l, s).litmap[a].succ = IF Valid(o, l) /\ a = Abs(l) THEN s ELSE o.litmap[a].succ
<1>1. CASE ~Valid(o, l)
  BY <1>1 DEF SetSucc, SameEntries
<1>2. CASE Valid(o, l)
  <2>1. Abs(l) \in DOMAIN o.litmap
    BY <1>2 DEF Valid
  <2> DEFINE b == Abs(l)
             g == [o.litmap EXCEPT ![b].succ = s]
  <2> HIDE DEF b
  <2>2. o.litmap \in [DOMAIN o.litmap -> EntrySet] /\ b \in DOMAIN o.litmap /\ DOMAIN o.litmap \subseteq Int
    BY <2>1, MapParts DEF b
  <2>3. g \in [DOMAIN o.litmap -> EntrySet] /\ DOMAIN g = DOMAIN o.litmap
    BY <2>2 DEF EntrySet
  <2>4. \A a \in DOMAIN o.litmap :
          /\ g[a].lit = o.litmap[a].lit /\ g[a].value = o.litmap[a].value /\ g[a].prev = o.litmap[a].prev
          /\ g[a].succ = IF a = b THEN s ELSE o.litmap[a].succ
    BY <2>2 DEF EntrySet
  <2>5. SetSucc(o, l, s) = [o EXCEPT !.litmap[b].succ = s]
    BY <1>2 DEF SetSucc, b
  <2>6. SetSucc(o, l, s) = [lits |-> o.lits, litmap |-> g, factmap |-> o.factmap]
    BY <2>5, MapParts
  <2> HIDE DEF g
  <2>7. [lits |-> o.lits, litmap |-> g, factmap |-> o.factmap] \in MapSet
    BY <2>2, <2>3, MapFrom, MapParts
  <2>8. b = Abs(l)
    BY DEF b
  <2> QED BY <2>3, <2>4, <2>6, <2>7, <2>8, <1>2 DEF SameEntries
<1> QED BY <1>1, <1>2

\* SetPrev changes the lower neighbour of one entry.
LEMMA SetPrevIs ==
    ASSUME NEW o \in MapSet, NEW l \in Int, NEW s \in Int
    PROVE  /\ SameEntries(o, SetPrev(o, l, s))
           /\ \A a \in DOMAIN o.litmap :
                /\ SetPrev(o, l, s).litmap[a].succ = o.litmap[a].succ
                /\ SetPrev(o, l, s).litmap[a].prev = IF Valid(o, l) /\ a = Abs(l) THEN s ELSE o.litmap[a].prev
<1>1. CASE ~Valid(o, l)
  BY <1>1 DEF SetPrev, SameEntries
<1>2. CASE Valid(o, l)
  <2>1. Abs(l) \in DOMAIN o.litmap
    BY <1>2 DEF Valid
  <2> DEFINE b == Abs(l)
             g == [o.litmap EXCEPT ![b].prev = s]
  <2> HIDE DEF b
  <2>2. o.litmap \in [DOMAIN o.litmap -> EntrySet] /\ b \in DOMAIN o.litmap /\ DOMAIN o.litmap \subseteq Int
    BY <2>1, MapParts DEF b
  <2>3. g \in [DOMAIN o.litmap -> EntrySet] /\ DOMAIN g = DOMAIN o.litmap
    BY <2>2 DEF EntrySet
  <2>4. \A a \in DOMAIN o.litmap :
          /\ g[a].lit = o.litmap[a].lit /\ g[a].value = o.litmap[a].value /\ g[a].succ = o.litmap[a].succ
          /\ g[a].prev = IF a = b THEN s ELSE o.litmap[a].prev
    BY <2>2 DEF EntrySet
  <2>5. SetPrev(o, l, s) = [o EXCEPT !.litmap[b].prev = s]
    BY <1>2 DEF SetPrev, b
  <2>6. SetPrev(o, l, s) = [lits |-> o.lits, litmap |-> g, factmap |-> o.factmap]
    BY <2>5, MapParts
  <2> HIDE DEF g
  <2>7. [lits |-> o.lits, litmap |-> g, factmap |-> o.factmap] \in MapSet
    BY <2>2, <2>3, MapFrom, MapParts
  <2>8. b = Abs(l)
    BY DEF b
  <2> QED BY <2>3, <2>4, <2>6, <2>7, <2>8, <1>2 DEF SameEntries
<1> QED BY <1>1, <1>2

\* The order map but for the value v.
LinkedOff(o, v) ==
    /\ o \in MapSet /\ DOMAIN o.lits \subseteq Lo..(Hi - 1)
    /\ \A a \in DOMAIN o.litmap :
         /\ a > 1 /\ o.litmap[a].lit \in {a, -a}
         /\ o.litmap[a].value # v =>
              o.litmap[a].value \in DOMAIN o.lits /\ o.lits[o.litmap[a].value] = o.litmap[a].lit
    /\ \A k \in DOMAIN o.lits : k # v =>
         \/ o.lits[k] \in FactLits
         \/ Abs(o.lits[k]) \in DOMAIN o.litmap /\ o.litmap[Abs(o.lits[k])].value = k

\* Literals and their atoms.
LEMMA AbsIs == \A l \in Int : /\ Abs(l) \in Nat /\ (l = Abs(l) \/ l = -Abs(l))
                              /\ Abs(-l) = Abs(l) /\ (Abs(l) = 1 <=> l \in FactLits)
                              /\ \A a \in Int : a > 0 => (Abs(l) = a <=> l \in {a, -a})
                              /\ (l \in FactLits => l = 1 \/ l = -1)
  BY DEF Abs, FactLits, T

\* In r the entries next to v have the literal lit or (0) each other as neighbours,
\* and the others have the ones of o.
LinksChange(o, lit, v, r) ==
    \A a \in DOMAIN o.litmap : o.litmap[a].value # v =>
        /\ r.litmap[a].succ = IF o.litmap[a].value < v /\ Adjacent(o.lits, o.litmap[a].value, v)
                              THEN (IF lit # 0 THEN lit ELSE LitSucc(o, v)) ELSE o.litmap[a].succ
        /\ r.litmap[a].prev = IF v < o.litmap[a].value /\ Adjacent(o.lits, v, o.litmap[a].value)
                              THEN (IF lit # 0 THEN lit ELSE LitPrev(o, v)) ELSE o.litmap[a].prev

\* Relink gives the neighbours of v what is next to them.
LEMMA RelinkIs ==
    ASSUME OrderAssumption, NEW v \in Int, NEW o, LinkedOff(o, v), NEW lit \in Int
    PROVE  /\ SameEntries(o, Relink(o, lit, v))
           /\ LitPrev(o, v) \in Int /\ LitSucc(o, v) \in Int
           /\ LinksChange(o, lit, v, Relink(o, lit, v))
<1> DEFINE f == o.lits
           p == LitPrev(o, v)
           s == LitSucc(o, v)
           x == IF lit # 0 THEN lit ELSE s
           y == IF lit # 0 THEN lit ELSE p
           o1 == SetSucc(o, p, x)
           r == SetPrev(o1, s, y)
<1>1. o \in MapSet /\ DOMAIN f \subseteq Lo..(Hi - 1) /\ DOMAIN f \subseteq Int /\ f \in [DOMAIN f -> Int]
      /\ o.litmap \in [DOMAIN o.litmap -> EntrySet]
  BY MapParts DEF LinkedOff
<1>2. IsPrev(f, v, p) /\ IsSucc(f, v, s)
  BY <1>1, PrevAndSucc
<1>3. p \in Int /\ s \in Int /\ -1 \in Int /\ 1 \in Int
  <2>1. \A k \in DOMAIN f : f[k] \in Int
    BY <1>1
  <2> QED BY <1>2, <2>1 DEF IsPrev, IsSucc, T
<1>4. Relink(o, lit, v) = r
  BY DEF Relink
<1> HIDE DEF p, s
<1>5. x \in Int /\ y \in Int
  BY <1>3
<1> HIDE DEF x, y
<1>6. /\ SameEntries(o, o1)
      /\ \A a \in DOMAIN o.litmap :
           /\ o1.litmap[a].prev = o.litmap[a].prev
           /\ o1.litmap[a].succ = IF Valid(o, p) /\ a = Abs(p) THEN x ELSE o.litmap[a].succ
  <2>1. o \in MapSet /\ p \in Int /\ x \in Int
    BY <1>1, <1>3, <1>5
  <2>2. /\ SameEntries(o, SetSucc(o, p, x))
        /\ \A a \in DOMAIN o.litmap :
             /\ SetSucc(o, p, x).litmap[a].prev = o.litmap[a].prev
             /\ SetSucc(o, p, x).litmap[a].succ = IF Valid(o, p) /\ a = Abs(p) THEN x ELSE o.litmap[a].succ
    BY ONLY <2>1, SetSuccIs
  <2> QED BY <2>2
<1> HIDE DEF o1
<1>7. /\ SameEntries(o1, r)
      /\ \A a \in DOMAIN o1.litmap :
           /\ r.litmap[a].succ = o1.litmap[a].succ
           /\ r.litmap[a].prev = IF Valid(o1, s) /\ a = Abs(s) THEN y ELSE o1.litmap[a].prev
  BY <1>6, <1>3, <1>5, SetPrevIs DEF SameEntries
<1> HIDE DEF r
<1>8. SameEntries(o, r) /\ (Valid(o1, s) <=> Valid(o, s)) /\ DOMAIN o1.litmap = DOMAIN o.litmap
  BY <1>6, <1>7 DEF SameEntries, Valid
<1>9. ASSUME NEW a \in DOMAIN o.litmap, NEW k \in Int, k = o.litmap[a].value, k # v
      PROVE  /\ (k < v /\ Adjacent(f, k, v)) <=> (Valid(o, p) /\ a = Abs(p))
             /\ (v < k /\ Adjacent(f, v, k)) <=> (Valid(o, s) /\ a = Abs(s))
  <2>1. /\ a \in Int /\ a > 1 /\ o.litmap[a].lit \in {a, -a} /\ k \in DOMAIN f /\ f[k] = o.litmap[a].lit
        /\ f[k] \in Int /\ Abs(f[k]) = a /\ Valid(o, f[k])
    <3>1. /\ a \in Int /\ a > 1 /\ o.litmap[a].lit \in {a, -a} /\ k \in DOMAIN f /\ f[k] = o.litmap[a].lit
      BY <1>9, <1>1, MapParts DEF LinkedOff
    <3>2. f[k] \in Int
      BY <3>1, <1>1
    <3>3. Abs(f[k]) = a
      BY <3>1, <3>2, AbsIs
    <3> QED BY <3>1, <3>2, <3>3 DEF Valid
  <2>2. ASSUME NEW q, NEW n \in DOMAIN f, n # v, q = f[n], Valid(o, q), a = Abs(q)
        PROVE  n = k
    <3>1. q \in Int /\ q \notin FactLits
      BY <2>2, <2>1, <1>1, AbsIs
    <3> QED BY <2>2, <3>1, <1>9 DEF LinkedOff
  <2>3. \A n \in DOMAIN f : n \in Int
    BY <1>1
  <2>4. (k < v /\ Adjacent(f, k, v)) => p = f[k]
    <3>1. ASSUME k < v, Adjacent(f, k, v) PROVE IsPrev(f, v, f[k])
      BY <3>1, <2>1, <2>3 DEF IsPrev, Adjacent
    <3> QED BY <3>1, <1>1, <1>2, NeighboursUnique
  <2>5. (v < k /\ Adjacent(f, v, k)) => s = f[k]
    <3>1. ASSUME v < k, Adjacent(f, v, k) PROVE IsSucc(f, v, f[k])
      BY <3>1, <2>1, <2>3 DEF IsSucc, Adjacent
    <3> QED BY <3>1, <1>1, <1>2, NeighboursUnique
  <2>6. ASSUME Valid(o, p), a = Abs(p) PROVE k < v /\ Adjacent(f, k, v)
    <3>1. p # -T
      BY <2>6, <2>1 DEF Abs, T
    <3>2. PICK n \in DOMAIN f : n < v /\ p = f[n] /\ \A j \in DOMAIN f : j < v => j <= n
      BY <3>1, <1>2 DEF IsPrev
    <3>3. n = k
      BY <3>2, <2>2, <2>3, <2>6
    <3> QED BY <3>2, <3>3, <2>3 DEF Adjacent
  <2>7. ASSUME Valid(o, s), a = Abs(s) PROVE v < k /\ Adjacent(f, v, k)
    <3>1. s # T
      BY <2>7, <2>1 DEF Abs, T
    <3>2. PICK n \in DOMAIN f : n > v /\ s = f[n] /\ \A j \in DOMAIN f : j > v => j >= n
      BY <3>1, <1>2 DEF IsSucc
    <3>3. n = k
      BY <3>2, <2>2, <2>3, <2>7
    <3> QED BY <3>2, <3>3, <2>3 DEF Adjacent
  <2> QED BY <2>1, <2>4, <2>5, <2>6, <2>7
<1>10. ASSUME NEW a \in DOMAIN o.litmap, o.litmap[a].value # v
       PROVE  /\ r.litmap[a].succ = IF o.litmap[a].value < v /\ Adjacent(f, o.litmap[a].value, v)
                                    THEN x ELSE o.litmap[a].succ
              /\ r.litmap[a].prev = IF v < o.litmap[a].value /\ Adjacent(f, v, o.litmap[a].value)
                                    THEN y ELSE o.litmap[a].prev
  <2>1. o.litmap[a].value \in Int
    BY <1>1 DEF EntrySet
  <2>2. /\ r.litmap[a].succ = IF Valid(o, p) /\ a = Abs(p) THEN x ELSE o.litmap[a].succ
        /\ r.litmap[a].prev = IF Valid(o, s) /\ a = Abs(s) THEN y ELSE o.litmap[a].prev
    BY <1>6, <1>7, <1>8
  <2> QED BY <2>1, <2>2, <1>9, <1>10
<1>11. LinksChange(o, lit, v, r)
  BY <1>10 DEF LinksChange, x, y, p, s
<1> QED BY <1>3, <1>4, <1>8, <1>11 DEF p, s

\* The entries of o but the one of v have the neighbours they have in f.
NeighboursIn(o, v, f) ==
    \A a \in DOMAIN o.litmap : o.litmap[a].value # v =>
        /\ IsPrev(f, o.litmap[a].value, o.litmap[a].prev)
        /\ IsSucc(f, o.litmap[a].value, o.litmap[a].succ)

\* The value v has the literal lit or (0) none.
ValueHas(f, v, lit) ==
    /\ lit # 0 => v \in DOMAIN f /\ f[v] = lit
    /\ lit = 0 => v \notin DOMAIN f

\* Relink gives the entries of o but the one of v the neighbours they have in q.
RelinkedTo(o, lit, v, q) ==
    \A a \in DOMAIN o.litmap : o.litmap[a].value # v =>
        /\ Relink(o, lit, v).litmap[a].prev = LitPrev(q, o.litmap[a].value)
        /\ Relink(o, lit, v).litmap[a].succ = LitSucc(q, o.litmap[a].value)

\* Relink makes the links right for a map q that differs from o in the value v,
\* which has the literal lit in q or (0) is missing. Before, the links were those
\* of a map h that also differs in v only.
LEMMA Relinked ==
    ASSUME OrderAssumption, NEW v \in Int, NEW o, LinkedOff(o, v), NEW lit \in Int,
           NEW h, SameOff(h, o.lits, v), NeighboursIn(o, v, h),
           NEW q, SameOff(o.lits, q.lits, v), DOMAIN q.lits \subseteq Lo..(Hi - 1),
           ValueHas(q.lits, v, lit)
    PROVE  RelinkedTo(o, lit, v, q)
<1> SUFFICES ASSUME NEW a \in DOMAIN o.litmap, o.litmap[a].value # v
             PROVE  /\ Relink(o, lit, v).litmap[a].prev = LitPrev(q, o.litmap[a].value)
                    /\ Relink(o, lit, v).litmap[a].succ = LitSucc(q, o.litmap[a].value)
  BY DEF RelinkedTo
<1> DEFINE k == o.litmap[a].value
           f == o.lits
           g == q.lits
           r == Relink(o, lit, v)
<1>1. k \in Int /\ DOMAIN f \subseteq Lo..(Hi - 1) /\ Lo..(Hi - 1) \subseteq Int
  BY MapParts DEF LinkedOff, EntrySet, OrderAssumption
<1>2. /\ r.litmap[a].succ = IF k < v /\ Adjacent(f, k, v)
                            THEN (IF lit # 0 THEN lit ELSE LitSucc(o, v)) ELSE o.litmap[a].succ
      /\ r.litmap[a].prev = IF v < k /\ Adjacent(f, v, k)
                            THEN (IF lit # 0 THEN lit ELSE LitPrev(o, v)) ELSE o.litmap[a].prev
  <2>1. LinksChange(o, lit, v, r)
    BY RelinkIs
  <2> HIDE DEF r
  <2> QED BY <2>1 DEF LinksChange
<1>3. IsPrev(h, k, o.litmap[a].prev) /\ IsSucc(h, k, o.litmap[a].succ)
  BY DEF NeighboursIn
<1>0. (lit # 0 => v \in DOMAIN g /\ g[v] = lit) /\ (lit = 0 => v \notin DOMAIN g)
  BY DEF ValueHas
<1> HIDE DEF k, r
<1>4. SameOff(g, h, v) /\ SameOff(g, f, v) /\ DOMAIN g \subseteq Int
  BY DEF SameOff
<1>5. (Adjacent(f, k, v) <=> Adjacent(g, k, v)) /\ (Adjacent(f, v, k) <=> Adjacent(g, v, k))
  BY <1>1, <1>4 DEF Adjacent, SameOff
<1>6. IsPrev(f, v, LitPrev(o, v)) /\ IsSucc(f, v, LitSucc(o, v))
  BY <1>1, PrevAndSucc
<1>7. IsPrev(g, k, LitPrev(q, k)) /\ IsSucc(g, k, LitSucc(q, k))
  BY <1>1, PrevAndSucc
<1> HIDE DEF f, g
<1>8. IsPrev(g, k, r.litmap[a].prev)
  <2>1. CASE ~(v < k /\ Adjacent(g, v, k))
    <3>1. r.litmap[a].prev = o.litmap[a].prev
      BY <2>1, <1>2, <1>5
    <3> QED BY <2>1, <3>1, <1>1, <1>3, <1>4, PrevOff
  <2>2. CASE v < k /\ Adjacent(g, v, k) /\ lit # 0
    <3>1. r.litmap[a].prev = lit /\ v \in DOMAIN g /\ g[v] = lit
      BY <2>2, <1>0, <1>2, <1>5
    <3> QED BY <2>2, <3>1, <1>1, <1>4, PrevOff
  <2>3. CASE v < k /\ Adjacent(g, v, k) /\ lit = 0
    <3>1. r.litmap[a].prev = LitPrev(o, v) /\ v \notin DOMAIN g
      BY <2>3, <1>0, <1>2, <1>5
    <3> QED BY <2>3, <3>1, <1>1, <1>4, <1>6, PrevOff
  <2> QED BY <2>1, <2>2, <2>3
<1>9. IsSucc(g, k, r.litmap[a].succ)
  <2>1. CASE ~(k < v /\ Adjacent(g, k, v))
    <3>1. r.litmap[a].succ = o.litmap[a].succ
      BY <2>1, <1>2, <1>5
    <3> QED BY <2>1, <3>1, <1>1, <1>3, <1>4, SuccOff
  <2>2. CASE k < v /\ Adjacent(g, k, v) /\ lit # 0
    <3>1. r.litmap[a].succ = lit /\ v \in DOMAIN g /\ g[v] = lit
      BY <2>2, <1>0, <1>2, <1>5
    <3> QED BY <2>2, <3>1, <1>1, <1>4, SuccOff
  <2>3. CASE k < v /\ Adjacent(g, k, v) /\ lit = 0
    <3>1. r.litmap[a].succ = LitSucc(o, v) /\ v \notin DOMAIN g
      BY <2>3, <1>0, <1>2, <1>5
    <3> QED BY <2>3, <3>1, <1>1, <1>4, <1>6, SuccOff
  <2> QED BY <2>1, <2>2, <2>3
<1>10. r.litmap[a].prev = LitPrev(q, k) /\ r.litmap[a].succ = LitSucc(q, k)
  BY <1>1, <1>4, <1>7, <1>8, <1>9, NeighboursUnique
<1> QED BY <1>10 DEF k, r

\* What a map that is all right says of a single value.
LEMMA MapOff ==
    ASSUME OrderAssumption, NEW o, NEW U, NEW m, MapOk(o, U, m), NEW v \in Int
    PROVE  /\ LinkedOff(o, v)
           /\ \A a \in DOMAIN o.litmap : /\ o.litmap[a].value \in Int
                                         /\ IsPrev(o.lits, o.litmap[a].value, o.litmap[a].prev)
                                         /\ IsSucc(o.lits, o.litmap[a].value, o.litmap[a].succ)
           /\ \A a, b \in DOMAIN o.litmap : o.litmap[a].value = o.litmap[b].value => a = b
           /\ \A a \in DOMAIN o.litmap : o.litmap[a].lit \notin FactLits
<1>1. o \in MapSet /\ DOMAIN o.lits \subseteq Lo..(Hi - 1) /\ EntriesLinked(o) /\ ValuesIndexed(o)
  BY DEF MapOk
<1>2. LinkedOff(o, v)
  BY <1>1 DEF LinkedOff, EntriesLinked, ValuesIndexed
<1>3. \A a \in DOMAIN o.litmap : o.litmap[a].value \in Int /\ a \in Int
  BY <1>1, MapParts DEF EntrySet
<1>4. ASSUME NEW a \in DOMAIN o.litmap
      PROVE  /\ IsPrev(o.lits, o.litmap[a].value, o.litmap[a].prev)
             /\ IsSucc(o.lits, o.litmap[a].value, o.litmap[a].succ)
  BY <1>1, <1>3, PrevAndSucc DEF EntriesLinked
<1>5. ASSUME NEW a \in DOMAIN o.litmap
      PROVE  /\ Abs(o.litmap[a].lit) = a /\ o.litmap[a].lit \notin FactLits
             /\ o.lits[o.litmap[a].value] = o.litmap[a].lit
  <2>1. a > 1 /\ a \in Int /\ o.litmap[a].lit \in {a, -a} /\ o.lits[o.litmap[a].value] = o.litmap[a].lit
    BY <1>1, <1>3 DEF EntriesLinked
  <2> QED BY <2>1, AbsIs
<1>6. ASSUME NEW a \in DOMAIN o.litmap, NEW b \in DOMAIN o.litmap, o.litmap[a].value = o.litmap[b].value
      PROVE  a = b
  BY <1>5, <1>6
<1> QED BY <1>2, <1>3, <1>4, <1>5, <1>6

\* A literal is a fact or one of an atom.
LEMMA LiteralIs ==
    ASSUME NEW A, A \subseteq Nat, NEW l \in Int
    PROVE  l \in LiteralsOf(A) <=> l \in FactLits \/ Abs(l) \in A
  BY DEF LiteralsOf, FactLits, Abs, T

\* The neighbours are literals.
LEMMA NeighboursAreLiterals ==
    ASSUME OrderAssumption, NEW o, NEW U, NEW m, MapOk(o, U, m), U \subseteq Nat, NEW v \in Int
    PROVE  /\ LitPrev(o, v) \in LiteralsOf(U) /\ LitSucc(o, v) \in LiteralsOf(U)
           /\ \A k \in DOMAIN o.lits : o.lits[k] \in LiteralsOf(U)
<1>1. o \in MapSet /\ DOMAIN o.lits \subseteq Lo..(Hi - 1) /\ ValuesIndexed(o) /\ DOMAIN o.litmap \subseteq U
  BY DEF MapOk
<1>2. o.lits \in [DOMAIN o.lits -> Int]
  BY <1>1, MapParts
<1>3. \A k \in DOMAIN o.lits : o.lits[k] \in LiteralsOf(U)
  BY <1>1, <1>2, LiteralIs DEF ValuesIndexed
<1>4. T \in LiteralsOf(U) /\ -T \in LiteralsOf(U)
  BY DEF LiteralsOf, T
<1>5. IsPrev(o.lits, v, LitPrev(o, v)) /\ IsSucc(o.lits, v, LitSucc(o, v))
  BY <1>1, PrevAndSucc
<1> QED BY <1>3, <1>4, <1>5 DEF IsPrev, IsSucc

\* More atoms have more literals.
LEMMA MoreLiterals ==
    ASSUME NEW A, NEW B, A \subseteq B
    PROVE  LiteralsOf(A) \subseteq LiteralsOf(B)
  BY DEF LiteralsOf

\* The neighbours of v do not depend on the literal of v.
LEMMA OwnNeighbours ==
    ASSUME OrderAssumption, NEW v \in Int, NEW o, NEW q, SameOff(o.lits, q.lits, v),
           DOMAIN o.lits \subseteq Lo..(Hi - 1), DOMAIN q.lits \subseteq Lo..(Hi - 1)
    PROVE  LitPrev(o, v) = LitPrev(q, v) /\ LitSucc(o, v) = LitSucc(q, v)
<1>1. /\ IsPrev(o.lits, v, LitPrev(o, v)) /\ IsSucc(o.lits, v, LitSucc(o, v))
      /\ IsPrev(q.lits, v, LitPrev(q, v)) /\ IsSucc(q.lits, v, LitSucc(q, v))
  BY PrevAndSucc
<1>2. ~(v < v)
  OBVIOUS
<1>3. IsPrev(q.lits, v, LitPrev(o, v)) /\ IsSucc(q.lits, v, LitSucc(o, v))
  BY <1>1, <1>2, PrevOff, SuccOff
<1>4. DOMAIN q.lits \subseteq Int
  BY DEF SameOff
<1> QED BY <1>1, <1>3, <1>4, NeighboursUnique

\* The literals of the values with q are those with o, apart from the value v.
LEMMA WithSameOff ==
    ASSUME NEW f, NEW v \in Int, DOMAIN f \subseteq Int, NEW y
    PROVE  SameOff(f, With(f, v, y), v) /\ SameOff(f, Without(f, v), v) /\ SameOff(f, f, v)
<1>1. SameOff(f, With(f, v, y), v)
  BY DEF SameOff, With
<1>2. SameOff(f, Without(f, v), v)
  BY DEF SameOff, Without, Restrict
<1>3. SameOff(f, f, v)
  BY DEF SameOff
<1> QED BY <1>1, <1>2, <1>3

\* The map o2 has what o has, and maybe more.
Extends(o, o2) ==
    /\ DOMAIN o.lits \subseteq DOMAIN o2.lits
    /\ \A k \in DOMAIN o.lits : o2.lits[k] = o.lits[k]
    /\ DOMAIN o.litmap \subseteq DOMAIN o2.litmap
    /\ \A a \in DOMAIN o.litmap : o2.litmap[a].lit = o.litmap[a].lit /\ o2.litmap[a].value = o.litmap[a].value

\* add_literal_ for a literal of its own keeps the order map consistent.
LEMMA AddOrderLitOk ==
    ASSUME OrderAssumption, NEW o, NEW U, NEW m, MapOk(o, U, m), NEW v \in Lo..(Hi - 1), v \notin DOMAIN o.lits,
           NEW lit \in Int, Abs(lit) > 1, Abs(lit) \notin DOMAIN o.litmap,
           NEW U2, U \subseteq U2, Abs(lit) \in U2
    PROVE  LET q == AddOrderLit(o, v, lit) IN
           /\ MapOk(q, U2, m) /\ Extends(o, q)
           /\ DOMAIN q.lits = DOMAIN o.lits \union {v} /\ q.lits[v] = lit
           /\ DOMAIN q.litmap = DOMAIN o.litmap \union {Abs(lit)}
           /\ q.factmap = o.factmap
<1> DEFINE b == Abs(lit)
           r == Relink(o, lit, v)
           e == [lit |-> lit, value |-> v, prev |-> LitPrev(o, v), succ |-> LitSucc(o, v)]
           f == With(o.lits, v, lit)
           g == With(r.litmap, b, e)
           q == [lits |-> f, litmap |-> g, factmap |-> o.factmap]
<1>1. /\ o \in MapSet /\ DOMAIN o.lits \subseteq Lo..(Hi - 1) /\ DOMAIN o.litmap \subseteq U
      /\ EntriesLinked(o) /\ ValuesIndexed(o) /\ FactsListed(o, m)
  BY DEF MapOk
<1>2. v \in Int /\ lit # 0 /\ b \in Int /\ lit \notin FactLits /\ lit \in {b, -b} /\ Lo..(Hi - 1) \subseteq Int
  <2>1. v \in Int /\ b \in Int /\ lit \notin FactLits /\ lit \in {b, -b} /\ Lo..(Hi - 1) \subseteq Int
    BY AbsIs DEF OrderAssumption
  <2> QED BY <2>1
<1>3. LinkedOff(o, v) /\ \A a \in DOMAIN o.litmap : /\ o.litmap[a].value \in Int
                                         /\ IsPrev(o.lits, o.litmap[a].value, o.litmap[a].prev)
                                         /\ IsSucc(o.lits, o.litmap[a].value, o.litmap[a].succ)
  BY <1>2, MapOff
<1>4. SameEntries(o, r) /\ LitPrev(o, v) \in Int /\ LitSucc(o, v) \in Int
  BY <1>2, <1>3, RelinkIs
<1>5. /\ o.lits \in [DOMAIN o.lits -> Int] /\ r.litmap \in [DOMAIN r.litmap -> EntrySet]
      /\ DOMAIN o.lits \subseteq Int /\ DOMAIN r.litmap \subseteq Int /\ o.factmap \in Seq(FactSet)
      /\ r = [lits |-> o.lits, litmap |-> r.litmap, factmap |-> o.factmap]
      /\ DOMAIN r.litmap = DOMAIN o.litmap
  BY <1>1, <1>4, MapParts DEF SameEntries
<1>6. AddOrderLit(o, v, lit) = q
  <2>1. AddOrderLit(o, v, lit) = SetLiteral([r EXCEPT !.litmap = With(@, b, e)], v, lit)
    BY DEF AddOrderLit
  <2> HIDE DEF r, e, b
  <2>2. [r EXCEPT !.litmap = With(@, b, e)] = [lits |-> o.lits, litmap |-> g, factmap |-> o.factmap]
    BY <1>5
  <2> HIDE DEF g
  <2>3. SetLiteral([lits |-> o.lits, litmap |-> g, factmap |-> o.factmap], v, lit)
        = [lits |-> f, litmap |-> g, factmap |-> o.factmap]
    BY DEF SetLiteral
  <2> QED BY <2>1, <2>2, <2>3
<1> HIDE DEF r
<1>7. e \in EntrySet
  BY <1>2, <1>4 DEF EntrySet
<1>8. /\ DOMAIN f = DOMAIN o.lits \union {v} /\ f[v] = lit /\ f \in [DOMAIN f -> Int]
      /\ \A k \in DOMAIN o.lits : f[k] = o.lits[k]
  <2>1. DOMAIN f = DOMAIN o.lits \union {v} /\ f[v] = lit /\ \A k \in DOMAIN o.lits : k # v => f[k] = o.lits[k]
    BY DEF With
  <2>2. f \in [DOMAIN o.lits \union {v} -> Int]
    BY <1>5, WithType
  <2> HIDE DEF f
  <2> QED BY <2>1, <2>2
<1>9. /\ DOMAIN g = DOMAIN o.litmap \union {b} /\ g[b] = e /\ g \in [DOMAIN g -> EntrySet]
      /\ \A a \in DOMAIN o.litmap : g[a] = r.litmap[a]
  <2> HIDE DEF e
  <2>1. DOMAIN g = DOMAIN r.litmap \union {b} /\ g[b] = e /\ \A a \in DOMAIN r.litmap : a # b => g[a] = r.litmap[a]
    BY DEF With
  <2>2. g \in [DOMAIN r.litmap \union {b} -> EntrySet]
    BY <1>5, <1>7, WithType
  <2> HIDE DEF g
  <2> QED BY <2>1, <2>2, <1>5
<1>10. SameOff(o.lits, f, v) /\ SameOff(o.lits, o.lits, v)
  BY <1>2, <1>5, WithSameOff
<1> HIDE DEF f, g
<1>11. q \in MapSet
  BY <1>2, <1>5, <1>8, <1>9, MapFrom
<1>12. q.lits = f /\ q.litmap = g /\ q.factmap = o.factmap
  OBVIOUS
<1> HIDE DEF q
<1>13. DOMAIN q.lits \subseteq Lo..(Hi - 1) /\ DOMAIN q.litmap \subseteq U2
  BY <1>1, <1>8, <1>9, <1>12 DEF b
<1>14. \A a \in DOMAIN o.litmap : /\ a > 1 /\ o.litmap[a].lit \in {a, -a}
                                  /\ o.litmap[a].value \in DOMAIN o.lits
                                  /\ o.litmap[a].value # v
                                  /\ o.lits[o.litmap[a].value] = o.litmap[a].lit
  BY <1>1 DEF EntriesLinked
<1>15. \A a \in DOMAIN o.litmap : g[a].lit = o.litmap[a].lit /\ g[a].value = o.litmap[a].value
  BY <1>4, <1>9 DEF SameEntries
<1>16. EntriesLinked(q)
  <2>1. \A a \in DOMAIN o.litmap : o.litmap[a].value # v =>
              /\ r.litmap[a].prev = LitPrev(q, o.litmap[a].value)
              /\ r.litmap[a].succ = LitSucc(q, o.litmap[a].value)
    <3>1. OrderAssumption /\ v \in Int /\ lit \in Int /\ LinkedOff(o, v) /\ SameOff(o.lits, q.lits, v)
      BY <1>2, <1>3, <1>10, <1>12
    <3>2. ValueHas(q.lits, v, lit)
      <4>1. lit # 0
        BY DEF Abs
      <4> QED BY <4>1, <1>8, <1>12 DEF ValueHas
    <3>3. NeighboursIn(o, v, o.lits) /\ SameOff(o.lits, o.lits, v)
      BY <1>2, <1>3, <1>10 DEF NeighboursIn
    <3>4. RelinkedTo(o, lit, v, q)
      BY ONLY <1>13, <3>1, <3>2, <3>3, Relinked
    <3> QED BY <3>4 DEF r, RelinkedTo
  <2>2. LitPrev(o, v) = LitPrev(q, v) /\ LitSucc(o, v) = LitSucc(q, v)
    BY <1>1, <1>2, <1>10, <1>12, <1>13, OwnNeighbours
  <2>3. ASSUME NEW a \in DOMAIN g
        PROVE  /\ a > 1 /\ g[a].lit \in {a, -a}
               /\ g[a].value \in DOMAIN f
               /\ f[g[a].value] = g[a].lit
               /\ g[a].prev = LitPrev(q, g[a].value)
               /\ g[a].succ = LitSucc(q, g[a].value)
    <3>1. CASE a = b
      <4>1. g[a].lit = lit /\ g[a].value = v /\ g[a].prev = LitPrev(o, v) /\ g[a].succ = LitSucc(o, v)
        BY <3>1, <1>9
      <4> QED BY <3>1, <4>1, <1>2, <1>8, <2>2
    <3>2. CASE a \in DOMAIN o.litmap
      <4>1. g[a].prev = LitPrev(q, o.litmap[a].value) /\ g[a].succ = LitSucc(q, o.litmap[a].value)
        BY <3>2, <2>1, <1>9, <1>14
      <4> QED BY <3>2, <4>1, <1>8, <1>14, <1>15
    <3> QED BY <3>1, <3>2, <1>9
  <2> QED BY <2>3, <1>12 DEF EntriesLinked
<1>17. ValuesIndexed(q)
  <2>1. ASSUME NEW k \in DOMAIN f
        PROVE  f[k] \in FactLits \/ (Abs(f[k]) \in DOMAIN g /\ g[Abs(f[k])].value = k)
    <3>1. CASE k = v
      BY <3>1, <1>8, <1>9 DEF b
    <3>2. CASE k \in DOMAIN o.lits
      <4>1. f[k] = o.lits[k]
        BY <3>2, <1>8
      <4>2. o.lits[k] \in FactLits \/ (Abs(o.lits[k]) \in DOMAIN o.litmap /\ o.litmap[Abs(o.lits[k])].value = k)
        BY <3>2, <1>1 DEF ValuesIndexed
      <4> QED BY <4>1, <4>2, <1>9, <1>15
    <3> QED BY <3>1, <3>2, <1>8
  <2> QED BY <2>1, <1>12 DEF ValuesIndexed
<1>18. FactsListed(q, m)
  BY <1>1, <1>2, <1>8, <1>12 DEF FactsListed
<1>19. Extends(o, q)
  BY <1>8, <1>9, <1>12, <1>15 DEF Extends
<1> QED BY <1>6, <1>8, <1>9, <1>11, <1>12, <1>13, <1>16, <1>17, <1>18, <1>19 DEF MapOk, b

\* The map q is o with another fact or nothing for the value v, where b is o with
\* possibly another literal for v already.
LEMMA MapChanged ==
    ASSUME OrderAssumption, NEW o, NEW U, NEW m, MapOk(o, U, m), NEW v \in Int, NEW lit \in {T, -T, 0},
           NEW b \in MapSet, SameOff(o.lits, b.lits, v), DOMAIN b.lits \subseteq Lo..(Hi - 1), b.litmap = o.litmap,
           NEW q \in MapSet, SameOff(o.lits, q.lits, v), DOMAIN q.lits \subseteq Lo..(Hi - 1),
           lit # 0 => v \in DOMAIN q.lits /\ q.lits[v] = lit,
           lit = 0 => v \notin DOMAIN q.lits,
           DOMAIN q.litmap = {a \in DOMAIN o.litmap : o.litmap[a].value # v},
           \A a \in DOMAIN q.litmap : q.litmap[a] = Relink(b, lit, v).litmap[a]
    PROVE  /\ EntriesLinked(q) /\ ValuesIndexed(q)
           /\ \A a \in DOMAIN q.litmap : /\ q.litmap[a].lit = o.litmap[a].lit
                                         /\ q.litmap[a].value = o.litmap[a].value
<1> DEFINE r == Relink(b, lit, v)
<1>1. /\ LinkedOff(o, v)
      /\ \A a \in DOMAIN o.litmap : /\ o.litmap[a].value \in Int
                                    /\ IsPrev(o.lits, o.litmap[a].value, o.litmap[a].prev)
                                    /\ IsSucc(o.lits, o.litmap[a].value, o.litmap[a].succ)
  BY MapOff
<1>2. lit \in Int /\ -T \in FactLits /\ T \in FactLits
  BY DEF T, FactLits
<1>3. LinkedOff(b, v)
  <2>1. \A a \in DOMAIN o.litmap :
         /\ a > 1 /\ o.litmap[a].lit \in {a, -a}
         /\ o.litmap[a].value # v =>
              o.litmap[a].value \in DOMAIN b.lits /\ b.lits[o.litmap[a].value] = o.litmap[a].lit
    BY <1>1 DEF LinkedOff, SameOff
  <2>2. \A k \in DOMAIN b.lits : k # v =>
         \/ b.lits[k] \in FactLits
         \/ Abs(b.lits[k]) \in DOMAIN o.litmap /\ o.litmap[Abs(b.lits[k])].value = k
    BY <1>1 DEF LinkedOff, SameOff
  <2> QED BY <2>1, <2>2 DEF LinkedOff
<1>4. SameEntries(b, r)
  BY <1>2, <1>3, RelinkIs
<1>5. SameOff(b.lits, q.lits, v)
  BY DEF SameOff
<1>6. \A a \in DOMAIN b.litmap : b.litmap[a].value # v =>
              /\ r.litmap[a].prev = LitPrev(q, b.litmap[a].value)
              /\ r.litmap[a].succ = LitSucc(q, b.litmap[a].value)
  <2>1. NeighboursIn(b, v, o.lits)
    BY <1>1 DEF NeighboursIn
  <2>2. SameOff(o.lits, b.lits, v) /\ DOMAIN q.lits \subseteq Lo..(Hi - 1) /\ ValueHas(q.lits, v, lit)
    BY DEF ValueHas
  <2> HIDE DEF r
  <2>3. RelinkedTo(b, lit, v, q)
    <3>1. OrderAssumption /\ v \in Int /\ lit \in Int /\ LinkedOff(b, v) /\ SameOff(b.lits, q.lits, v)
      BY <1>2, <1>3, <1>5
    <3> QED BY ONLY <3>1, <2>1, <2>2, Relinked
  <2> QED BY <2>3 DEF r, RelinkedTo
<1>7. \A a \in DOMAIN o.litmap : r.litmap[a].lit = o.litmap[a].lit /\ r.litmap[a].value = o.litmap[a].value
  BY <1>4 DEF SameEntries
<1> HIDE DEF r
<1>8. \A a \in DOMAIN q.litmap : q.litmap[a] = r.litmap[a]
  BY DEF r
<1>9. \A a \in DOMAIN q.litmap : /\ q.litmap[a].lit = o.litmap[a].lit
                                 /\ q.litmap[a].value = o.litmap[a].value
  BY <1>7, <1>8
<1>10. EntriesLinked(q)
  <2>1. ASSUME NEW a \in DOMAIN q.litmap
        PROVE  /\ a > 1 /\ q.litmap[a].lit \in {a, -a}
               /\ q.litmap[a].value \in DOMAIN q.lits
               /\ q.lits[q.litmap[a].value] = q.litmap[a].lit
               /\ q.litmap[a].prev = LitPrev(q, q.litmap[a].value)
               /\ q.litmap[a].succ = LitSucc(q, q.litmap[a].value)
    <3>1. a \in DOMAIN o.litmap /\ o.litmap[a].value # v
      OBVIOUS
    <3>2. /\ a > 1 /\ o.litmap[a].lit \in {a, -a} /\ o.litmap[a].value \in DOMAIN o.lits
          /\ o.lits[o.litmap[a].value] = o.litmap[a].lit
      BY <1>1, <3>1 DEF LinkedOff
    <3>3. o.litmap[a].value \in DOMAIN q.lits /\ q.lits[o.litmap[a].value] = o.litmap[a].lit
      BY <3>1, <3>2 DEF SameOff
    <3>4. q.litmap[a].prev = LitPrev(q, o.litmap[a].value) /\ q.litmap[a].succ = LitSucc(q, o.litmap[a].value)
      BY <3>1, <1>6, <1>8
    <3> QED BY <3>2, <3>3, <3>4, <1>9
  <2> QED BY <2>1 DEF EntriesLinked
<1>11. ValuesIndexed(q)
  <2>1. ASSUME NEW k \in DOMAIN q.lits
        PROVE  q.lits[k] \in FactLits \/ (Abs(q.lits[k]) \in DOMAIN q.litmap /\ q.litmap[Abs(q.lits[k])].value = k)
    <3>1. CASE k = v
      BY <3>1, <1>2
    <3>2. CASE k # v
      <4>1. k \in DOMAIN o.lits /\ q.lits[k] = o.lits[k]
        BY <3>2 DEF SameOff
      <4>2. o.lits[k] \in FactLits \/ (Abs(o.lits[k]) \in DOMAIN o.litmap /\ o.litmap[Abs(o.lits[k])].value = k)
        BY <3>2, <4>1, <1>1 DEF LinkedOff
      <4> QED BY <3>2, <4>1, <4>2, <1>9
    <3> QED BY <3>1, <3>2
  <2> QED BY <2>1 DEF ValuesIndexed
<1> QED BY <1>9, <1>10, <1>11

\* A fact appended to the list remembers the literal before it.
LEMMA FactAppended ==
    ASSUME NEW o, FactsListed(o, 0), o.factmap \in Seq(FactSet), NEW v \in Int, NEW q, SameOff(o.lits, q.lits, v),
           v \in DOMAIN o.lits => o.lits[v] \notin FactLits,
           NEW fact \in FactSet, q.factmap = Append(o.factmap, fact),
           fact.value = v, fact.lit \in FactLits, fact.prec \in Literals,
           v \in DOMAIN q.lits, q.lits[v] = fact.lit
    PROVE  FactsListed(q, 0)
<1> DEFINE n == Len(o.factmap)
           f == o.factmap
           g == q.factmap
<1>1. /\ n \in Nat /\ Len(g) = n + 1 /\ g[n + 1] = fact /\ \A i \in 1..n : g[i] = f[i]
  BY DEF FactSet
<1> HIDE DEF n, f, g
<1>2. /\ \A i \in 1..n : /\ f[i].lit \in FactLits /\ f[i].prec \in Literals
                         /\ f[i].value \in DOMAIN o.lits /\ o.lits[f[i].value] = f[i].lit
      /\ \A i, j \in 1..n : f[i].value = f[j].value => i = j
      /\ \A k \in DOMAIN o.lits : o.lits[k] \in FactLits => \E i \in 1..n : f[i].value = k
  BY DEF FactsListed, n, f
<1>3. \A i \in 1..n : f[i].value # v
  BY <1>2
<1>4. \A i \in 1..(n + 1) : i \in 1..n \/ i = n + 1
  BY <1>1
<1>5. ASSUME NEW i \in 1..(n + 1)
      PROVE  /\ g[i].lit \in FactLits /\ g[i].prec \in Literals
             /\ g[i].value \in DOMAIN q.lits /\ q.lits[g[i].value] = g[i].lit
  <2>1. CASE i \in 1..n
    <3>1. /\ f[i].lit \in FactLits /\ f[i].prec \in Literals
          /\ f[i].value \in DOMAIN o.lits /\ o.lits[f[i].value] = f[i].lit /\ f[i].value # v
      BY <2>1, <1>2, <1>3
    <3>2. f[i].value \in DOMAIN q.lits /\ q.lits[f[i].value] = f[i].lit
      BY <3>1 DEF SameOff
    <3> QED BY <3>1, <3>2, <2>1, <1>1
  <2>2. CASE i = n + 1
    BY <2>2, <1>1
  <2> QED BY <2>1, <2>2, <1>4
<1>6. ASSUME NEW i \in 1..(n + 1), NEW j \in 1..(n + 1), g[i].value = g[j].value
      PROVE  i = j
  BY <1>1, <1>2, <1>3, <1>4, <1>6
<1>7. ASSUME NEW k \in DOMAIN q.lits, q.lits[k] \in FactLits
      PROVE  \E i \in 1..(n + 1) : g[i].value = k
  <2>1. CASE k = v
    BY <2>1, <1>1
  <2>2. CASE k # v
    <3>1. k \in DOMAIN o.lits /\ o.lits[k] \in FactLits
      BY <2>2, <1>7 DEF SameOff
    <3>2. PICK i \in 1..n : f[i].value = k
      BY <3>1, <1>2
    <3>3. i \in 1..(n + 1) /\ g[i] = f[i]
      BY <1>1
    <3> QED BY <3>2, <3>3
  <2> QED BY <2>1, <2>2
<1>8. \A i : i \in (0 + 1)..Len(q.factmap) <=> i \in 1..(n + 1)
  BY <1>1 DEF g
<1> QED BY <1>5, <1>6, <1>7, <1>8 DEF FactsListed, g

\* The first fact of the list is taken out of the map.
LEMMA FactRemoved ==
    ASSUME NEW o, NEW m \in Nat, FactsListed(o, m), o.factmap \in Seq(FactSet), m < Len(o.factmap), NEW v \in Int,
           v = o.factmap[m + 1].value, NEW q, SameOff(o.lits, q.lits, v), v \notin DOMAIN q.lits, q.factmap = o.factmap
    PROVE  FactsListed(q, m + 1)
<1> DEFINE n == Len(o.factmap)
           f == o.factmap
<1>1. n \in Nat /\ m + 1 \in (m + 1)..n
  OBVIOUS
<1> HIDE DEF n, f
<1>2. /\ \A i \in (m + 1)..n : /\ f[i].lit \in FactLits /\ f[i].prec \in Literals
                         /\ f[i].value \in DOMAIN o.lits /\ o.lits[f[i].value] = f[i].lit
      /\ \A i, j \in (m + 1)..n : f[i].value = f[j].value => i = j
      /\ \A k \in DOMAIN o.lits : o.lits[k] \in FactLits => \E i \in (m + 1)..n : f[i].value = k
  BY DEF FactsListed, n, f
<1>3. \A i \in (m + 2)..n : i \in (m + 1)..n /\ i # m + 1
  BY <1>1
<1>4. \A i \in (m + 2)..n : f[i].value # v
  BY <1>1, <1>2, <1>3 DEF f
<1>5. ASSUME NEW i \in (m + 2)..n
      PROVE  /\ f[i].lit \in FactLits /\ f[i].prec \in Literals
             /\ f[i].value \in DOMAIN q.lits /\ q.lits[f[i].value] = f[i].lit
  <2>1. /\ f[i].lit \in FactLits /\ f[i].prec \in Literals /\ f[i].value # v
        /\ f[i].value \in DOMAIN o.lits /\ o.lits[f[i].value] = f[i].lit
    BY <1>2, <1>3, <1>4
  <2> QED BY <2>1 DEF SameOff
<1>6. \A i, j \in (m + 2)..n : f[i].value = f[j].value => i = j
  BY <1>2, <1>3
<1>7. ASSUME NEW k \in DOMAIN q.lits, q.lits[k] \in FactLits
      PROVE  \E i \in (m + 2)..n : f[i].value = k
  <2>1. k \in DOMAIN o.lits /\ o.lits[k] \in FactLits /\ k # v
    BY <1>7 DEF SameOff
  <2>2. PICK i \in (m + 1)..n : f[i].value = k
    BY <2>1, <1>2
  <2>3. i # m + 1
    BY <2>1, <2>2 DEF f
  <2>4. i \in (m + 2)..n
    BY <2>3, <1>1
  <2> QED BY <2>2, <2>4
<1>8. \A i : i \in (m + 1 + 1)..Len(q.factmap) <=> i \in (m + 2)..n
  BY <1>1 DEF n
<1>9. q.factmap = f
  BY DEF f
<1> QED BY <1>5, <1>6, <1>7, <1>8, <1>9 DEF FactsListed

\* A value that gets a fact.
LEMMA AddFactOk ==
    ASSUME OrderAssumption, NEW o, NEW U, MapOk(o, U, 0), U \subseteq Atoms, Atoms \subseteq Nat,
           NEW v \in Lo..(Hi - 1), v \notin DOMAIN o.lits, NEW lit \in FactLits
    PROVE  LET q == AddFact(o, v, lit) IN
           /\ MapOk(q, U, 0) /\ Extends(o, q)
           /\ DOMAIN q.lits = DOMAIN o.lits \union {v} /\ q.lits[v] = lit
           /\ DOMAIN q.litmap = DOMAIN o.litmap
<1> DEFINE r == Relink(o, lit, v)
           e == [lit |-> lit, value |-> v, prec |-> IF lit = T THEN LitSucc(o, v) ELSE LitPrev(o, v)]
           f == With(o.lits, v, lit)
           h == Append(o.factmap, e)
           q == [lits |-> f, litmap |-> r.litmap, factmap |-> h]
<1>1. /\ o \in MapSet /\ DOMAIN o.lits \subseteq Lo..(Hi - 1) /\ DOMAIN o.litmap \subseteq U
      /\ EntriesLinked(o) /\ ValuesIndexed(o) /\ FactsListed(o, 0)
  BY DEF MapOk
<1>2. v \in Int /\ lit \in Int /\ lit # 0 /\ Lo..(Hi - 1) \subseteq Int /\ lit \in {T, -T, 0}
  BY DEF OrderAssumption, FactLits, T
<1>3. LinkedOff(o, v)
  BY <1>2, MapOff
<1>4. SameEntries(o, r) /\ LitPrev(o, v) \in Int /\ LitSucc(o, v) \in Int
  BY <1>2, <1>3, RelinkIs
<1>5. /\ o.lits \in [DOMAIN o.lits -> Int] /\ r.litmap \in [DOMAIN r.litmap -> EntrySet]
      /\ DOMAIN o.lits \subseteq Int /\ DOMAIN r.litmap \subseteq Int /\ o.factmap \in Seq(FactSet)
      /\ r = [lits |-> o.lits, litmap |-> r.litmap, factmap |-> o.factmap]
      /\ DOMAIN r.litmap = DOMAIN o.litmap
  BY <1>1, <1>4, MapParts DEF SameEntries
<1>6. AddFact(o, v, lit) = q
  <2>1. AddFact(o, v, lit) = SetLiteral([r EXCEPT !.factmap = Append(@, e)], v, lit)
    BY DEF AddFact
  <2> HIDE DEF r, e
  <2>2. [r EXCEPT !.factmap = Append(@, e)] = [lits |-> o.lits, litmap |-> r.litmap, factmap |-> h]
    <3> DEFINE x == Append(r.factmap, e)
    <3>1. r.factmap = o.factmap
      BY <1>5
    <3>2. x = h
      BY <3>1
    <3>3. [r EXCEPT !.factmap = Append(@, e)] = [r EXCEPT !.factmap = x]
      OBVIOUS
    <3> HIDE DEF x, h
    <3>4. [r EXCEPT !.factmap = x] = [lits |-> o.lits, litmap |-> r.litmap, factmap |-> x]
      <4> DEFINE m == r.litmap
      <4>1. r = [lits |-> o.lits, litmap |-> m, factmap |-> o.factmap] /\ r.litmap = m
        BY <1>5
      <4> HIDE DEF m
      <4> QED BY <4>1
    <3> QED BY <3>2, <3>3, <3>4
  <2> HIDE DEF h
  <2>3. SetLiteral([lits |-> o.lits, litmap |-> r.litmap, factmap |-> h], v, lit)
        = [lits |-> f, litmap |-> r.litmap, factmap |-> h]
    BY DEF SetLiteral
  <2> QED BY <2>1, <2>2, <2>3
<1>7. r.litmap = Relink(o, lit, v).litmap
  OBVIOUS
<1> HIDE DEF r
<1>8. e \in FactSet /\ e.value = v /\ e.lit = lit /\ e.prec \in Literals
  <2>1. LitPrev(o, v) \in Literals /\ LitSucc(o, v) \in Literals
    <3>1. U \subseteq Nat
      OBVIOUS
    <3>2. LitPrev(o, v) \in LiteralsOf(U) /\ LitSucc(o, v) \in LiteralsOf(U)
      BY ONLY OrderAssumption, MapOk(o, U, 0), <3>1, <1>2, NeighboursAreLiterals
    <3>3. LiteralsOf(U) \subseteq LiteralsOf(Atoms)
      BY ONLY U \subseteq Atoms, MoreLiterals
    <3> QED BY ONLY <3>2, <3>3 DEF Literals
  <2> QED BY <1>2, <1>4, <2>1 DEF FactSet
<1> HIDE DEF e
<1>9. /\ DOMAIN f = DOMAIN o.lits \union {v} /\ f[v] = lit /\ f \in [DOMAIN f -> Int]
      /\ \A k \in DOMAIN o.lits : f[k] = o.lits[k]
  <2>1. DOMAIN f = DOMAIN o.lits \union {v} /\ f[v] = lit /\ \A k \in DOMAIN o.lits : k # v => f[k] = o.lits[k]
    BY DEF With
  <2>2. f \in [DOMAIN o.lits \union {v} -> Int]
    BY <1>2, <1>5, WithType
  <2> HIDE DEF f
  <2> QED BY <2>1, <2>2
<1>10. SameOff(o.lits, f, v) /\ SameOff(o.lits, o.lits, v)
  BY <1>2, <1>5, WithSameOff
<1> HIDE DEF f
<1>11. h \in Seq(FactSet)
  BY <1>5, <1>8, AppendProperties
<1>12. q \in MapSet
  <2> HIDE DEF h
  <2> QED BY <1>2, <1>5, <1>9, <1>11, MapFrom
<1>13. q.lits = f /\ q.litmap = r.litmap /\ q.factmap = h
  OBVIOUS
<1> HIDE DEF q
<1>14. \A a \in DOMAIN o.litmap : o.litmap[a].value # v
  BY <1>1 DEF EntriesLinked
<1>15. DOMAIN q.lits \subseteq Lo..(Hi - 1) /\ DOMAIN q.litmap \subseteq U
  BY <1>1, <1>5, <1>9, <1>13
<1>16. /\ EntriesLinked(q) /\ ValuesIndexed(q)
       /\ \A a \in DOMAIN q.litmap : /\ q.litmap[a].lit = o.litmap[a].lit
                                     /\ q.litmap[a].value = o.litmap[a].value
  <2>1. SameOff(o.lits, q.lits, v) /\ v \in DOMAIN q.lits /\ q.lits[v] = lit
    BY <1>9, <1>10, <1>13
  <2>2. DOMAIN q.litmap = {a \in DOMAIN o.litmap : o.litmap[a].value # v}
    BY <1>5, <1>13, <1>14
  <2>3. \A a \in DOMAIN q.litmap : q.litmap[a] = Relink(o, lit, v).litmap[a]
    BY <1>7, <1>13
  <2> QED BY <1>1, <1>2, <1>10, <1>12, <1>15, <2>1, <2>2, <2>3, MapChanged, SMTT(60)
<1>17. FactsListed(q, 0)
  <2>1. SameOff(o.lits, q.lits, v) /\ v \in DOMAIN q.lits /\ q.lits[v] = e.lit
    BY <1>8, <1>9, <1>10, <1>13
  <2>2. q.factmap = Append(o.factmap, e) /\ o.factmap \in Seq(FactSet)
    BY <1>5, <1>13
  <2>3. e.lit \in FactLits
    BY <1>8
  <2> QED BY <1>1, <1>2, <1>8, <2>1, <2>2, <2>3, FactAppended
<1>18. Extends(o, q)
  BY <1>5, <1>9, <1>13, <1>16 DEF Extends
<1> QED BY <1>5, <1>6, <1>9, <1>12, <1>13, <1>15, <1>16, <1>17, <1>18 DEF MapOk

\* Two components of a map are set.
SetBoth(r, y, x) == [r EXCEPT !.litmap = y, !.factmap = x]

\* Two components of a map are set.
LEMMA BothSet ==
    ASSUME NEW f, NEW g, NEW h, NEW y, NEW x, NEW r, r = [lits |-> f, litmap |-> g, factmap |-> h]
    PROVE  SetBoth(r, y, x) = [lits |-> f, litmap |-> y, factmap |-> x]
<1> DEFINE p == [r EXCEPT !.litmap = y]
<1>1. SetBoth(r, y, x) = [p EXCEPT !.factmap = x]
  BY DEF SetBoth
<1>2. p = [lits |-> f, litmap |-> y, factmap |-> h]
  OBVIOUS
<1> HIDE DEF p
<1>3. [p EXCEPT !.factmap = x] = [lits |-> f, litmap |-> y, factmap |-> x]
  BY <1>2
<1> QED BY <1>1, <1>3
\* A fixed literal is turned into a fact.
LEMMA SimplifiedAsOk ==
    ASSUME OrderAssumption, NEW o, NEW U, MapOk(o, U, 0), U \subseteq Atoms, Atoms \subseteq Nat,
           NEW l \in Int, NEW fact \in FactLits
    PROVE  LET q == SimplifiedAs(o, l, fact) IN
           /\ MapOk(q, U, 0)
           /\ Valid(o, l) => DOMAIN q.litmap = DOMAIN o.litmap \ {Abs(l)}
           /\ ~Valid(o, l) => q = o
           /\ \A a \in DOMAIN q.litmap : q.litmap[a].lit = o.litmap[a].lit /\ q.litmap[a].value = o.litmap[a].value
<1>1. CASE ~Valid(o, l)
  BY <1>1 DEF SimplifiedAs
<1>2. CASE Valid(o, l)
  <2> DEFINE c == Abs(l)
             v == o.litmap[c].value
             b == SetLiteral(o, v, fact)
             r == Relink(b, fact, v)
             e == [lit |-> fact, value |-> v, prec |-> IF fact = T THEN o.litmap[c].succ ELSE o.litmap[c].prev]
             f == With(o.lits, v, fact)
             g == Without(r.litmap, c)
             h == Append(o.factmap, e)
             q == [lits |-> f, litmap |-> g, factmap |-> h]
  <2>1. /\ o \in MapSet /\ DOMAIN o.lits \subseteq Lo..(Hi - 1) /\ DOMAIN o.litmap \subseteq U
        /\ EntriesLinked(o) /\ ValuesIndexed(o) /\ FactsListed(o, 0)
    BY DEF MapOk
  <2>2. c \in DOMAIN o.litmap /\ o.litmap[c] \in EntrySet /\ o.litmap[c].lit = l /\ Lo..(Hi - 1) \subseteq Int
    BY <1>2, <2>1, MapParts DEF Valid, OrderAssumption
  <2>3. /\ v \in DOMAIN o.lits /\ v \in Int /\ o.lits[v] = l /\ c > 1
        /\ o.litmap[c].prev = LitPrev(o, v) /\ o.litmap[c].succ = LitSucc(o, v)
    BY <2>1, <2>2 DEF EntriesLinked, EntrySet
  <2>4. fact \in Int /\ fact # 0 /\ fact \in {T, -T, 0} /\ l \notin FactLits
    <3>1. fact \in Int /\ fact # 0 /\ fact \in {T, -T, 0}
      BY DEF FactLits, T
    <3> QED BY <3>1, <2>3, AbsIs
  <2>5. /\ o.lits \in [DOMAIN o.lits -> Int] /\ o.litmap \in [DOMAIN o.litmap -> EntrySet]
        /\ DOMAIN o.lits \subseteq Int /\ DOMAIN o.litmap \subseteq Int /\ o.factmap \in Seq(FactSet)
        /\ o = [lits |-> o.lits, litmap |-> o.litmap, factmap |-> o.factmap]
    BY <2>1, MapParts
  <2>6. e \in FactSet /\ e.value = v /\ e.lit = fact /\ e.prec \in Literals
    <3>1. LitPrev(o, v) \in Literals /\ LitSucc(o, v) \in Literals
      <4>1. U \subseteq Nat
        OBVIOUS
      <4> HIDE DEF c, v
      <4> QED BY <2>3, <4>1, NeighboursAreLiterals, MoreLiterals DEF Literals
    <3>2. o.litmap[c].succ \in Int /\ o.litmap[c].prev \in Int
      BY <2>2 DEF EntrySet
    <3> QED BY <3>1, <3>2, <2>3, <2>4 DEF FactSet
  <2>7. SimplifiedAs(o, l, fact) = [r EXCEPT !.litmap = Without(@, c), !.factmap = Append(@, e)]
    BY <1>2 DEF SimplifiedAs
  <2> HIDE DEF e, c, v
  <2>8. b = [lits |-> f, litmap |-> o.litmap, factmap |-> o.factmap]
    BY <2>5 DEF SetLiteral
  <2>9. /\ DOMAIN f = DOMAIN o.lits /\ f[v] = fact /\ f \in [DOMAIN f -> Int]
        /\ \A k \in DOMAIN o.lits : k # v => f[k] = o.lits[k]
    <3>1. DOMAIN f = DOMAIN o.lits \union {v} /\ f[v] = fact /\ \A k \in DOMAIN o.lits : k # v => f[k] = o.lits[k]
      BY DEF With
    <3>2. f \in [DOMAIN o.lits \union {v} -> Int]
      BY <2>4, <2>5, WithType
    <3> HIDE DEF f
    <3> QED BY <3>1, <3>2, <2>3
  <2>10. SameOff(o.lits, f, v)
    BY <2>3, <2>5, WithSameOff
  <2> HIDE DEF f
  <2>11. b \in MapSet
    BY <2>5, <2>8, <2>9, MapFrom
  <2>12. b.lits = f /\ b.litmap = o.litmap /\ b.factmap = o.factmap
    BY <2>8
  <2>13. \A a \in DOMAIN o.litmap : o.litmap[a].value = v <=> a = c
    BY <2>2, <2>3, MapOff DEF v
  <2>14. LinkedOff(b, v)
    <3>1. LinkedOff(o, v)
      BY <2>3, MapOff
    <3>2. \A a \in DOMAIN b.litmap :
         /\ a > 1 /\ b.litmap[a].lit \in {a, -a}
         /\ b.litmap[a].value # v =>
              b.litmap[a].value \in DOMAIN b.lits /\ b.lits[b.litmap[a].value] = b.litmap[a].lit
      BY <3>1, <2>9, <2>12 DEF LinkedOff
    <3>3. \A k \in DOMAIN b.lits : k # v =>
         \/ b.lits[k] \in FactLits
         \/ Abs(b.lits[k]) \in DOMAIN b.litmap /\ b.litmap[Abs(b.lits[k])].value = k
      BY <3>1, <2>9, <2>12 DEF LinkedOff
    <3> QED BY <3>2, <3>3, <2>1, <2>9, <2>11, <2>12 DEF LinkedOff
  <2> HIDE DEF b
  <2>15. SameEntries(b, r)
    BY <2>3, <2>4, <2>14, RelinkIs
  <2>16. /\ r.litmap \in [DOMAIN r.litmap -> EntrySet] /\ DOMAIN r.litmap = DOMAIN o.litmap
         /\ r = [lits |-> f, litmap |-> r.litmap, factmap |-> o.factmap]
    BY <2>12, <2>15, MapParts DEF SameEntries
  <2>17. r.litmap = Relink(b, fact, v).litmap
    OBVIOUS
  <2> HIDE DEF r
  <2>18. SimplifiedAs(o, l, fact) = q
    <3> DEFINE x == Append(r.factmap, e)
    <3>1. r.factmap = o.factmap
      BY <2>16
    <3>2. x = h
      BY <3>1
    <3>3. [r EXCEPT !.litmap = Without(@, c), !.factmap = Append(@, e)] = SetBoth(r, g, x)
      BY DEF SetBoth
    <3> HIDE DEF x, h, g
    <3>4. SetBoth(r, g, x) = [lits |-> f, litmap |-> g, factmap |-> x]
      <4>1. r = [lits |-> f, litmap |-> r.litmap, factmap |-> o.factmap]
        BY <2>16
      <4> QED BY ONLY <4>1, BothSet
    <3> QED BY <2>7, <3>2, <3>3, <3>4
  <2>19. /\ DOMAIN g = DOMAIN o.litmap \ {c} /\ g \in [DOMAIN g -> EntrySet]
         /\ \A a \in DOMAIN g : g[a] = r.litmap[a]
    <3>1. DOMAIN g = DOMAIN r.litmap \ {c} /\ \A a \in DOMAIN g : g[a] = r.litmap[a]
      BY DEF Without, Restrict
    <3>2. g \in [DOMAIN r.litmap \ {c} -> EntrySet]
      BY <2>16, WithoutType
    <3> HIDE DEF g
    <3> QED BY <3>1, <3>2, <2>16
  <2>20. h \in Seq(FactSet)
    BY <2>5, <2>6, AppendProperties
  <2> HIDE DEF g
  <2>21. q \in MapSet
    <3> HIDE DEF h
    <3>1. DOMAIN f \subseteq Int /\ DOMAIN g \subseteq Int
      BY <2>5, <2>9, <2>19
    <3> QED BY <2>9, <2>19, <2>20, <3>1, MapFrom
  <2>22. q.lits = f /\ q.litmap = g /\ q.factmap = h
    OBVIOUS
  <2> HIDE DEF q
  <2>23. DOMAIN q.lits \subseteq Lo..(Hi - 1) /\ DOMAIN q.litmap \subseteq U
    BY <2>1, <2>9, <2>19, <2>22
  <2>24. /\ EntriesLinked(q) /\ ValuesIndexed(q)
         /\ \A a \in DOMAIN q.litmap : /\ q.litmap[a].lit = o.litmap[a].lit
                                       /\ q.litmap[a].value = o.litmap[a].value
    <3>1. SameOff(o.lits, q.lits, v) /\ v \in DOMAIN q.lits /\ q.lits[v] = fact
      BY <2>3, <2>9, <2>10, <2>22
    <3>2. DOMAIN q.litmap = {a \in DOMAIN o.litmap : o.litmap[a].value # v}
      BY <2>13, <2>19, <2>22
    <3>3. \A a \in DOMAIN q.litmap : q.litmap[a] = Relink(b, fact, v).litmap[a]
      BY <2>17, <2>19, <2>22
    <3>4. SameOff(o.lits, b.lits, v) /\ DOMAIN b.lits \subseteq Lo..(Hi - 1) /\ b.litmap = o.litmap
      BY <2>1, <2>9, <2>10, <2>12
    <3>5. DOMAIN q.lits \subseteq Lo..(Hi - 1)
      BY <2>23
    <3>6. fact # 0 => v \in DOMAIN q.lits /\ q.lits[v] = fact
      BY <3>1
    <3>7. fact = 0 => v \notin DOMAIN q.lits
      BY <2>4
    <3>8. v \in Int /\ fact \in {T, -T, 0} /\ b \in MapSet /\ q \in MapSet
      BY <2>3, <2>4, <2>11, <2>21
    <3>9. SameOff(o.lits, b.lits, v) /\ SameOff(o.lits, q.lits, v)
      BY <3>1, <3>4
    <3>10. DOMAIN b.lits \subseteq Lo..(Hi - 1) /\ b.litmap = o.litmap
      BY <3>4
    <3> QED BY ONLY OrderAssumption, MapOk(o, U, 0), <3>2, <3>3, <3>5, <3>6, <3>7, <3>8, <3>9, <3>10, MapChanged, SMTT(60)
  <2>25. FactsListed(q, 0)
    <3>1. SameOff(o.lits, q.lits, v) /\ v \in DOMAIN q.lits /\ q.lits[v] = e.lit
      BY <2>3, <2>6, <2>9, <2>10, <2>22
    <3>2. q.factmap = Append(o.factmap, e) /\ o.factmap \in Seq(FactSet)
      BY <2>5, <2>22
    <3>3. e.lit \in FactLits /\ (v \in DOMAIN o.lits => o.lits[v] \notin FactLits)
      BY <2>3, <2>4, <2>6
    <3> QED BY <2>1, <2>3, <2>6, <3>1, <3>2, <3>3, FactAppended
  <2>26. MapOk(q, U, 0)
    BY <2>21, <2>23, <2>24, <2>25 DEF MapOk
  <2>27. DOMAIN q.litmap = DOMAIN o.litmap \ {Abs(l)}
    BY <2>19, <2>22 DEF c
  <2> QED BY <1>2, <2>18, <2>24, <2>26, <2>27
<1> QED BY <1>1, <1>2

\* One component of a map is set.
LEMMA LitmapSet ==
    ASSUME NEW f, NEW g, NEW h, NEW x, NEW r, r = [lits |-> f, litmap |-> g, factmap |-> h]
    PROVE  /\ [r EXCEPT !.lits = x] = [lits |-> x, litmap |-> g, factmap |-> h]
           /\ [r EXCEPT !.litmap = x] = [lits |-> f, litmap |-> x, factmap |-> h]
           /\ [r EXCEPT !.factmap = x] = [lits |-> f, litmap |-> g, factmap |-> x]
<1>1. [r EXCEPT !.lits = x] = [lits |-> x, litmap |-> g, factmap |-> h]
  OBVIOUS
<1>2. [r EXCEPT !.litmap = x] = [lits |-> f, litmap |-> x, factmap |-> h]
  OBVIOUS
<1>3. [r EXCEPT !.factmap = x] = [lits |-> f, litmap |-> g, factmap |-> x]
  OBVIOUS
<1> QED BY <1>1, <1>2, <1>3

\* A fact that has been integrated loses its value.
UnsetFact(o, v) == UnsetLiteral(Relink(o, 0, v), v)

\* Taking the fact of a value out of the map links its neighbours.
LEMMA UnsetFactOk ==
    ASSUME OrderAssumption, NEW o, NEW U, NEW m \in Nat, MapOk(o, U, m), m < Len(o.factmap)
    PROVE  LET q == UnsetFact(o, o.factmap[m + 1].value) IN
           /\ MapOk(q, U, m + 1) /\ DOMAIN q.litmap = DOMAIN o.litmap /\ q.factmap = o.factmap
           /\ \A a \in DOMAIN o.litmap : q.litmap[a].lit = o.litmap[a].lit /\ q.litmap[a].value = o.litmap[a].value
<1> DEFINE v == o.factmap[m + 1].value
           r == Relink(o, 0, v)
           f == Without(o.lits, v)
           q == [lits |-> f, litmap |-> r.litmap, factmap |-> o.factmap]
<1>1. /\ o \in MapSet /\ DOMAIN o.lits \subseteq Lo..(Hi - 1) /\ DOMAIN o.litmap \subseteq U
      /\ EntriesLinked(o) /\ ValuesIndexed(o) /\ FactsListed(o, m)
  BY DEF MapOk
<1>2. v \in DOMAIN o.lits /\ o.lits[v] \in FactLits /\ v \in Int /\ Lo..(Hi - 1) \subseteq Int
  <2>1. o.factmap \in Seq(FactSet) /\ Lo..(Hi - 1) \subseteq Int
    BY <1>1, MapParts DEF OrderAssumption
  <2>2. m + 1 \in (m + 1)..Len(o.factmap)
    BY <2>1
  <2>3. v \in DOMAIN o.lits /\ o.lits[v] \in FactLits
    BY <1>1, <2>2 DEF FactsListed
  <2> QED BY <1>1, <2>1, <2>3
<1> HIDE DEF v
<1>3. LinkedOff(o, v) /\ \A a \in DOMAIN o.litmap : o.litmap[a].lit \notin FactLits
  BY <1>2, MapOff
<1>4. SameEntries(o, r)
  BY <1>2, <1>3, RelinkIs
<1>5. /\ o.lits \in [DOMAIN o.lits -> Int] /\ r.litmap \in [DOMAIN r.litmap -> EntrySet]
      /\ DOMAIN o.lits \subseteq Int /\ DOMAIN r.litmap \subseteq Int /\ o.factmap \in Seq(FactSet)
      /\ DOMAIN r.litmap = DOMAIN o.litmap /\ r.lits = o.lits
      /\ r = [lits |-> o.lits, litmap |-> r.litmap, factmap |-> o.factmap]
  BY <1>1, <1>4, MapParts DEF SameEntries
<1>6. UnsetFact(o, v) = q
  <2> DEFINE g == r.litmap
  <2>1. UnsetFact(o, v) = [r EXCEPT !.lits = f]
    BY <1>5 DEF UnsetFact, UnsetLiteral
  <2>2. r = [lits |-> o.lits, litmap |-> g, factmap |-> o.factmap]
    BY <1>5
  <2>3. q = [lits |-> f, litmap |-> g, factmap |-> o.factmap]
    OBVIOUS
  <2> HIDE DEF g, f, r, q
  <2> QED BY <2>1, <2>2, <2>3, LitmapSet
<1>7. r.litmap = Relink(o, 0, v).litmap
  OBVIOUS
<1> HIDE DEF r
<1>8. /\ DOMAIN f = DOMAIN o.lits \ {v} /\ f \in [DOMAIN f -> Int]
      /\ \A k \in DOMAIN f : f[k] = o.lits[k]
  <2>1. DOMAIN f = DOMAIN o.lits \ {v} /\ \A k \in DOMAIN f : f[k] = o.lits[k]
    BY DEF Without, Restrict
  <2>2. f \in [DOMAIN o.lits \ {v} -> Int]
    BY <1>5, WithoutType
  <2> HIDE DEF f
  <2> QED BY <2>1, <2>2
<1>9. SameOff(o.lits, f, v) /\ SameOff(o.lits, o.lits, v)
  BY <1>2, <1>5, WithSameOff
<1> HIDE DEF f
<1>10. q \in MapSet
  BY <1>5, <1>8, MapFrom
<1>11. q.lits = f /\ q.litmap = r.litmap /\ q.factmap = o.factmap
  OBVIOUS
<1> HIDE DEF q
<1>12. DOMAIN q.lits \subseteq Lo..(Hi - 1) /\ DOMAIN q.litmap \subseteq U
  BY <1>1, <1>5, <1>8, <1>11
<1>13. \A a \in DOMAIN o.litmap : o.litmap[a].value # v
  BY <1>1, <1>2, <1>3 DEF EntriesLinked
<1>14. /\ EntriesLinked(q) /\ ValuesIndexed(q)
       /\ \A a \in DOMAIN q.litmap : /\ q.litmap[a].lit = o.litmap[a].lit
                                     /\ q.litmap[a].value = o.litmap[a].value
  <2>1. SameOff(o.lits, q.lits, v) /\ SameOff(o.lits, o.lits, v)
    BY <1>9, <1>11
  <2>2. DOMAIN q.litmap = {a \in DOMAIN o.litmap : o.litmap[a].value # v}
    BY <1>5, <1>11, <1>13
  <2>3. \A a \in DOMAIN q.litmap : q.litmap[a] = Relink(o, 0, v).litmap[a]
    BY <1>7, <1>11
  <2>4. 0 # 0 => v \in DOMAIN q.lits /\ q.lits[v] = 0
    OBVIOUS
  <2>5. 0 = 0 => v \notin DOMAIN q.lits
    BY <1>8, <1>11
  <2>6. v \in Int /\ 0 \in {T, -T, 0} /\ o \in MapSet /\ q \in MapSet
    BY <1>1, <1>2, <1>10
  <2>7. DOMAIN o.lits \subseteq Lo..(Hi - 1) /\ o.litmap = o.litmap /\ DOMAIN q.lits \subseteq Lo..(Hi - 1)
    BY <1>1, <1>12
  <2> QED BY ONLY OrderAssumption, MapOk(o, U, m), <2>1, <2>2, <2>3, <2>4, <2>5, <2>6, <2>7, MapChanged, SMTT(60)
<1>15. FactsListed(q, m + 1)
  <2>1. SameOff(o.lits, q.lits, v) /\ v \notin DOMAIN q.lits /\ q.factmap = o.factmap
    BY <1>8, <1>9, <1>11
  <2>2. v = o.factmap[m + 1].value
    BY DEF v
  <2> QED BY <1>1, <1>2, <1>5, <2>1, <2>2, FactRemoved
<1>16. MapOk(q, U, m + 1)
  BY <1>10, <1>12, <1>14, <1>15 DEF MapOk
<1>17. v = o.factmap[m + 1].value
  BY DEF v
<1> QED BY <1>5, <1>6, <1>11, <1>14, <1>16, <1>17

\* The literal of the atom a is removed.
LEMMA RemoveLocalOk ==
    ASSUME OrderAssumption, NEW o, NEW U, MapOk(o, U, 0), NEW a \in DOMAIN o.litmap
    PROVE  LET q == RemoveLocal(o, a) IN
           MapOk(q, U, 0) /\ DOMAIN q.litmap = DOMAIN o.litmap \ {a} /\ q.factmap = o.factmap
<1> DEFINE v == o.litmap[a].value
           p == UnsetLiteral(o, v)
           f == Without(o.lits, v)
           r == Relink(p, 0, v)
           g == Without(r.litmap, a)
           q == [lits |-> f, litmap |-> g, factmap |-> o.factmap]
<1>1. /\ o \in MapSet /\ DOMAIN o.lits \subseteq Lo..(Hi - 1) /\ DOMAIN o.litmap \subseteq U
      /\ EntriesLinked(o) /\ ValuesIndexed(o) /\ FactsListed(o, 0)
  BY DEF MapOk
<1>2. /\ o.lits \in [DOMAIN o.lits -> Int] /\ o.litmap \in [DOMAIN o.litmap -> EntrySet]
      /\ DOMAIN o.lits \subseteq Int /\ DOMAIN o.litmap \subseteq Int /\ o.factmap \in Seq(FactSet)
      /\ o = [lits |-> o.lits, litmap |-> o.litmap, factmap |-> o.factmap]
  BY <1>1, MapParts
<1>3. v \in Int /\ v \in DOMAIN o.lits /\ o.lits[v] = o.litmap[a].lit
  BY <1>1, <1>2 DEF EntriesLinked, EntrySet
<1>4. RemoveLocal(o, a) = [r EXCEPT !.litmap = g]
  BY DEF RemoveLocal
<1>5. \A c \in DOMAIN o.litmap : o.litmap[c].value = v <=> c = a
  <2> HIDE DEF v
  <2>1. v = o.litmap[a].value
    BY DEF v
  <2> QED BY <1>3, <2>1, MapOff
<1> HIDE DEF v
<1>6. LinkedOff(o, v) /\ o.lits[v] \notin FactLits
  BY <1>3, MapOff
<1>7. p = [lits |-> f, litmap |-> o.litmap, factmap |-> o.factmap]
  <2>1. p = [o EXCEPT !.lits = f]
    BY DEF UnsetLiteral
  <2> HIDE DEF p, f
  <2> QED BY <1>2, <2>1, LitmapSet
<1> HIDE DEF p
<1>8. /\ DOMAIN f = DOMAIN o.lits \ {v} /\ f \in [DOMAIN f -> Int]
      /\ \A k \in DOMAIN f : f[k] = o.lits[k]
  <2>1. DOMAIN f = DOMAIN o.lits \ {v} /\ \A k \in DOMAIN f : f[k] = o.lits[k]
    BY DEF Without, Restrict
  <2>2. f \in [DOMAIN o.lits \ {v} -> Int]
    BY <1>2, WithoutType
  <2> HIDE DEF f
  <2> QED BY <2>1, <2>2
<1>9. SameOff(o.lits, f, v)
  BY <1>2, <1>3, WithSameOff
<1> HIDE DEF f
<1>10. p \in MapSet /\ p.lits = f /\ p.litmap = o.litmap /\ p.factmap = o.factmap
  <2>1. [lits |-> f, litmap |-> o.litmap, factmap |-> o.factmap] \in MapSet
    BY <1>2, <1>8, MapFrom
  <2> QED BY <1>7, <2>1
<1>11. LinkedOff(p, v)
  <2>1. \A c \in DOMAIN p.litmap :
         /\ c > 1 /\ p.litmap[c].lit \in {c, -c}
         /\ p.litmap[c].value # v => p.litmap[c].value \in DOMAIN p.lits /\ p.lits[p.litmap[c].value] = p.litmap[c].lit
    BY <1>6, <1>8, <1>10 DEF LinkedOff
  <2>2. \A k \in DOMAIN p.lits : k # v =>
         \/ p.lits[k] \in FactLits
         \/ Abs(p.lits[k]) \in DOMAIN p.litmap /\ p.litmap[Abs(p.lits[k])].value = k
    BY <1>6, <1>8, <1>10 DEF LinkedOff
  <2> QED BY <2>1, <2>2, <1>1, <1>8, <1>10 DEF LinkedOff
<1>12. SameEntries(p, r)
  BY <1>3, <1>11, RelinkIs
<1>13. /\ r.litmap \in [DOMAIN r.litmap -> EntrySet] /\ DOMAIN r.litmap = DOMAIN o.litmap
       /\ r = [lits |-> f, litmap |-> r.litmap, factmap |-> o.factmap]
  BY <1>10, <1>12, MapParts DEF SameEntries
<1>14. r.litmap = Relink(p, 0, v).litmap
  OBVIOUS
<1> HIDE DEF r
<1>15. RemoveLocal(o, a) = q
  <2> DEFINE w == r.litmap
  <2>1. r = [lits |-> f, litmap |-> w, factmap |-> o.factmap]
    BY <1>13
  <2> HIDE DEF g, w
  <2> QED BY <1>4, <2>1, LitmapSet
<1>16. /\ DOMAIN g = DOMAIN o.litmap \ {a} /\ g \in [DOMAIN g -> EntrySet]
       /\ \A c \in DOMAIN g : g[c] = r.litmap[c]
  <2>1. DOMAIN g = DOMAIN r.litmap \ {a} /\ \A c \in DOMAIN g : g[c] = r.litmap[c]
    BY DEF Without, Restrict
  <2>2. g \in [DOMAIN r.litmap \ {a} -> EntrySet]
    BY <1>13, WithoutType
  <2> HIDE DEF g
  <2> QED BY <2>1, <2>2, <1>13
<1> HIDE DEF g
<1>17. q \in MapSet
  <2>1. DOMAIN f \subseteq Int /\ DOMAIN g \subseteq Int
    BY <1>2, <1>8, <1>16
  <2> QED BY <1>2, <1>8, <1>16, <2>1, MapFrom
<1>18. q.lits = f /\ q.litmap = g /\ q.factmap = o.factmap
  OBVIOUS
<1> HIDE DEF q
<1>19. DOMAIN q.lits \subseteq Lo..(Hi - 1) /\ DOMAIN q.litmap \subseteq U
  BY <1>1, <1>8, <1>16, <1>18
<1>20. /\ EntriesLinked(q) /\ ValuesIndexed(q)
  <2>1. SameOff(o.lits, p.lits, v) /\ SameOff(o.lits, q.lits, v)
    BY <1>9, <1>10, <1>18
  <2>2. DOMAIN q.litmap = {c \in DOMAIN o.litmap : o.litmap[c].value # v}
    BY <1>5, <1>16, <1>18
  <2>3. \A c \in DOMAIN q.litmap : q.litmap[c] = Relink(p, 0, v).litmap[c]
    BY <1>14, <1>16, <1>18
  <2>4. 0 # 0 => v \in DOMAIN q.lits /\ q.lits[v] = 0
    OBVIOUS
  <2>5. 0 = 0 => v \notin DOMAIN q.lits
    BY <1>8, <1>18
  <2>6. v \in Int /\ 0 \in {T, -T, 0} /\ p \in MapSet /\ q \in MapSet
    BY <1>3, <1>10, <1>17
  <2>7. DOMAIN p.lits \subseteq Lo..(Hi - 1) /\ p.litmap = o.litmap /\ DOMAIN q.lits \subseteq Lo..(Hi - 1)
    BY <1>1, <1>8, <1>10, <1>19
  <2> QED BY ONLY OrderAssumption, MapOk(o, U, 0), <2>1, <2>2, <2>3, <2>4, <2>5, <2>6, <2>7, MapChanged, SMTT(60)
<1>21. FactsListed(q, 0)
  <2>1. \A k \in DOMAIN q.lits : k \in DOMAIN o.lits /\ q.lits[k] = o.lits[k]
    BY <1>8, <1>18
  <2>2. ASSUME NEW i \in (0 + 1)..Len(o.factmap)
        PROVE  /\ o.factmap[i].lit \in FactLits /\ o.factmap[i].prec \in Literals
               /\ o.factmap[i].value \in DOMAIN q.lits
               /\ q.lits[o.factmap[i].value] = o.factmap[i].lit
    <3>1. /\ o.factmap[i].lit \in FactLits /\ o.factmap[i].prec \in Literals
          /\ o.factmap[i].value \in DOMAIN o.lits
          /\ o.lits[o.factmap[i].value] = o.factmap[i].lit
      BY <1>1 DEF FactsListed
    <3> QED BY <3>1, <1>6, <1>8, <1>18
  <2>3. \A i, j \in (0 + 1)..Len(o.factmap) : o.factmap[i].value = o.factmap[j].value => i = j
    BY <1>1 DEF FactsListed
  <2>4. \A k \in DOMAIN q.lits :
         q.lits[k] \in FactLits => \E i \in (0 + 1)..Len(o.factmap) : o.factmap[i].value = k
    BY <1>1, <2>1 DEF FactsListed
  <2>5. q.factmap = o.factmap
    BY <1>18
  <2> QED BY <2>2, <2>3, <2>4, <2>5 DEF FactsListed
<1>22. MapOk(q, U, 0)
  BY <1>17, <1>19, <1>20, <1>21 DEF MapOk
<1> QED BY <1>15, <1>16, <1>18, <1>22

-----------------------------------------------------------------------------
(* The bounds of the levels.                                               *)

\* Atoms, the assignment of clasp, and the literals of an order map.
Assignment(A, val, lev) == A \subseteq Nat \ {0, 1} /\ val \in [A -> {-1, 0, 1}] /\ lev \in [A -> Nat]
HasLiterals(o) == DOMAIN o.lits \subseteq Int /\ \A k \in DOMAIN o.lits : o.lits[k] \in Int

\* val2 and lev2 assign more atoms, on level level, and q2 has their literals.
Grown(A, val, lev, val2, lev2, q2, level) ==
    \A a \in A :
      /\ val[a] # 0 => val2[a] = val[a] /\ lev2[a] = lev[a]
      /\ val[a] = 0 /\ val2[a] # 0 => lev2[a] = level /\ (IF val2[a] = 1 THEN a \in q2 ELSE -a \in q2)

\* Literals that are true or false stay so, others are queued.
LEMMA GrownLiterals ==
    ASSUME NEW A, NEW val, NEW lev, Assignment(A, val, lev), NEW val2, NEW lev2, Assignment(A, val2, lev2),
           NEW q2, NEW n \in Nat, n >= 2, Grown(A, val, lev, val2, lev2, q2, n - 1), NEW l \in Int, NEW i \in 2..n
    PROVE  /\ FalseIn(A, val, lev, l, i) => FalseIn(A, val2, lev2, l, i)
           /\ TrueIn(A, val, lev, l, i) => TrueIn(A, val2, lev2, l, i)
           /\ FalseIn(A, val2, lev2, l, i) => FalseIn(A, val, lev, l, i) \/ (i = n /\ -l \in q2)
           /\ TrueIn(A, val2, lev2, l, i) => TrueIn(A, val, lev, l, i) \/ (i = n /\ l \in q2)
<1>1. CASE Abs(l) \notin A
  BY <1>1 DEF FalseIn, TrueIn
<1>2. CASE Abs(l) \in A
  <2> DEFINE a == Abs(l)
  <2>1. /\ a \in A /\ a \in Nat /\ (l = a \/ l = -a)
        /\ val[a] \in {-1, 0, 1} /\ val2[a] \in {-1, 0, 1} /\ lev[a] \in Nat /\ lev2[a] \in Nat
    BY <1>2 DEF Assignment, Abs
  <2>2. /\ val[a] # 0 => val2[a] = val[a] /\ lev2[a] = lev[a]
        /\ val[a] = 0 /\ val2[a] # 0 => lev2[a] = n - 1 /\ (IF val2[a] = 1 THEN a \in q2 ELSE -a \in q2)
    BY <1>2 DEF Grown
  <2>3. /\ Truth(val, l) = IF a = T THEN l ELSE IF l > 0 THEN val[a] ELSE -val[a]
        /\ Truth(val2, l) = IF a = T THEN l ELSE IF l > 0 THEN val2[a] ELSE -val2[a]
    <3>1. l > 0 => l = a
      BY DEF Abs
    <3>2. ~(l > 0) => -l = a
      BY DEF Abs
    <3> HIDE DEF a
    <3> QED BY <3>1, <3>2 DEF Truth, a
  <2>4. /\ FalseIn(A, val, lev, l, i) <=> Truth(val, l) = -1 /\ lev[a] < i
        /\ FalseIn(A, val2, lev2, l, i) <=> Truth(val2, l) = -1 /\ lev2[a] < i
        /\ TrueIn(A, val, lev, l, i) <=> Truth(val, l) = 1 /\ lev[a] < i
        /\ TrueIn(A, val2, lev2, l, i) <=> Truth(val2, l) = 1 /\ lev2[a] < i
    BY <1>2 DEF FalseIn, TrueIn
  <2> DEFINE t == Truth(val, l)
             t2 == Truth(val2, l)
             v == val[a]
             v2 == val2[a]
             e == lev[a]
             e2 == lev2[a]
  <2>5. /\ t = IF a = T THEN l ELSE IF l > 0 THEN v ELSE -v
        /\ t2 = IF a = T THEN l ELSE IF l > 0 THEN v2 ELSE -v2
        /\ v \in {-1, 0, 1} /\ v2 \in {-1, 0, 1} /\ e \in Nat /\ e2 \in Nat
        /\ v # 0 => v2 = v /\ e2 = e
        /\ v = 0 /\ v2 # 0 => e2 = n - 1 /\ (IF v2 = 1 THEN a \in q2 ELSE -a \in q2)
    BY <2>1, <2>2, <2>3
  <2>6. /\ FalseIn(A, val, lev, l, i) <=> t = -1 /\ e < i
        /\ FalseIn(A, val2, lev2, l, i) <=> t2 = -1 /\ e2 < i
        /\ TrueIn(A, val, lev, l, i) <=> t = 1 /\ e < i
        /\ TrueIn(A, val2, lev2, l, i) <=> t2 = 1 /\ e2 < i
    BY <2>4
  <2>7. a \in Nat /\ (l = a \/ l = -a) /\ (l > 0 => l = a) /\ (~(l > 0) => l = -a)
    BY <2>1
  <2> HIDE DEF a, t, t2, v, v2, e, e2
  <2>8. t = (IF l > 0 THEN v ELSE -v) /\ t2 = (IF l > 0 THEN v2 ELSE -v2)
    <3>1. a # T
      BY <1>2 DEF a, T, Assignment
    <3> QED BY <2>5, <3>1
  <2>9. v = 0 => t = 0
    <3>1. CASE l > 0
      BY <2>8, <3>1
    <3>2. CASE ~(l > 0)
      <4>1. v \in Int /\ t = -v
        BY <2>5, <2>8, <3>2
      <4>2. \A x, y \in Int : y = -x => x + y = 0
        OBVIOUS
      <4>3. t \in Int /\ v \in Int /\ v + t = 0
        BY <4>1, <4>2
      <4> QED BY <4>3
    <3> QED BY <3>1, <3>2
  <2>10. v # 0 => t = t2 /\ e = e2
    BY <2>5, <2>8
  <2>11. v = 0 /\ t2 = -1 => e2 = n - 1 /\ -l \in q2
    BY <2>5, <2>7, <2>8
  <2>12. v = 0 /\ t2 = 1 => e2 = n - 1 /\ l \in q2
    BY <2>5, <2>7, <2>8
  <2>13. n - 1 < i => i = n
    OBVIOUS
  <2> QED BY <2>6, <2>9, <2>10, <2>11, <2>12, <2>13
<1> QED BY <1>1, <1>2

\* The invariant of the levels is kept when literals are assigned.
LEMMA LevelsGrow ==
    ASSUME NEW A, NEW val, NEW lev, Assignment(A, val, lev), NEW val2, NEW lev2, Assignment(A, val2, lev2),
           NEW o, HasLiterals(o), NEW q, NEW q2, q \subseteq q2, NEW tr, Len(tr) \in Nat,
           Len(tr) >= 2 => Grown(A, val, lev, val2, lev2, q2, Len(tr) - 1),
           LevelsOk(A, o, val, lev, q, tr)
    PROVE  LevelsOk(A, o, val2, lev2, q2, tr)
<1> DEFINE n == Len(tr)
           D == DOMAIN o.lits
           f(k) == o.lits[k]
           F1(l, i) == FalseIn(A, val, lev, l, i)
           T1(l, i) == TrueIn(A, val, lev, l, i)
           F2(l, i) == FalseIn(A, val2, lev2, l, i)
           T2(l, i) == TrueIn(A, val2, lev2, l, i)
<1>1. CASE n < 2
  <2>1. 2..Len(tr) = {}
    BY <1>1
  <2> QED BY <2>1 DEF LevelsOk, BoundsIn, LevelsIn, ClosedIn
<1>2. CASE n >= 2
  <2>1. Grown(A, val, lev, val2, lev2, q2, n - 1)
    BY <1>2
  <2>2. ASSUME NEW l \in Int, NEW i \in 2..n
        PROVE  /\ F1(l, i) => F2(l, i)
               /\ T1(l, i) => T2(l, i)
               /\ F2(l, i) => F1(l, i) \/ (i = n /\ -l \in q2)
               /\ T2(l, i) => T1(l, i) \/ (i = n /\ l \in q2)
    BY <1>2, <2>1, GrownLiterals
  <2>3. D \subseteq Int /\ \A k \in D : f(k) \in Int
    BY DEF HasLiterals
  <2>4. ASSUME NEW i \in 2..n
        PROVE  /\ tr[i].lo > tr[1].lo => tr[i].lo - 1 \in D /\ F1(f(tr[i].lo - 1), i)
               /\ tr[i].up < tr[1].up => tr[i].up \in D /\ T1(f(tr[i].up), i)
    BY DEF LevelsOk, BoundsIn
  <2>5. ASSUME NEW i \in 2..n, NEW k \in D
        PROVE  /\ F1(f(k), i) => k < tr[i].lo \/ (i = n /\ -f(k) \in q)
               /\ T1(f(k), i) => tr[i].up <= k \/ (i = n /\ f(k) \in q)
    BY DEF LevelsOk, LevelsIn
  <2>6. ASSUME NEW i \in 2..n, NEW j \in D, NEW k \in D, k < j
        PROVE  /\ T1(f(k), i) => \/ T1(f(j), i)
                                 \/ i = n /\ \E m \in D : k <= m /\ m < j /\ f(m) \in q
               /\ F1(f(j), i) => \/ F1(f(k), i)
                                 \/ i = n /\ \E m \in D : k < m /\ m <= j /\ -f(m) \in q
    BY <2>6 DEF LevelsOk, ClosedIn
  <2> HIDE DEF n, F1, T1, F2, T2
  <2>7. ASSUME NEW i \in 2..n
        PROVE  /\ tr[i].lo > tr[1].lo => tr[i].lo - 1 \in D /\ F2(f(tr[i].lo - 1), i)
               /\ tr[i].up < tr[1].up => tr[i].up \in D /\ T2(f(tr[i].up), i)
    BY <2>2, <2>3, <2>4
  <2>8. ASSUME NEW i \in 2..n, NEW k \in D
        PROVE  /\ F2(f(k), i) => k < tr[i].lo \/ (i = n /\ -f(k) \in q2)
               /\ T2(f(k), i) => tr[i].up <= k \/ (i = n /\ f(k) \in q2)
    BY <2>2, <2>3, <2>5
  <2>9. ASSUME NEW i \in 2..n, NEW j \in D, NEW k \in D, k < j
        PROVE  /\ T2(f(k), i) => \/ T2(f(j), i)
                                 \/ i = n /\ \E m \in D : k <= m /\ m < j /\ f(m) \in q2
               /\ F2(f(j), i) => \/ F2(f(k), i)
                                 \/ i = n /\ \E m \in D : k < m /\ m <= j /\ -f(m) \in q2
    <3>1. f(j) \in Int /\ f(k) \in Int /\ j \in Int /\ k \in Int /\ k <= k /\ j <= j
      BY <2>3
    <3> HIDE DEF f
    <3>2. CASE T2(f(k), i) /\ ~T1(f(k), i)
      <4>1. i = n /\ f(k) \in q2
        BY <2>2, <3>1, <3>2
      <4> QED BY <4>1, <3>1, <2>9, <2>8, <2>2, <2>6
    <3>3. CASE F2(f(j), i) /\ ~F1(f(j), i)
      <4>1. i = n /\ -f(j) \in q2
        BY <2>2, <3>1, <3>3
      <4> QED BY <4>1, <3>1, <2>9, <2>2, <2>6
    <3>4. T2(f(k), i) => \/ T2(f(j), i)
                         \/ i = n /\ \E m \in D : k <= m /\ m < j /\ f(m) \in q2
      <4>1. CASE T1(f(k), i)
        BY <4>1, <2>2, <2>6, <2>9, <3>1
      <4> QED BY <4>1, <3>2
    <3>5. F2(f(j), i) => \/ F2(f(k), i)
                         \/ i = n /\ \E m \in D : k < m /\ m <= j /\ -f(m) \in q2
      <4>1. CASE F1(f(j), i)
        BY <4>1, <2>2, <2>6, <2>9, <3>1
      <4> QED BY <4>1, <3>3
    <3> QED BY <3>4, <3>5
  <2>10. BoundsIn(A, o, val2, lev2, tr)
    BY <2>7 DEF BoundsIn, n, F2, T2
  <2>11. LevelsIn(A, o, val2, lev2, q2, tr)
    BY <2>8 DEF LevelsIn, n, F2, T2
  <2>12. ClosedIn(A, o, val2, lev2, q2, tr)
    BY <2>9 DEF ClosedIn, n, F2, T2
  <2> QED BY <2>10, <2>11, <2>12 DEF LevelsOk
<1> QED BY <1>1, <1>2

\* Above value k are only true literals, below it only false ones, unless one
\* between them is still to be propagated.
AboveDone(A, o, val, lev, q, n, k) ==
    \A j \in DOMAIN o.lits : k < j =>
      \/ TrueIn(A, val, lev, o.lits[j], n)
      \/ \E m \in DOMAIN o.lits : k < m /\ m < j /\ o.lits[m] \in q
BelowDone(A, o, val, lev, q, n, k) ==
    \A j \in DOMAIN o.lits : j < k =>
      \/ FalseIn(A, val, lev, o.lits[j], n)
      \/ \E m \in DOMAIN o.lits : j < m /\ m < k /\ -o.lits[m] \in q

\* The bounds of the last level get tighter, to values of literals.
BoundsShrink(tr, tr2) ==
    /\ Len(tr2) = Len(tr)
    /\ \A i \in 1..Len(tr) : /\ tr[i].lo \in Int /\ tr[i].up \in Int /\ tr2[i].lo \in Int /\ tr2[i].up \in Int
                             /\ tr[i].lo <= tr2[i].lo /\ tr2[i].up <= tr[i].up
                             /\ i < Len(tr) => tr2[i] = tr[i]
\* Bounds that change are those of a literal that is true or false.
BoundsBy(A, o, val, lev, tr, tr2) ==
    /\ tr2[Len(tr)].lo # tr[Len(tr)].lo =>
         /\ tr2[Len(tr)].lo - 1 \in DOMAIN o.lits
         /\ FalseIn(A, val, lev, o.lits[tr2[Len(tr)].lo - 1], Len(tr))
    /\ tr2[Len(tr)].up # tr[Len(tr)].up =>
         /\ tr2[Len(tr)].up \in DOMAIN o.lits
         /\ TrueIn(A, val, lev, o.lits[tr2[Len(tr)].up], Len(tr))
\* A literal belongs to one value.
OneValue(o, l) ==
    \A k, m \in DOMAIN o.lits : o.lits[k] \in {l, -l} /\ o.lits[m] = o.lits[k] => m = k
\* All that follows from l for the bounds b and the literals has been done.
Propagated(A, o, val, lev, q, l, n, b) ==
    /\ \A k \in DOMAIN o.lits : o.lits[k] = l => b.up <= k /\ AboveDone(A, o, val, lev, q, n, k)
    /\ \A k \in DOMAIN o.lits : o.lits[k] = -l => k < b.lo /\ BelowDone(A, o, val, lev, q, n, k)

\* The literal l is propagated: the bounds of the last level follow it.
LEMMA LevelsDequeue ==
    ASSUME NEW A, NEW val, NEW lev, NEW o, HasLiterals(o), NEW q, NEW tr, NEW tr2, LevelsOk(A, o, val, lev, q, tr),
           Len(tr) \in Nat, Len(tr) >= 2, NEW l \in Int,
           BoundsShrink(tr, tr2), BoundsBy(A, o, val, lev, tr, tr2), OneValue(o, l),
           Propagated(A, o, val, lev, q, l, Len(tr), tr2[Len(tr)])
    PROVE  LevelsOk(A, o, val, lev, q \ {l}, tr2)
<1> DEFINE n == Len(tr)
           D == DOMAIN o.lits
           f(k) == o.lits[k]
           F(x, i) == FalseIn(A, val, lev, x, i)
           U(x, i) == TrueIn(A, val, lev, x, i)
<1>1. D \subseteq Int /\ (\A k \in D : f(k) \in Int) /\ n \in Nat /\ n >= 2 /\ Len(tr2) = n /\ n \in 1..n /\ 1 \in 1..n
  BY DEF HasLiterals, BoundsShrink
<1>2. ASSUME NEW i \in 1..n
      PROVE  /\ tr[i].lo \in Int /\ tr[i].up \in Int /\ tr2[i].lo \in Int /\ tr2[i].up \in Int
             /\ tr[i].lo <= tr2[i].lo /\ tr2[i].up <= tr[i].up
             /\ i < n => tr2[i] = tr[i]
  BY DEF BoundsShrink
<1>3. /\ tr2[n].lo # tr[n].lo => tr2[n].lo - 1 \in D /\ F(f(tr2[n].lo - 1), n)
      /\ tr2[n].up # tr[n].up => tr2[n].up \in D /\ U(f(tr2[n].up), n)
  BY DEF BoundsBy
<1>4. ASSUME NEW k \in D, NEW m \in D, f(k) \in {l, -l}, f(m) = f(k)
      PROVE  m = k
  BY <1>4 DEF OneValue
<1>5. ASSUME NEW k \in D, f(k) = l
      PROVE  /\ tr2[n].up <= k
             /\ \A j \in D : k < j => U(f(j), n) \/ \E m \in D : k < m /\ m < j /\ f(m) \in q
  BY <1>5 DEF Propagated, AboveDone
<1>6. ASSUME NEW k \in D, f(k) = -l
      PROVE  /\ k < tr2[n].lo
             /\ \A j \in D : j < k => F(f(j), n) \/ \E m \in D : j < m /\ m < k /\ -f(m) \in q
  BY <1>6 DEF Propagated, BelowDone
<1>7. ASSUME NEW i \in 2..n
      PROVE  /\ tr[i].lo > tr[1].lo => tr[i].lo - 1 \in D /\ F(f(tr[i].lo - 1), i)
             /\ tr[i].up < tr[1].up => tr[i].up \in D /\ U(f(tr[i].up), i)
  BY DEF LevelsOk, BoundsIn
<1>8. ASSUME NEW i \in 2..n, NEW k \in D
      PROVE  /\ F(f(k), i) => k < tr[i].lo \/ (i = n /\ -f(k) \in q)
             /\ U(f(k), i) => tr[i].up <= k \/ (i = n /\ f(k) \in q)
  BY DEF LevelsOk, LevelsIn
<1>9. ASSUME NEW i \in 2..n, NEW j \in D, NEW k \in D, k < j
      PROVE  /\ U(f(k), i) => \/ U(f(j), i)
                              \/ i = n /\ \E m \in D : k <= m /\ m < j /\ f(m) \in q
             /\ F(f(j), i) => \/ F(f(k), i)
                              \/ i = n /\ \E m \in D : k < m /\ m <= j /\ -f(m) \in q
  BY <1>9 DEF LevelsOk, ClosedIn
<1> HIDE DEF n, F, U
<1>10. ASSUME NEW i \in 2..n
       PROVE  /\ tr2[i].lo > tr2[1].lo => tr2[i].lo - 1 \in D /\ F(f(tr2[i].lo - 1), i)
              /\ tr2[i].up < tr2[1].up => tr2[i].up \in D /\ U(f(tr2[i].up), i)
  <2>1. i \in 1..n /\ 1 < n /\ (i < n \/ i = n) /\ tr2[1] = tr[1]
    BY <1>1, <1>2
  <2>2. CASE i < n
    BY <1>2, <1>7, <2>1, <2>2
  <2>3. CASE i = n
    BY <1>3, <1>7, <2>1, <2>3
  <2> QED BY <2>1, <2>2, <2>3
<1>11. ASSUME NEW i \in 2..n, NEW k \in D
       PROVE  /\ F(f(k), i) => k < tr2[i].lo \/ (i = n /\ -f(k) \in q \ {l})
              /\ U(f(k), i) => tr2[i].up <= k \/ (i = n /\ f(k) \in q \ {l})
  <2>1. i \in 1..n /\ k \in Int /\ f(k) \in Int
    BY <1>1
  <2>2. /\ tr[i].lo \in Int /\ tr[i].up \in Int /\ tr2[i].lo \in Int /\ tr2[i].up \in Int
        /\ tr[i].lo <= tr2[i].lo /\ tr2[i].up <= tr[i].up
    BY <1>2, <2>1
  <2> HIDE DEF f
  <2>3. -f(k) = l => f(k) = -l
    BY <2>1
  <2>4. F(f(k), i) => k < tr2[i].lo \/ (i = n /\ -f(k) \in q \ {l})
    <3>1. CASE -f(k) = l
      <4>1. f(k) = -l
        BY <2>3, <3>1
      <4>2. k < tr2[n].lo
        BY <1>6, <4>1
      <4>3. F(f(k), i) => k < tr[i].lo \/ i = n
        BY <1>8
      <4> QED BY <2>1, <2>2, <4>2, <4>3
    <3>2. CASE -f(k) # l
      <4>1. F(f(k), i) => k < tr[i].lo \/ (i = n /\ -f(k) \in q)
        BY <1>8
      <4> QED BY <2>1, <2>2, <3>2, <4>1
    <3> QED BY <3>1, <3>2
  <2>5. U(f(k), i) => tr2[i].up <= k \/ (i = n /\ f(k) \in q \ {l})
    BY <1>5, <1>8, <2>1, <2>2
  <2> QED BY <2>4, <2>5
<1>12. ASSUME NEW i \in 2..n, NEW j \in D, NEW k \in D, k < j
       PROVE  /\ U(f(k), i) => \/ U(f(j), i)
                               \/ i = n /\ \E m \in D : k <= m /\ m < j /\ f(m) \in q \ {l}
              /\ F(f(j), i) => \/ F(f(k), i)
                               \/ i = n /\ \E m \in D : k < m /\ m <= j /\ -f(m) \in q \ {l}
  <2>1. ASSUME U(f(k), i), ~U(f(j), i)
        PROVE  i = n /\ \E m \in D : k <= m /\ m < j /\ f(m) \in q \ {l}
    <3>1. PICK m \in D : k <= m /\ m < j /\ f(m) \in q
      BY <1>9, <1>12, <2>1
    <3>2. i = n
      BY <1>9, <1>12, <2>1
    <3>3. CASE f(m) = l
      <4>1. PICK p \in D : m < p /\ p < j /\ f(p) \in q
        BY <1>5, <2>1, <3>1, <3>2, <3>3
      <4>2. f(p) # l
        <5>1. p # m
          BY <1>1, <4>1
        <5> QED BY <1>4, <3>3, <5>1
      <4>3. k <= p /\ p < j
        BY <1>1, <3>1, <4>1
      <4> QED BY <3>2, <4>1, <4>2, <4>3
    <3> QED BY <3>1, <3>2, <3>3
  <2>2. ASSUME F(f(j), i), ~F(f(k), i)
        PROVE  i = n /\ \E m \in D : k < m /\ m <= j /\ -f(m) \in q \ {l}
    <3>1. PICK m \in D : k < m /\ m <= j /\ -f(m) \in q
      BY <1>9, <1>12, <2>2
    <3>2. i = n
      BY <1>9, <1>12, <2>2
    <3>3. CASE -f(m) = l
      <4>1. f(m) = -l /\ f(m) \in Int
        BY <1>1, <3>3
      <4>2. PICK p \in D : k < p /\ p < m /\ -f(p) \in q
        BY <1>6, <2>2, <3>1, <3>2, <4>1
      <4>3. -f(p) # l
        <5>1. p # m /\ f(p) \in Int
          BY <1>1, <4>2
        <5>2. f(p) # -l
          BY <1>4, <4>1, <5>1
        <5> HIDE DEF f
        <5> QED BY <5>1, <5>2
      <4>4. k < p /\ p <= j
        BY <1>1, <3>1, <4>2
      <4> QED BY <3>2, <4>2, <4>3, <4>4
    <3> QED BY <3>1, <3>2, <3>3
  <2> QED BY <2>1, <2>2
<1>13. BoundsIn(A, o, val, lev, tr2)
  BY <1>10, <1>1 DEF BoundsIn, F, U
<1>14. LevelsIn(A, o, val, lev, q \ {l}, tr2)
  BY <1>11, <1>1 DEF LevelsIn, F, U
<1>15. ClosedIn(A, o, val, lev, q \ {l}, tr2)
  BY <1>12, <1>1 DEF ClosedIn, F, U
<1> QED BY <1>13, <1>14, <1>15 DEF LevelsOk

\* The literal lit of value v is added.
Inserted(o, o2, v, lit) ==
    /\ v \notin DOMAIN o.lits /\ DOMAIN o2.lits = DOMAIN o.lits \union {v} /\ o2.lits[v] = lit
    /\ \A k \in DOMAIN o.lits : o2.lits[k] = o.lits[k]
\* It is propagated if it has a value, and fits between the other literals.
Fitting(A, o, val, lev, q, tr, v, lit) ==
    \A i \in 2..Len(tr) :
      /\ TrueIn(A, val, lev, lit, i) => i = Len(tr) /\ lit \in q
      /\ FalseIn(A, val, lev, lit, i) => i = Len(tr) /\ -lit \in q
      /\ \A k \in DOMAIN o.lits :
           /\ k < v /\ TrueIn(A, val, lev, o.lits[k], i) =>
                TrueIn(A, val, lev, lit, i) \/ (i = Len(tr) /\ o.lits[k] \in q)
           /\ k > v /\ FalseIn(A, val, lev, o.lits[k], i) =>
                FalseIn(A, val, lev, lit, i) \/ (i = Len(tr) /\ -o.lits[k] \in q)

\* A literal that fits is inserted for a value: the levels stay as they should be.
LEMMA LevelsInsert ==
    ASSUME NEW A, NEW val, NEW lev, NEW o, HasLiterals(o), NEW q, NEW tr, LevelsOk(A, o, val, lev, q, tr),
           Len(tr) \in Nat, NEW v \in Int, NEW lit \in Int, NEW o2, Inserted(o, o2, v, lit),
           Fitting(A, o, val, lev, q, tr, v, lit)
    PROVE  LevelsOk(A, o2, val, lev, q, tr)
<1> DEFINE n == Len(tr)
           D == DOMAIN o.lits
           f(k) == o.lits[k]
           D2 == DOMAIN o2.lits
           g(k) == o2.lits[k]
           F(x, i) == FalseIn(A, val, lev, x, i)
           U(x, i) == TrueIn(A, val, lev, x, i)
<1>1. /\ D \subseteq Int /\ (\A k \in D : f(k) \in Int) /\ n \in Nat
      /\ D2 = D \union {v} /\ v \notin D /\ g(v) = lit /\ \A k \in D : g(k) = f(k)
  BY DEF HasLiterals, Inserted
<1>2. ASSUME NEW i \in 2..n
      PROVE  /\ U(lit, i) => i = n /\ lit \in q
             /\ F(lit, i) => i = n /\ -lit \in q
  BY DEF Fitting
<1>3. ASSUME NEW i \in 2..n, NEW k \in D
      PROVE  /\ k < v /\ U(f(k), i) => U(lit, i) \/ (i = n /\ f(k) \in q)
             /\ k > v /\ F(f(k), i) => F(lit, i) \/ (i = n /\ -f(k) \in q)
  BY DEF Fitting
<1>4. ASSUME NEW i \in 2..n
      PROVE  /\ tr[i].lo > tr[1].lo => tr[i].lo - 1 \in D /\ F(f(tr[i].lo - 1), i)
             /\ tr[i].up < tr[1].up => tr[i].up \in D /\ U(f(tr[i].up), i)
  BY DEF LevelsOk, BoundsIn
<1>5. ASSUME NEW i \in 2..n, NEW k \in D
      PROVE  /\ F(f(k), i) => k < tr[i].lo \/ (i = n /\ -f(k) \in q)
             /\ U(f(k), i) => tr[i].up <= k \/ (i = n /\ f(k) \in q)
  BY DEF LevelsOk, LevelsIn
<1>6. ASSUME NEW i \in 2..n, NEW j \in D, NEW k \in D, k < j
      PROVE  /\ U(f(k), i) => \/ U(f(j), i)
                              \/ i = n /\ \E m \in D : k <= m /\ m < j /\ f(m) \in q
             /\ F(f(j), i) => \/ F(f(k), i)
                              \/ i = n /\ \E m \in D : k < m /\ m <= j /\ -f(m) \in q
  BY <1>6 DEF LevelsOk, ClosedIn
<1> HIDE DEF n, F, U, D, D2, f, g
<1>7. ASSUME NEW i \in 2..n
      PROVE  /\ tr[i].lo > tr[1].lo => tr[i].lo - 1 \in D2 /\ F(g(tr[i].lo - 1), i)
             /\ tr[i].up < tr[1].up => tr[i].up \in D2 /\ U(g(tr[i].up), i)
  BY <1>1, <1>4
<1>8. ASSUME NEW i \in 2..n, NEW k \in D2
      PROVE  /\ F(g(k), i) => k < tr[i].lo \/ (i = n /\ -g(k) \in q)
             /\ U(g(k), i) => tr[i].up <= k \/ (i = n /\ g(k) \in q)
  <2>1. CASE k = v
    BY <1>1, <1>2, <2>1
  <2>2. CASE k # v
    BY <1>1, <1>5, <2>2
  <2> QED BY <2>1, <2>2
<1>9. ASSUME NEW i \in 2..n, NEW j \in D2, NEW k \in D2, k < j
      PROVE  /\ U(g(k), i) => \/ U(g(j), i)
                              \/ i = n /\ \E m \in D2 : k <= m /\ m < j /\ g(m) \in q
             /\ F(g(j), i) => \/ F(g(k), i)
                              \/ i = n /\ \E m \in D2 : k < m /\ m <= j /\ -g(m) \in q
  <2>1. j \in Int /\ k \in Int /\ k <= k /\ j <= j
    BY <1>1
  <2>2. CASE k = v
    <3>1. j \in D /\ j > v /\ g(j) = f(j) /\ g(k) = lit
      BY <1>1, <1>9, <2>1, <2>2
    <3>2. U(g(k), i) => i = n /\ g(k) \in q
      BY <1>2, <3>1
    <3>3. F(g(j), i) => F(g(k), i) \/ (i = n /\ -g(j) \in q)
      BY <1>3, <3>1
    <3> QED BY <3>2, <3>3, <2>1, <1>9
  <2>3. CASE j = v
    <3>1. k \in D /\ k < v /\ g(k) = f(k) /\ g(j) = lit
      BY <1>1, <1>9, <2>1, <2>3
    <3>2. F(g(j), i) => i = n /\ -g(j) \in q
      BY <1>2, <3>1
    <3>3. U(g(k), i) => U(g(j), i) \/ (i = n /\ g(k) \in q)
      BY <1>3, <3>1
    <3> QED BY <3>2, <3>3, <2>1, <1>9
  <2>4. CASE j # v /\ k # v
    <3>1. j \in D /\ k \in D /\ g(j) = f(j) /\ g(k) = f(k)
      BY <1>1, <2>4
    <3>2. \A m \in D : m \in D2 /\ g(m) = f(m)
      BY <1>1
    <3>3. U(g(k), i) => \/ U(g(j), i)
                        \/ i = n /\ \E m \in D2 : k <= m /\ m < j /\ g(m) \in q
      BY <3>1, <3>2, <1>6, <1>9
    <3>4. F(g(j), i) => \/ F(g(k), i)
                        \/ i = n /\ \E m \in D2 : k < m /\ m <= j /\ -g(m) \in q
      BY <3>1, <3>2, <1>6, <1>9
    <3> QED BY <3>3, <3>4
  <2> QED BY <2>2, <2>3, <2>4
<1>10. BoundsIn(A, o2, val, lev, tr)
  BY <1>7 DEF BoundsIn, F, U, D2, g, n
<1>11. LevelsIn(A, o2, val, lev, q, tr)
  BY <1>8 DEF LevelsIn, F, U, D2, g, n
<1>12. ClosedIn(A, o2, val, lev, q, tr)
  BY <1>9 DEF ClosedIn, F, U, D2, g, n
<1> QED BY <1>10, <1>11, <1>12 DEF LevelsOk

\* A level is added.
LEMMA LevelsPush ==
    ASSUME NEW A, NEW val, NEW lev, Assignment(A, val, lev), NEW o, HasLiterals(o),
           NEW tr \in Seq(Bounds), Len(tr) >= 1,
           LevelsOk(A, o, val, lev, {}, tr), \A a \in A : lev[a] < Len(tr),
           Len(tr) = 1 => \A k \in DOMAIN o.lits : /\ ~TrueIn(A, val, lev, o.lits[k], 2)
                                                   /\ ~FalseIn(A, val, lev, o.lits[k], 2)
    PROVE  LevelsOk(A, o, val, lev, {}, Append(tr, tr[Len(tr)]))
<1> DEFINE n == Len(tr)
           D == DOMAIN o.lits
           f(k) == o.lits[k]
           F(x, i) == FalseIn(A, val, lev, x, i)
           U(x, i) == TrueIn(A, val, lev, x, i)
           t2 == Append(tr, tr[n])
<1>1. /\ n \in Nat /\ n >= 1 /\ Len(t2) = n + 1 /\ t2[n + 1] = tr[n] /\ t2[1] = tr[1]
      /\ \A i \in 1..n : t2[i] = tr[i]
  BY AppendProperties
<1>2. ASSUME NEW x
      PROVE  (F(x, n + 1) <=> F(x, n)) /\ (U(x, n + 1) <=> U(x, n))
  <2>1. ASSUME Abs(x) \in A
        PROVE  lev[Abs(x)] < n + 1 <=> lev[Abs(x)] < n
    <3>1. lev[Abs(x)] \in Nat /\ lev[Abs(x)] < n
      BY <2>1 DEF Assignment
    <3> QED BY <1>1, <3>1
  <2> QED BY <2>1 DEF FalseIn, TrueIn
<1>3. ASSUME NEW i \in 2..n
      PROVE  /\ tr[i].lo > tr[1].lo => tr[i].lo - 1 \in D /\ F(f(tr[i].lo - 1), i)
             /\ tr[i].up < tr[1].up => tr[i].up \in D /\ U(f(tr[i].up), i)
  BY DEF LevelsOk, BoundsIn
<1>4. ASSUME NEW i \in 2..n, NEW k \in D
      PROVE  /\ F(f(k), i) => k < tr[i].lo
             /\ U(f(k), i) => tr[i].up <= k
  BY DEF LevelsOk, LevelsIn
<1>5. ASSUME NEW i \in 2..n, NEW j \in D, NEW k \in D, k < j
      PROVE  /\ U(f(k), i) => U(f(j), i)
             /\ F(f(j), i) => F(f(k), i)
  BY <1>5 DEF LevelsOk, ClosedIn
<1>6. n = 1 => \A k \in D : ~U(f(k), n + 1) /\ ~F(f(k), n + 1)
  OBVIOUS
<1> HIDE DEF n, F, U, t2
<1>7. ASSUME NEW i \in 2..(n + 1)
      PROVE  \/ i \in 2..n /\ t2[i] = tr[i]
             \/ n >= 2 /\ n \in 2..n /\ i = n + 1 /\ t2[i] = tr[n]
             \/ n = 1 /\ i = n + 1 /\ t2[i] = tr[1]
  BY <1>1
<1>8. ASSUME NEW i \in 2..(n + 1)
      PROVE  /\ t2[i].lo > t2[1].lo => t2[i].lo - 1 \in D /\ F(f(t2[i].lo - 1), i)
             /\ t2[i].up < t2[1].up => t2[i].up \in D /\ U(f(t2[i].up), i)
  <2>1. CASE i \in 2..n /\ t2[i] = tr[i]
    BY <1>1, <1>3, <2>1
  <2>2. CASE n \in 2..n /\ i = n + 1 /\ t2[i] = tr[n]
    BY <1>1, <1>2, <1>3, <2>2
  <2>3. CASE t2[i] = tr[1]
    <3>1. t2[i] = t2[1]
      BY <1>1, <2>3
    <3>2. t2[1].lo \in Int /\ t2[1].up \in Int
      <4>1. tr[1] \in Bounds
        BY <1>1 DEF n
      <4> QED BY <4>1, <1>1 DEF Bounds
    <3> QED BY <3>1, <3>2
  <2> QED BY <1>7, <2>1, <2>2, <2>3
<1>9. ASSUME NEW i \in 2..(n + 1), NEW k \in D
      PROVE  /\ F(f(k), i) => k < t2[i].lo
             /\ U(f(k), i) => t2[i].up <= k
  <2>1. CASE i \in 2..n /\ t2[i] = tr[i]
    BY <1>4, <2>1
  <2>2. CASE n \in 2..n /\ i = n + 1 /\ t2[i] = tr[n]
    BY <1>2, <1>4, <2>2
  <2>3. CASE n = 1 /\ i = n + 1
    BY <1>6, <2>3
  <2> QED BY <1>7, <2>1, <2>2, <2>3
<1>10. ASSUME NEW i \in 2..(n + 1), NEW j \in D, NEW k \in D, k < j
       PROVE  /\ U(f(k), i) => U(f(j), i)
              /\ F(f(j), i) => F(f(k), i)
  <2>1. CASE i \in 2..n
    BY <1>5, <1>10, <2>1
  <2>2. CASE n \in 2..n /\ i = n + 1
    BY <1>2, <1>5, <1>10, <2>2
  <2>3. CASE n = 1 /\ i = n + 1
    BY <1>6, <2>3
  <2> QED BY <1>7, <2>1, <2>2, <2>3
<1>11. BoundsIn(A, o, val, lev, t2)
  BY <1>1, <1>8 DEF BoundsIn, F, U
<1>12. LevelsIn(A, o, val, lev, {}, t2)
  BY <1>1, <1>9 DEF LevelsIn, F, U
<1>13. ClosedIn(A, o, val, lev, {}, t2)
  BY <1>1, <1>10 DEF ClosedIn, F, U
<1> QED BY <1>11, <1>12, <1>13 DEF LevelsOk, t2, n

\* The last level is removed.
LEMMA LevelsPop ==
    ASSUME NEW A, NEW val, NEW lev, Assignment(A, val, lev), NEW o, HasLiterals(o), NEW q,
           NEW S, NEW tr \in Seq(S), Len(tr) >= 2,
           LevelsOk(A, o, val, lev, q, tr),
           NEW val2, NEW lev2,
           \A a \in A : IF lev[a] = Len(tr) - 1 THEN val2[a] = 0 ELSE val2[a] = val[a] /\ lev2[a] = lev[a]
    PROVE  LevelsOk(A, o, val2, lev2, {}, SubSeq(tr, 1, Len(tr) - 1))
<1> DEFINE n == Len(tr)
           D == DOMAIN o.lits
           f(k) == o.lits[k]
           F(x, i) == FalseIn(A, val, lev, x, i)
           U(x, i) == TrueIn(A, val, lev, x, i)
           F2(x, i) == FalseIn(A, val2, lev2, x, i)
           U2(x, i) == TrueIn(A, val2, lev2, x, i)
           t2 == SubSeq(tr, 1, n - 1)
<1>1. /\ n \in Nat /\ n >= 2 /\ Len(t2) = n - 1 /\ t2[1] = tr[1]
      /\ \A i \in 1..(n - 1) : t2[i] = tr[i]
  <2>1. n \in Nat /\ n >= 2
    OBVIOUS
  <2>2. \A i \in 1..(n - 1) : tr[i] \in S
    OBVIOUS
  <2>3. Len(t2) = n - 1 /\ \A i \in 1..(n - 1) : t2[i] = tr[1 + i - 1]
    BY <2>1, <2>2, SubSeqProperties
  <2>4. 1 \in 1..(n - 1)
    BY <2>1
  <2> QED BY <2>1, <2>3, <2>4
<1>2. ASSUME NEW x \in Int, NEW i \in 2..(n - 1)
      PROVE  (F2(x, i) <=> F(x, i)) /\ (U2(x, i) <=> U(x, i))
  <2>1. CASE Abs(x) \notin A
    BY <2>1 DEF FalseIn, TrueIn
  <2>2. CASE Abs(x) \in A
    <3> DEFINE a == Abs(x)
    <3>1. a # T /\ a \in Nat /\ lev[a] \in Nat /\ (x = a \/ x = -a)
      BY <2>2 DEF Assignment, Abs, T
    <3>2. CASE lev[a] = n - 1
      <4>1. val2[a] = 0 /\ ~(lev[a] < i)
        BY <1>1, <2>2, <3>1, <3>2
      <4>2. Truth(val2, x) = IF x > 0 THEN val2[a] ELSE -val2[a]
        <5>1. x > 0 => x = a
          BY DEF Abs
        <5>2. ~(x > 0) => -x = a
          BY DEF Abs
        <5>3. Truth(val2, x) = IF x > 0 THEN val2[x] ELSE -val2[-x]
          BY ONLY <3>1 DEF Truth, a, Abs, T
        <5> HIDE DEF a
        <5> QED BY ONLY <5>1, <5>2, <5>3
      <4>3. Truth(val2, x) # 1 /\ Truth(val2, x) # -1
        <5> HIDE DEF a
        <5>1. \A y, z \in Int : y = 0 /\ z = -y => z # 1 /\ z # -1
          OBVIOUS
        <5>2. val2[a] \in Int /\ -val2[a] \in Int
          BY <4>1
        <5>3. CASE x > 0
          BY <4>1, <4>2, <5>3
        <5>4. CASE ~(x > 0)
          BY <4>1, <4>2, <5>1, <5>2, <5>4
        <5> QED BY <5>3, <5>4
      <4> QED BY <4>1, <4>3 DEF FalseIn, TrueIn
    <3>3. CASE lev[a] # n - 1
      <4>1. val2[a] = val[a] /\ lev2[a] = lev[a]
        BY <2>2, <3>3
      <4>2. Truth(val2, x) = Truth(val, x)
        <5>1. x > 0 => x = a
          BY DEF Abs
        <5>2. ~(x > 0) => -x = a
          BY DEF Abs
        <5> HIDE DEF a
        <5> QED BY <3>1, <4>1, <5>1, <5>2 DEF Truth, a
      <4> QED BY <4>1, <4>2 DEF FalseIn, TrueIn
    <3> QED BY <3>2, <3>3
  <2> QED BY ONLY <2>1, <2>2
<1>3. ASSUME NEW i \in 2..(n - 1)
      PROVE  i \in 2..n /\ i # n /\ t2[i] = tr[i] /\ \A k \in D : f(k) \in Int
  <2>1. i \in 2..n /\ i # n /\ i \in 1..(n - 1)
    <3>1. n \in Nat /\ i \in 2..(n - 1)
      BY <1>1
    <3> HIDE DEF n
    <3> QED BY <3>1
  <2>2. \A k \in D : f(k) \in Int
    BY DEF HasLiterals
  <2> QED BY <1>1, <2>1, <2>2
<1>4. ASSUME NEW i \in 2..(n - 1)
      PROVE  /\ tr[i].lo > tr[1].lo => tr[i].lo - 1 \in D /\ F(f(tr[i].lo - 1), i)
             /\ tr[i].up < tr[1].up => tr[i].up \in D /\ U(f(tr[i].up), i)
  BY <1>3 DEF LevelsOk, BoundsIn
<1>5. ASSUME NEW i \in 2..(n - 1), NEW k \in D
      PROVE  /\ F(f(k), i) => k < tr[i].lo
             /\ U(f(k), i) => tr[i].up <= k
  BY <1>3 DEF LevelsOk, LevelsIn
<1>6. ASSUME NEW i \in 2..(n - 1), NEW j \in D, NEW k \in D, k < j
      PROVE  /\ U(f(k), i) => U(f(j), i)
             /\ F(f(j), i) => F(f(k), i)
  BY <1>3, <1>6 DEF LevelsOk, ClosedIn
<1> HIDE DEF n, F, U, F2, U2, t2
<1>7. ASSUME NEW i \in 2..(n - 1)
      PROVE  /\ t2[i].lo > t2[1].lo => t2[i].lo - 1 \in D /\ F2(f(t2[i].lo - 1), i)
             /\ t2[i].up < t2[1].up => t2[i].up \in D /\ U2(f(t2[i].up), i)
  BY <1>1, <1>2, <1>3, <1>4
<1>8. ASSUME NEW i \in 2..(n - 1), NEW k \in D
      PROVE  /\ F2(f(k), i) => k < t2[i].lo
             /\ U2(f(k), i) => t2[i].up <= k
  BY <1>2, <1>3, <1>5
<1>9. ASSUME NEW i \in 2..(n - 1), NEW j \in D, NEW k \in D, k < j
      PROVE  /\ U2(f(k), i) => U2(f(j), i)
             /\ F2(f(j), i) => F2(f(k), i)
  BY <1>2, <1>3, <1>6, <1>9
<1>10. BoundsIn(A, o, val2, lev2, t2)
  BY <1>1, <1>7 DEF BoundsIn, F2, U2
<1>11. LevelsIn(A, o, val2, lev2, {}, t2)
  BY <1>1, <1>8 DEF LevelsIn, F2, U2
<1>12. ClosedIn(A, o, val2, lev2, {}, t2)
  BY <1>1, <1>9 DEF ClosedIn, F2, U2
<1> QED BY <1>10, <1>11, <1>12 DEF LevelsOk, t2, n

-----------------------------------------------------------------------------
(* What is known of a state.                                               *)

\* The values of literals.
LEMMA NegatedTruth ==
    \A x \in {-1, 0, 1} : -x \in {-1, 0, 1} /\ -x \in Int /\ (x = 0 <=> -x = 0) /\ (-x = 1 <=> x = -1) /\ (-x = -1 <=> x = 1)
<1> SUFFICES ASSUME NEW x \in {-1, 0, 1}
             PROVE  -x \in {-1, 0, 1} /\ -x \in Int /\ (x = 0 <=> -x = 0) /\ (-x = 1 <=> x = -1) /\ (-x = -1 <=> x = 1)
  OBVIOUS
<1> DEFINE y == -x
<1>1. x \in Int /\ y \in Int /\ x + y = 0
  OBVIOUS
<1>2. x = -1 \/ x = 0 \/ x = 1
  OBVIOUS
<1> HIDE DEF y
<1>3. y \in {-1, 0, 1} /\ y \in Int /\ (x = 0 <=> y = 0) /\ (y = 1 <=> x = -1) /\ (y = -1 <=> x = 1)
  BY <1>1, <1>2
<1> QED BY <1>3 DEF y

\* Literals are true, false or free, and their negations the opposite.
LEMMA TruthIs ==
    ASSUME NEW A, A \subseteq Nat \ {0, 1}, NEW val \in [A -> {-1, 0, 1}], NEW l \in LiteralsOf(A)
    PROVE  /\ l \in Int /\ -l \in LiteralsOf(A) /\ (l \in FactLits \/ Abs(l) \in A) /\ Abs(-l) = Abs(l)
           /\ Truth(val, l) \in {-1, 0, 1} /\ Truth(val, -l) \in {-1, 0, 1}
           /\ (Truth(val, -l) = 1 <=> Truth(val, l) = -1) /\ (Truth(val, -l) = -1 <=> Truth(val, l) = 1)
           /\ Abs(l) \in A => (Truth(val, l) = 0 <=> val[Abs(l)] = 0)
           /\ l \in FactLits => Truth(val, l) = l /\ Abs(l) \notin A
<1>1. l \in Int /\ -l \in LiteralsOf(A) /\ Abs(-l) = Abs(l) /\ (l \in FactLits \/ Abs(l) \in A)
      /\ (l \in FactLits => l \in {1, -1} /\ Abs(l) \notin A)
  BY DEF LiteralsOf, FactLits, T, Abs
<1>2. CASE l \in FactLits
  <2>1. l = 1 \/ l = -1
    BY <1>1, <1>2
  <2>2. Truth(val, l) = l /\ Truth(val, -l) = -l
    BY <2>1 DEF Truth, Abs, T
  <2> QED BY <1>1, <1>2, <2>1, <2>2
<1>3. CASE Abs(l) \in A
  <2> DEFINE a == Abs(l)
  <2>1. a \in Nat /\ a > 1 /\ a \in A
    <3>1. a \in A
      BY <1>3
    <3>2. \A x \in A : x \in Nat /\ x > 1
      OBVIOUS
    <3> HIDE DEF a
    <3> QED BY <3>1, <3>2
  <2>2. CASE l > 0
    <3>1. l = a /\ ~(-l > 0) /\ -(-l) = a
      BY <1>1, <2>2 DEF Abs
    <3>2. Truth(val, l) = val[a] /\ Truth(val, -l) = -val[a]
      <4> HIDE DEF a
      <4>1. a # T /\ Abs(l) = a /\ Abs(-l) = a
        BY <1>1, <2>1 DEF T, a
      <4> QED BY <2>2, <3>1, <4>1 DEF Truth
    <3>3. val[a] \in {-1, 0, 1}
      BY <2>1
    <3>4. l \notin FactLits
      BY <3>1, <2>1 DEF FactLits, T
    <3> HIDE DEF a
    <3>5. Truth(val, l) \in {-1, 0, 1} /\ Truth(val, -l) \in {-1, 0, 1}
           /\ (Truth(val, -l) = 1 <=> Truth(val, l) = -1) /\ (Truth(val, -l) = -1 <=> Truth(val, l) = 1)
           /\ (Truth(val, l) = 0 <=> val[a] = 0)
      BY <3>2, <3>3, NegatedTruth
    <3> QED BY <3>4, <3>5, <1>1 DEF a
  <2>3. CASE ~(l > 0)
    <3>1. -l = a /\ -l > 0
      BY <1>1, <2>1, <2>3 DEF Abs
    <3>2. Truth(val, -l) = val[a] /\ Truth(val, l) = -val[a]
      <4> HIDE DEF a
      <4>1. a # T /\ Abs(l) = a /\ Abs(-l) = a
        BY <1>1, <2>1 DEF T, a
      <4> QED BY <2>3, <3>1, <4>1 DEF Truth
    <3>3. val[a] \in {-1, 0, 1}
      BY <2>1
    <3>4. l \notin FactLits
      BY <3>1, <2>1, <1>1 DEF FactLits, T
    <3> HIDE DEF a
    <3>5. Truth(val, l) \in {-1, 0, 1} /\ Truth(val, -l) \in {-1, 0, 1}
           /\ (Truth(val, -l) = 1 <=> Truth(val, l) = -1) /\ (Truth(val, -l) = -1 <=> Truth(val, l) = 1)
           /\ (Truth(val, l) = 0 <=> val[a] = 0)
      BY <3>2, <3>3, NegatedTruth
    <3> QED BY <3>4, <3>5, <1>1 DEF a
  <2> QED BY <2>2, <2>3
<1> QED BY <1>1, <1>2, <1>3

\* The assumptions on the constants.
Assumptions == OrderAssumption /\ ProgramsAssumption

\* The types of the variables in a state of the invariant.
LEMMA Basics ==
    ASSUME Assumptions, IInv
    PROVE  /\ program \in Programs /\ program.atoms \in Nat /\ program.atoms >= 1
           /\ Atoms \subseteq Nat \ {0, 1} /\ used \subseteq Atoms /\ Clits \subseteq used /\ used \subseteq Nat
           /\ Len(trail) \in Nat /\ Len(trail) >= 1 /\ dl \in Nat /\ dl = Len(trail) - 1
           /\ Top \in Bounds /\ Top.lo \in Int /\ Top.up \in Int /\ MinBound \in Int /\ MaxBound \in Int
           /\ Lo \in Int /\ Hi \in Int /\ Lo <= MinBound /\ MinBound <= Top.lo /\ Top.lo <= Top.up
           /\ Top.up <= MaxBound /\ MaxBound <= Hi
           /\ \A v \in Int : ~OutOfBounds(v) => v \in Lo..(Hi - 1)
           /\ Assignment(Atoms, assign, alevel)
<1>1. program \in Programs /\ program.atoms \in Nat /\ program.atoms >= 1
  BY DEF IInv, PhaseInv, Assumptions, ProgramsAssumption
<1>2. Atoms \subseteq Nat \ {0, 1} /\ used \subseteq Atoms /\ Clits \subseteq used /\ used \subseteq Nat
  <2>1. Atoms \subseteq Nat \ {0, 1}
    BY <1>1 DEF Atoms
  <2> QED BY <2>1 DEF IInv, PhaseInv
<1>3. /\ trail \in Seq(Bounds) /\ Len(trail) > 0
      /\ \A i \in 1..Len(trail) : trail[i].lo <= trail[i].up
      /\ \A i, j \in 1..Len(trail) : i <= j => trail[i].lo <= trail[j].lo /\ trail[j].up <= trail[i].up
      /\ Lo <= MinBound /\ MaxBound <= Hi
  BY DEF IInv, TrailInv
<1>4. Len(trail) \in Nat /\ Len(trail) >= 1 /\ dl \in Nat /\ dl = Len(trail) - 1
  BY <1>3 DEF dl
<1>5. 1 \in 1..Len(trail) /\ Len(trail) \in 1..Len(trail) /\ Top \in Bounds /\ trail[1] \in Bounds
  BY <1>3, <1>4 DEF Top
<1>6. Top.lo \in Int /\ Top.up \in Int /\ MinBound \in Int /\ MaxBound \in Int
  BY <1>5 DEF Bounds, MinBound, MaxBound
<1>7. MinBound <= Top.lo /\ Top.lo <= Top.up /\ Top.up <= MaxBound
  BY <1>3, <1>4, <1>5 DEF MinBound, MaxBound, Top
<1>8. Lo \in Int /\ Hi \in Int
  BY DEF Assumptions, OrderAssumption
<1>9. \A v \in Int : ~OutOfBounds(v) => v \in Lo..(Hi - 1)
  BY <1>3, <1>6, <1>8 DEF OutOfBounds
<1>10. Assignment(Atoms, assign, alevel)
  <2>1. assign \in [Atoms -> {-1, 0, 1}] /\ alevel \in [Atoms -> 0..dl]
    BY DEF IInv, AssignInv
  <2>2. alevel \in [Atoms -> Nat]
    <3>1. 0..dl \subseteq Nat
      BY <1>4
    <3> QED BY <2>1, <3>1
  <2> QED BY <1>2, <2>1, <2>2 DEF Assignment
<1> QED BY <1>1, <1>2, <1>3, <1>4, <1>5, <1>6, <1>7, <1>8, <1>9, <1>10

-----------------------------------------------------------------------------
(* Building a solve step.                                                  *)

\* The components of a builder.
IsBuilder(s) == s = [om |-> s.om, used |-> s.used, clauses |-> s.clauses, units |-> s.units]

\* The builder s with new parts.
SetOm(s, y) == [s EXCEPT !.om = y]
SetUsed(s, y) == [s EXCEPT !.used = y]
SetClauses(s, y) == [s EXCEPT !.clauses = y]
SetUnits(s, y) == [s EXCEPT !.units = y]
SetOmUsed(s, y, z) == [s EXCEPT !.om = y, !.used = z]

\* The components of a builder after one of them is set.
LEMMA BuilderParts ==
    ASSUME NEW s, IsBuilder(s), NEW y, NEW z, NEW t
    PROVE  /\ t = SetOm(s, y) =>
              IsBuilder(t) /\ t.om = y /\ t.used = s.used /\ t.clauses = s.clauses /\ t.units = s.units
           /\ t = SetUsed(s, y) =>
              IsBuilder(t) /\ t.om = s.om /\ t.used = y /\ t.clauses = s.clauses /\ t.units = s.units
           /\ t = SetClauses(s, y) =>
              IsBuilder(t) /\ t.om = s.om /\ t.used = s.used /\ t.clauses = y /\ t.units = s.units
           /\ t = SetUnits(s, y) =>
              IsBuilder(t) /\ t.om = s.om /\ t.used = s.used /\ t.clauses = s.clauses /\ t.units = y
           /\ t = SetOmUsed(s, y, z) =>
              IsBuilder(t) /\ t.om = y /\ t.used = z /\ t.clauses = s.clauses /\ t.units = s.units
<1> DEFINE o == s.om
           u == s.used
           c == s.clauses
           x == s.units
<1>1. s = [om |-> o, used |-> u, clauses |-> c, units |-> x]
  BY DEF IsBuilder
<1>2. s.om = o /\ s.used = u /\ s.clauses = c /\ s.units = x
  OBVIOUS
<1> HIDE DEF o, u, c, x
<1>3. \A a, b, d, e :
        t = [om |-> a, used |-> b, clauses |-> d, units |-> e] =>
          IsBuilder(t) /\ t.om = a /\ t.used = b /\ t.clauses = d /\ t.units = e
  BY DEF IsBuilder
<1>4. SetOm(s, y) = [om |-> y, used |-> u, clauses |-> c, units |-> x]
  BY ONLY <1>1 DEF SetOm
<1>5. SetUsed(s, y) = [om |-> o, used |-> y, clauses |-> c, units |-> x]
  BY ONLY <1>1 DEF SetUsed
<1>6. SetClauses(s, y) = [om |-> o, used |-> u, clauses |-> y, units |-> x]
  BY ONLY <1>1 DEF SetClauses
<1>7. SetUnits(s, y) = [om |-> o, used |-> u, clauses |-> c, units |-> y]
  BY ONLY <1>1 DEF SetUnits
<1>8. SetOmUsed(s, y, z) = [om |-> y, used |-> z, clauses |-> c, units |-> x]
  <2> DEFINE p == [s EXCEPT !.om = y]
  <2>1. SetOmUsed(s, y, z) = [p EXCEPT !.used = z]
    BY DEF SetOmUsed
  <2>2. p = [om |-> y, used |-> u, clauses |-> c, units |-> x]
    BY <1>4 DEF SetOm
  <2> HIDE DEF p
  <2>3. [p EXCEPT !.used = z] = [om |-> y, used |-> z, clauses |-> c, units |-> x]
    BY ONLY <2>2
  <2> QED BY <2>1, <2>3
<1> QED BY <1>2, <1>3, <1>4, <1>5, <1>6, <1>7, <1>8

\* The builder s uses at most the atoms up to n, and no assigned atom is a
\* new order literal.
GoodBuilder(s, n) ==
    /\ IsBuilder(s) /\ n \in 1..program.atoms
    /\ used \subseteq s.used /\ s.used \subseteq 2..n
    /\ MapOk(s.om, s.used, 0)
    /\ s.units \subseteq LiteralsOf(s.used)
    /\ \A a \in DOMAIN s.om.litmap : a \in DOMAIN om.litmap \/ assign[a] = 0

\* A map over atoms is one over more atoms.
LEMMA MapMore ==
    ASSUME NEW o, NEW U, NEW U2, U \subseteq U2, NEW m, MapOk(o, U, m)
    PROVE  MapOk(o, U2, m)
  BY DEF MapOk

\* What is known of the builder of a step.
LEMMA BuilderFacts ==
    ASSUME Assumptions, IInv, NEW s, NEW n, GoodBuilder(s, n)
    PROVE  /\ s.used \subseteq Atoms /\ s.used \subseteq Nat /\ s.used \subseteq Nat \ {0, 1} /\ n \in Nat /\ n >= 1
           /\ MapOk(s.om, s.used, 0) /\ IsBuilder(s) /\ used \subseteq s.used
           /\ LiteralsOf(used) \subseteq LiteralsOf(s.used) /\ LiteralsOf(s.used) \subseteq Literals
           /\ DOMAIN s.om.litmap \subseteq s.used
           /\ \A k \in DOMAIN s.om.lits : s.om.lits[k] \in LiteralsOf(s.used)
<1>1. n \in Nat /\ n >= 1 /\ program.atoms \in Nat
  BY Basics DEF GoodBuilder
<1>2. 2..n \subseteq Atoms /\ 2..n \subseteq Nat
  BY <1>1 DEF Atoms, GoodBuilder
<1>3. s.used \subseteq Atoms /\ s.used \subseteq Nat /\ MapOk(s.om, s.used, 0) /\ IsBuilder(s) /\ used \subseteq s.used
  BY <1>2 DEF GoodBuilder
<1>4. LiteralsOf(used) \subseteq LiteralsOf(s.used) /\ LiteralsOf(s.used) \subseteq Literals
  BY <1>3, MoreLiterals DEF Literals
<1>5. DOMAIN s.om.litmap \subseteq s.used
  BY <1>3 DEF MapOk
<1>6. \A k \in DOMAIN s.om.lits : s.om.lits[k] \in LiteralsOf(s.used)
  <2>1. 0 \in Int /\ OrderAssumption
    BY DEF Assumptions
  <2> QED BY <1>3, <2>1, NeighboursAreLiterals
<1>7. s.used \subseteq Nat \ {0, 1}
  BY <1>3, Basics
<1> QED BY <1>1, <1>3, <1>4, <1>5, <1>6, <1>7

\* A clause is stored.
LEMMA StoreClauseOk ==
    ASSUME Assumptions, IInv, NEW s, NEW n, GoodBuilder(s, n), NEW c, c \subseteq LiteralsOf(s.used)
    PROVE  /\ GoodBuilder(StoreClause(s, c), n)
           /\ StoreClause(s, c).om = s.om /\ StoreClause(s, c).used = s.used
<1> DEFINE t == StoreClause(s, c)
           d == OpenIn(c)
           u == {-T}
<1>1. IsBuilder(s)
  BY DEF GoodBuilder
<1>2. d \subseteq LiteralsOf(s.used) /\ u \subseteq LiteralsOf(s.used)
  BY DEF OpenIn, LiteralsOf, T
<1>3. \/ t = s
      \/ t = [s EXCEPT !.units = @ \union u]
      \/ t = [s EXCEPT !.units = @ \union d]
      \/ t = [s EXCEPT !.clauses = @ \union {d}]
  BY DEF StoreClause
<1> HIDE DEF t, d, u
<1>4. IsBuilder(t) /\ t.om = s.om /\ t.used = s.used /\ t.units \in {s.units, s.units \union u, s.units \union d}
  <2>1. CASE t = s
    BY <1>1, <2>1
  <2>2. CASE t = [s EXCEPT !.units = @ \union u]
    <3> DEFINE x == s.units \union u
    <3>1. t = SetUnits(s, x)
      BY <2>2 DEF SetUnits
    <3>2. x \in {s.units, s.units \union u, s.units \union d}
      OBVIOUS
    <3> HIDE DEF x
    <3> QED BY <1>1, <3>1, <3>2, BuilderParts
  <2>3. CASE t = [s EXCEPT !.units = @ \union d]
    <3> DEFINE x == s.units \union d
    <3>1. t = SetUnits(s, x)
      BY <2>3 DEF SetUnits
    <3>2. x \in {s.units, s.units \union u, s.units \union d}
      OBVIOUS
    <3> HIDE DEF x
    <3> QED BY <1>1, <3>1, <3>2, BuilderParts
  <2>4. CASE t = [s EXCEPT !.clauses = @ \union {d}]
    <3> DEFINE x == s.clauses \union {d}
    <3>1. t = SetClauses(s, x)
      BY <2>4 DEF SetClauses
    <3> HIDE DEF x
    <3> QED BY <1>1, <3>1, BuilderParts
  <2> QED BY <1>3, <2>1, <2>2, <2>3, <2>4
<1>5. t.units \subseteq LiteralsOf(s.used)
  BY <1>2, <1>4 DEF GoodBuilder
<1>6. GoodBuilder(t, n)
  BY <1>4, <1>5 DEF GoodBuilder
<1> QED BY <1>4, <1>6 DEF t

\* A new atom.
LEMMA FreshIs ==
    ASSUME NEW s, NEW n \in Nat, n >= 1, s.used \subseteq 2..n
    PROVE  Fresh(s) \in 2..(n + 1) /\ Fresh(s) \notin s.used /\ \A a \in s.used : a < Fresh(s)
<1> DEFINE S == s.used \union {T}
<1>1. S \subseteq 1..n /\ S # {}
  BY DEF T
<1> HIDE DEF S
<1>2. Max(S) \in S /\ \A x \in S : x <= Max(S)
  <2>1. 1 \in Int /\ n \in Int
    OBVIOUS
  <2> QED BY ONLY <1>1, <2>1, LeastAndGreatest
<1>3. Max(S) \in 1..n /\ \A x \in S : x \in Int
  <2>1. \A x \in 1..n : x \in Int
    OBVIOUS
  <2> QED BY <1>1, <1>2, <2>1
<1>4. Fresh(s) = Max(S) + 1
  BY DEF Fresh, S
<1>5. \A a \in s.used : a \in S
  BY DEF S
<1> QED BY <1>2, <1>3, <1>4, <1>5

\* The builder at the start of a call.
LEMMA BuilderOk ==
    ASSUME Assumptions, IInv, NEW m \in Nat, EnoughAtoms(m)
    PROVE  \E n \in Nat : n + m <= program.atoms /\ GoodBuilder(Builder, n)
<1> DEFINE S == used \union {T}
           n == Max(S)
<1>1. program.atoms \in Nat /\ program.atoms >= 1 /\ used \subseteq Atoms /\ used \subseteq 2..program.atoms
  BY Basics DEF Atoms
<1>2. S \subseteq 1..program.atoms /\ S # {}
  BY <1>1 DEF T
<1>3. T \in S
  OBVIOUS
<1>4. n + m <= program.atoms
  BY DEF EnoughAtoms
<1> HIDE DEF S
<1>5. Max(S) \in S /\ \A x \in S : x <= Max(S)
  <2>1. 1 \in Int /\ program.atoms \in Int
    BY <1>1
  <2> QED BY ONLY <1>2, <2>1, LeastAndGreatest
<1>6. n \in 1..program.atoms
  BY <1>2, <1>5
<1>7. \A x \in used : x \in S /\ x \in Nat /\ x >= 2
  BY <1>1 DEF S
<1>8. used \subseteq 2..n
  <2>1. \A x \in used : x <= n
    BY <1>5, <1>7
  <2> HIDE DEF n
  <2> QED BY <1>6, <1>7, <2>1
<1> HIDE DEF n
<1>9. IsBuilder(Builder) /\ Builder.om = om /\ Builder.used = used /\ Builder.units = units
  BY DEF IsBuilder, Builder
<1>10. MapOk(om, used, 0) /\ units \subseteq LiteralsOf(used)
  BY DEF IInv, PhaseInv
<1>11. GoodBuilder(Builder, n)
  BY <1>6, <1>8, <1>9, <1>10 DEF GoodBuilder
<1> QED BY <1>4, <1>6, <1>11

\* A builder that may use n atoms is one that may use more.
LEMMA BuilderMore ==
    ASSUME NEW s, NEW n \in Nat, NEW m \in Nat, n <= m, program.atoms \in Nat, m <= program.atoms, GoodBuilder(s, n)
    PROVE  GoodBuilder(s, m)
<1>1. 2..n \subseteq 2..m /\ m \in 1..program.atoms
  BY DEF GoodBuilder
<1> QED BY <1>1 DEF GoodBuilder

\* The value v has a literal, or is outside the bounds.
HasLiteral(t, v) == /\ ~OutOfBounds(v) => v \in DOMAIN t.om.lits
                    /\ LitOf(t, v) \in LiteralsOf(t.used)

\* The literal of a value is a literal of the builder.
LEMMA LiteralKept ==
    ASSUME Assumptions, IInv, NEW s, NEW n, GoodBuilder(s, n), NEW v \in Int, OutOfBounds(v) \/ v \in DOMAIN s.om.lits
    PROVE  HasLiteral(s, v)
<1>1. \A k \in DOMAIN s.om.lits : s.om.lits[k] \in LiteralsOf(s.used)
  BY BuilderFacts
<1>2. T \in LiteralsOf(s.used) /\ -T \in LiteralsOf(s.used)
  BY DEF LiteralsOf, T
<1>3. LitOf(s, v) \in LiteralsOf(s.used)
  BY <1>1, <1>2 DEF LitOf, OutOfBounds
<1> QED BY <1>3 DEF HasLiteral

\* get_literal adds a literal with a new atom, unless there is one.
LEMMA GetLiteralOk ==
    ASSUME Assumptions, IInv, NEW s, NEW n \in Nat, GoodBuilder(s, n), n + 1 <= program.atoms, NEW v \in Int
    PROVE  LET t == GetLiteral(s, v) IN
           /\ GoodBuilder(t, n + 1) /\ HasLiteral(t, v)
           /\ s.used \subseteq t.used /\ Extends(s.om, t.om) /\ t.om.factmap = s.om.factmap
           /\ t.clauses = s.clauses /\ t.units = s.units
           /\ OutOfBounds(v) \/ v \in DOMAIN s.om.lits => t = s
           /\ ~OutOfBounds(v) /\ v \notin DOMAIN s.om.lits =>
                /\ DOMAIN t.om.lits = DOMAIN s.om.lits \union {v}
                /\ Abs(t.om.lits[v]) = Fresh(s) /\ Fresh(s) \in Atoms /\ Fresh(s) \notin s.used
                /\ t.om.lits[v] \in Int
<1> DEFINE t == GetLiteral(s, v)
           a == Fresh(s)
<1>1. IsBuilder(s) /\ MapOk(s.om, s.used, 0) /\ s.used \subseteq 2..n /\ n >= 1 /\ s.used \subseteq Nat
  BY BuilderFacts DEF GoodBuilder
<1>2. OrderAssumption /\ program.atoms \in Nat
  BY Basics DEF Assumptions
<1>3. CASE OutOfBounds(v) \/ v \in DOMAIN s.om.lits
  <2>1. t = s
    BY <1>3 DEF GetLiteral
  <2>2. GoodBuilder(s, n + 1)
    BY <1>2, BuilderMore
  <2>3. HasLiteral(s, v)
    BY <1>3, LiteralKept
  <2>4. Extends(s.om, s.om)
    BY DEF Extends
  <2> QED BY <1>3, <2>1, <2>2, <2>3, <2>4
<1>4. CASE ~(OutOfBounds(v) \/ v \in DOMAIN s.om.lits)
  <2> DEFINE l == Signed(v, a)
             o == AddOrderLit(s.om, v, l)
             u == s.used \union {a}
  <2>1. a \in 2..(n + 1) /\ a \notin s.used
    BY <1>1, FreshIs
  <2>2. l \in Int /\ Abs(l) = a /\ a > 1 /\ a \in Atoms
    <3>1. a \in Nat /\ a > 1 /\ a \in Atoms
      BY <1>2, <2>1 DEF Atoms
    <3> HIDE DEF a
    <3> QED BY <3>1 DEF Signed, Abs
  <2>3. t = SetOmUsed(s, o, u)
    BY <1>4 DEF GetLiteral, SetOmUsed
  <2> HIDE DEF t
  <2>4. v \in Lo..(Hi - 1) /\ v \notin DOMAIN s.om.lits
    BY <1>4, Basics
  <2>5. Abs(l) \notin DOMAIN s.om.litmap
    BY <1>1, <2>1, <2>2 DEF MapOk
  <2> HIDE DEF a, l
  <2>6. /\ MapOk(o, u, 0) /\ Extends(s.om, o)
        /\ DOMAIN o.lits = DOMAIN s.om.lits \union {v} /\ o.lits[v] = l
        /\ DOMAIN o.litmap = DOMAIN s.om.litmap \union {Abs(l)}
        /\ o.factmap = s.om.factmap
    <3>1. s.used \subseteq u /\ Abs(l) \in u /\ Abs(l) > 1
      BY <2>2
    <3> HIDE DEF o, u
    <3> QED BY <1>1, <1>2, <2>2, <2>4, <2>5, <3>1, AddOrderLitOk DEF o
  <2> HIDE DEF o
  <2>7. IsBuilder(t) /\ t.om = o /\ t.used = u /\ t.clauses = s.clauses /\ t.units = s.units
    BY <1>1, <2>3, BuilderParts
  <2>8. s.used \subseteq u /\ u \subseteq 2..(n + 1) /\ used \subseteq u
    <3>1. 2..n \subseteq 2..(n + 1)
      OBVIOUS
    <3> QED BY <1>1, <2>1, <3>1 DEF GoodBuilder
  <2> HIDE DEF u
  <2>9. assign[a] = 0
    BY <2>1, <2>2 DEF IInv, AssignInv, GoodBuilder
  <2>10. \A b \in DOMAIN o.litmap : b \in DOMAIN om.litmap \/ assign[b] = 0
    BY <2>2, <2>6, <2>9 DEF GoodBuilder
  <2>11. s.units \subseteq LiteralsOf(u)
    BY <2>8, MoreLiterals DEF GoodBuilder
  <2>12. n + 1 \in 1..program.atoms
    BY <1>1, <1>2
  <2>13. GoodBuilder(t, n + 1)
    BY <2>6, <2>7, <2>8, <2>10, <2>11, <2>12 DEF GoodBuilder
  <2>14. HasLiteral(t, v)
    BY <2>6, <2>7, <2>13, LiteralKept
  <2> QED BY <1>4, <2>1, <2>2, <2>6, <2>7, <2>8, <2>13, <2>14 DEF t, a
<1> QED BY <1>3, <1>4

\* A fact is added instead on level 0.
LEMMA AddFactGood ==
    ASSUME Assumptions, IInv, NEW s, NEW n \in Nat, GoodBuilder(s, n), NEW v \in Int,
           ~OutOfBounds(v), v \notin DOMAIN s.om.lits, NEW truth \in FactLits,
           NEW t, t = SetOm(s, AddFact(s.om, v, truth))
    PROVE  /\ GoodBuilder(t, n) /\ HasLiteral(t, v) /\ t.used = s.used /\ Extends(s.om, t.om)
           /\ t.clauses = s.clauses /\ t.units = s.units
<1> DEFINE o == AddFact(s.om, v, truth)
<1>1. IsBuilder(s) /\ MapOk(s.om, s.used, 0) /\ s.used \subseteq Atoms /\ Atoms \subseteq Nat
  BY BuilderFacts, Basics
<1>2. v \in Lo..(Hi - 1) /\ OrderAssumption
  BY Basics DEF Assumptions
<1>3. /\ MapOk(o, s.used, 0) /\ Extends(s.om, o)
      /\ DOMAIN o.lits = DOMAIN s.om.lits \union {v} /\ o.lits[v] = truth
      /\ DOMAIN o.litmap = DOMAIN s.om.litmap
  BY <1>1, <1>2, AddFactOk
<1>4. t = SetOm(s, o)
  OBVIOUS
<1> HIDE DEF o
<1>5. IsBuilder(t) /\ t.om = o /\ t.used = s.used /\ t.clauses = s.clauses /\ t.units = s.units
  BY <1>1, <1>4, BuilderParts
<1>6. GoodBuilder(t, n)
  BY <1>3, <1>5 DEF GoodBuilder
<1>7. HasLiteral(t, v)
  BY <1>3, <1>5, <1>6, LiteralKept
<1> QED BY <1>3, <1>5, <1>6, <1>7

\* update_literal gives a value its literal or a fact and needs at most one atom.
LEMMA UpdateLiteralOk ==
    ASSUME Assumptions, IInv, NEW s, NEW n \in Nat, GoodBuilder(s, n), n + 1 <= program.atoms, NEW v \in Int,
           NEW truth \in {-1, 0, 1}
    PROVE  LET t == UpdateLiteral(s, v, truth) IN
           /\ GoodBuilder(t, n + 1) /\ HasLiteral(t, v)
           /\ s.used \subseteq t.used /\ Extends(s.om, t.om)
           /\ t.clauses = s.clauses /\ t.units = s.units
           /\ dl > 0 => t = GetLiteral(s, v)
<1> DEFINE t == UpdateLiteral(s, v, truth)
<1>1. CASE truth = 0 \/ dl > 0
  <2>1. t = GetLiteral(s, v)
    BY <1>1 DEF UpdateLiteral
  <2> HIDE DEF t
  <2> QED BY <2>1, GetLiteralOk DEF t
<1>2. CASE ~(truth = 0 \/ dl > 0) /\ (OutOfBounds(v) \/ v \in DOMAIN s.om.lits)
  <2>1. t = s
    BY <1>2 DEF UpdateLiteral
  <2>2. GoodBuilder(s, n + 1)
    BY Basics, BuilderMore
  <2>3. HasLiteral(s, v)
    BY <1>2, LiteralKept
  <2>4. Extends(s.om, s.om)
    BY DEF Extends
  <2> QED BY <1>2, <2>1, <2>2, <2>3, <2>4
<1>3. CASE ~(truth = 0 \/ dl > 0) /\ ~(OutOfBounds(v) \/ v \in DOMAIN s.om.lits)
  <2>1. t = SetOm(s, AddFact(s.om, v, truth))
    BY <1>3 DEF UpdateLiteral, SetOm
  <2>2. truth \in FactLits
    BY <1>3 DEF FactLits, T
  <2> HIDE DEF t
  <2>3. /\ GoodBuilder(t, n) /\ HasLiteral(t, v) /\ t.used = s.used /\ Extends(s.om, t.om)
        /\ t.clauses = s.clauses /\ t.units = s.units
    BY <1>3, <2>1, <2>2, AddFactGood
  <2>4. GoodBuilder(t, n + 1)
    BY <2>3, Basics, BuilderMore
  <2> QED BY <1>3, <2>3, <2>4 DEF t
<1> QED BY <1>1, <1>2, <1>3

\* Literals of constraints.
LEMMA TruthZero ==
    ASSUME NEW A, A \subseteq Nat \ {0, 1}, NEW val \in [A -> {-1, 0, 1}], NEW l \in LiteralsOf(A), Abs(l) \in A
    PROVE  Truth(val, l) = 0 <=> val[Abs(l)] = 0
  BY TruthIs

\* Negating stays within the literals.
LEMMA NegatedLiteral ==
    \A A, l : A \subseteq Nat \ {0, 1} /\ l \in LiteralsOf(A) => -l \in LiteralsOf(A)
  BY DEF LiteralsOf

\* The literal of a simple constraint, or its negation.
LEMMA TowardsIs ==
    ASSUME NEW c, NEW A, A \subseteq Nat \ {0, 1}
    PROVE  /\ \A l \in LiteralsOf(A) : Towards(c, l) \in LiteralsOf(A)
           /\ \A x \in {-1, 0, 1} : Towards(c, x) \in {-1, 0, 1}
  BY NegatedLiteral, NegatedTruth DEF Towards

\* The parts of a simple constraint.
LEMMA ConstraintIs ==
    ASSUME Assumptions, IInv, NEW c \in Simples
    PROVE  /\ c.clit \in LiteralsOf(used) /\ c.clit \in LiteralsOf(Atoms)
           /\ Truth(assign, c.clit) \in {-1, 0, 1} /\ SimpleValue(c) \in Int
<1>1. Clits \subseteq used /\ used \subseteq Atoms /\ Atoms \subseteq Nat \ {0, 1} /\ program \in Programs
  BY Basics
<1>2. c.clit \in LiteralsOf(Clits) /\ c.co \in Int \ {0} /\ c.rhs \in Int
  BY <1>1 DEF Assumptions, ProgramsAssumption, Simples, Clits
<1>3. c.clit \in LiteralsOf(used) /\ c.clit \in LiteralsOf(Atoms)
  BY <1>1, <1>2, MoreLiterals
<1>4. Truth(assign, c.clit) \in {-1, 0, 1}
  BY <1>1, <1>3, Basics, TruthIs DEF Assignment
<1>5. SimpleValue(c) \in Int
  <2> DEFINE d == c.co
             r == c.rhs
  <2>1. d \in Int /\ d # 0 /\ r \in Int
    BY <1>2
  <2>2. SimpleValue(c) = IF d > 0 THEN r \div d ELSE -(r \div (-d)) - 1
    BY DEF SimpleValue
  <2> HIDE DEF d, r
  <2>3. CASE d > 0
    BY <2>1, <2>2, <2>3
  <2>4. CASE ~(d > 0)
    <3>1. -d \in Int /\ -d > 0
      BY <2>1, <2>4
    <3>2. r \div (-d) \in Int
      BY <2>1, <3>1
    <3> QED BY <2>2, <2>4, <3>2
  <2> QED BY <2>3, <2>4
<1> QED BY <1>3, <1>4, <1>5

\* The literal of the constraint implies the order literal.
LEMMA ImplyLiteralOk ==
    ASSUME Assumptions, IInv, NEW s, NEW n \in Nat, GoodBuilder(s, n), n + 1 <= program.atoms, NEW c \in Simples
    PROVE  GoodBuilder(ImplyLiteral(s, c), n + 1)
<1> DEFINE value == SimpleValue(c)
           truth == Towards(c, Truth(assign, c.clit))
           t == UpdateLiteral(s, value, truth)
           lit == Towards(c, LitOf(t, value))
           cl == {-c.clit, lit}
           ck == {-lit, c.clit}
           u == StoreClause(t, cl)
<1>1. value \in Int /\ c.clit \in LiteralsOf(used) /\ truth \in {-1, 0, 1}
  <2>1. Truth(assign, c.clit) \in {-1, 0, 1} /\ Atoms \subseteq Nat \ {0, 1}
    BY ConstraintIs, Basics
  <2> QED BY <2>1, ConstraintIs, TowardsIs
<1>2. ImplyLiteral(s, c) = IF c.strict THEN StoreClause(u, ck) ELSE u
  BY DEF ImplyLiteral
<1> HIDE DEF value, truth
<1>3. GoodBuilder(t, n + 1) /\ HasLiteral(t, value)
  BY <1>1, UpdateLiteralOk
<1> HIDE DEF t
<1>4. t.used \subseteq Nat \ {0, 1} /\ LitOf(t, value) \in LiteralsOf(t.used) /\ c.clit \in LiteralsOf(t.used)
  BY <1>1, <1>3, BuilderFacts DEF HasLiteral
<1>5. cl \subseteq LiteralsOf(t.used) /\ ck \subseteq LiteralsOf(t.used)
  <2>1. lit \in LiteralsOf(t.used)
    BY <1>4, TowardsIs
  <2> HIDE DEF lit
  <2>2. -lit \in LiteralsOf(t.used) /\ -c.clit \in LiteralsOf(t.used)
    BY <1>4, <2>1, NegatedLiteral
  <2> QED BY <1>4, <2>1, <2>2
<1> HIDE DEF cl, ck
<1>6. GoodBuilder(u, n + 1) /\ u.used = t.used
  BY <1>3, <1>5, StoreClauseOk
<1> HIDE DEF u
<1>7. GoodBuilder(StoreClause(u, ck), n + 1)
  BY <1>5, <1>6, StoreClauseOk
<1> QED BY <1>2, <1>6, <1>7

\* The literal of the constraint becomes the order literal.
LEMMA ReuseLiteralOk ==
    ASSUME Assumptions, IInv, NEW s, NEW n \in Nat, GoodBuilder(s, n), n + 1 <= program.atoms, NEW c \in Simples,
           ~OutOfBounds(SimpleValue(c)), SimpleValue(c) \notin DOMAIN s.om.lits
    PROVE  GoodBuilder(ReuseLiteral(s, c), n + 1)
<1> DEFINE value == SimpleValue(c)
           lit == Towards(c, c.clit)
           tv == Truth(assign, lit)
           eq == Fresh(s)
           taken == Abs(lit) \in DOMAIN s.om.litmap
           u == s.used \union {eq}
           s1 == [s EXCEPT !.used = @ \union {eq}]
           s2 == StoreClause(s1, {-lit, eq})
           s3 == StoreClause(s2, {-eq, lit})
<1>1. value \in Int /\ lit \in LiteralsOf(used) /\ lit \in LiteralsOf(Atoms) /\ tv \in {-1, 0, 1} /\ lit \in Int
  <2>1. used \subseteq Nat \ {0, 1} /\ Atoms \subseteq Nat \ {0, 1} /\ assign \in [Atoms -> {-1, 0, 1}]
    BY Basics DEF Assignment
  <2>2. lit \in LiteralsOf(used) /\ lit \in LiteralsOf(Atoms)
    BY <2>1, ConstraintIs, TowardsIs
  <2> HIDE DEF lit
  <2> QED BY <2>1, <2>2, TruthIs, ConstraintIs
<1>2. /\ tv # 0 => ReuseLiteral(s, c) = SetOm(s, AddFact(s.om, value, tv))
      /\ tv = 0 /\ taken => ReuseLiteral(s, c) = SetOm(s3, AddOrderLit(s3.om, value, eq))
      /\ tv = 0 /\ ~taken => ReuseLiteral(s, c) = SetOm(s, AddOrderLit(s.om, value, lit))
  BY DEF ReuseLiteral, SetOm
<1>3. /\ IsBuilder(s) /\ MapOk(s.om, s.used, 0) /\ s.used \subseteq Nat /\ s.used \subseteq Atoms /\ used \subseteq s.used
      /\ n >= 1 /\ s.used \subseteq 2..n /\ OrderAssumption /\ program.atoms \in Nat /\ Atoms \subseteq Nat \ {0, 1}
      /\ value \in Lo..(Hi - 1) /\ value \notin DOMAIN s.om.lits /\ GoodBuilder(s, n + 1)
  <2>1. program.atoms \in Nat /\ Atoms \subseteq Nat \ {0, 1} /\ n + 1 \in Nat /\ n <= n + 1
    BY Basics
  <2>2. GoodBuilder(s, n + 1)
    BY <2>1, BuilderMore
  <2>3. value \in Lo..(Hi - 1)
    BY <1>1, Basics
  <2> QED BY <2>1, <2>2, <2>3, BuilderFacts DEF GoodBuilder, Assumptions
<1> HIDE DEF value, lit
<1>4. CASE tv # 0
  <2>1. tv \in FactLits
    BY <1>1, <1>4 DEF FactLits, T
  <2>2. ReuseLiteral(s, c) = SetOm(s, AddFact(s.om, value, tv))
    BY <1>2, <1>4
  <2>3. ~OutOfBounds(value)
    BY DEF value
  <2> HIDE DEF tv
  <2> DEFINE t == ReuseLiteral(s, c)
  <2> HIDE DEF t
  <2>4. t = SetOm(s, AddFact(s.om, value, tv))
    BY <2>2 DEF t
  <2>5. GoodBuilder(t, n)
    BY <1>1, <1>3, <2>1, <2>3, <2>4, AddFactGood
  <2>6. n + 1 \in Nat /\ n <= n + 1
    OBVIOUS
  <2>7. GoodBuilder(t, n + 1)
    BY <1>3, <2>5, <2>6, BuilderMore
  <2> QED BY <2>7 DEF t
<1>5. ASSUME tv = 0 PROVE Abs(lit) \in used /\ Abs(lit) > 1 /\ assign[Abs(lit)] = 0
  <2>0. assign \in [Atoms -> {-1, 0, 1}] /\ Atoms \subseteq Nat \ {0, 1} /\ lit \in LiteralsOf(Atoms)
    BY <1>1, Basics DEF Assignment
  <2>1. lit \notin FactLits /\ Abs(lit) \in Atoms
    <3>1. lit \in FactLits => Truth(assign, lit) = lit
      BY ONLY <2>0, TruthIs
    <3>2. lit \in FactLits => lit # 0
      BY DEF FactLits, T
    <3>3. lit \in FactLits \/ Abs(lit) \in Atoms
      BY ONLY <2>0, TruthIs
    <3> QED BY <1>5, <3>1, <3>2, <3>3
  <2>2. Abs(lit) \in used
    BY <1>1, <1>3, <2>1, LiteralIs
  <2>3. assign[Abs(lit)] = 0
    <3>1. Truth(assign, lit) = 0
      BY <1>5
    <3>2. Abs(lit) \in Atoms
      BY <2>1
    <3>3. Truth(assign, lit) = 0 <=> assign[Abs(lit)] = 0
      BY ONLY <2>0, <3>2, TruthZero
    <3> QED BY <3>1, <3>3
  <2>4. Abs(lit) > 1
    <3>1. Abs(lit) \in Nat /\ Abs(lit) \notin {0, 1}
      BY <1>3, <2>1
    <3> QED BY <3>1
  <2> QED BY <2>2, <2>3, <2>4
<1>6. CASE tv = 0 /\ ~taken
  <2> DEFINE o == AddOrderLit(s.om, value, lit)
  <2>1. ReuseLiteral(s, c) = SetOm(s, o)
    BY <1>2, <1>6
  <2>2. MapOk(o, s.used, 0) /\ DOMAIN o.litmap = DOMAIN s.om.litmap \union {Abs(lit)}
    <3>1. Abs(lit) \in s.used /\ Abs(lit) > 1 /\ Abs(lit) \notin DOMAIN s.om.litmap
      BY <1>3, <1>5, <1>6
    <3> QED BY <1>1, <1>3, <3>1, AddOrderLitOk
  <2> HIDE DEF o
  <2> DEFINE t == ReuseLiteral(s, c)
  <2> HIDE DEF t
  <2>3. t = SetOm(s, o)
    BY <2>1 DEF t
  <2>4. IsBuilder(t) /\ t.om = o /\ t.used = s.used /\ t.clauses = s.clauses /\ t.units = s.units
    BY <1>3, <2>3, BuilderParts
  <2>5. \A a \in DOMAIN o.litmap : a \in DOMAIN om.litmap \/ assign[a] = 0
    BY <1>5, <1>6, <2>2 DEF GoodBuilder
  <2>6. GoodBuilder(t, n + 1)
    BY <1>3, <2>2, <2>4, <2>5 DEF GoodBuilder
  <2> QED BY <2>6 DEF t
<1>7. CASE tv = 0 /\ taken
  <2> DEFINE o == AddOrderLit(s3.om, value, eq)
  <2>1. ReuseLiteral(s, c) = SetOm(s3, o)
    BY <1>2, <1>7
  <2>2. eq \in 2..(n + 1) /\ eq \notin s.used
    BY <1>3, FreshIs
  <2>3. s1 = SetUsed(s, u)
    BY DEF SetUsed
  <2> HIDE DEF s1, eq
  <2>4. IsBuilder(s1) /\ s1.om = s.om /\ s1.used = u /\ s1.units = s.units
    <3> HIDE DEF u
    <3> QED BY <1>3, <2>3, BuilderParts
  <2>5. s.used \subseteq u /\ u \subseteq 2..(n + 1) /\ used \subseteq u /\ u \subseteq Nat \ {0, 1} /\ eq \in u
    <3>1. 2..n \subseteq 2..(n + 1) /\ 2..(n + 1) \subseteq Nat \ {0, 1}
      BY <1>3
    <3> QED BY <1>3, <2>2, <3>1
  <2>6. GoodBuilder(s1, n + 1)
    <3>1. MapOk(s.om, u, 0)
      BY <1>3, <2>5, MapMore
    <3>2. s.units \subseteq LiteralsOf(u)
      BY <2>5, MoreLiterals DEF GoodBuilder
    <3> HIDE DEF u
    <3>3. n + 1 \in 1..program.atoms
      BY <1>3
    <3> QED BY <2>4, <2>5, <3>1, <3>2, <3>3 DEF GoodBuilder
  <2>7. eq \in LiteralsOf(u) /\ -eq \in LiteralsOf(u) /\ lit \in LiteralsOf(u) /\ -lit \in LiteralsOf(u)
    <3>1. eq \in LiteralsOf(u)
      BY <2>5 DEF LiteralsOf
    <3>2. lit \in LiteralsOf(u)
      BY <1>1, <2>5, MoreLiterals
    <3> HIDE DEF u
    <3> QED BY <2>5, <3>1, <3>2, NegatedLiteral
  <2> HIDE DEF u
  <2>8. GoodBuilder(s2, n + 1) /\ s2.om = s.om /\ s2.used = u
    <3>1. {-lit, eq} \subseteq LiteralsOf(s1.used)
      BY <2>4, <2>7
    <3> QED BY <2>4, <2>6, <3>1, StoreClauseOk
  <2> HIDE DEF s2
  <2>9. GoodBuilder(s3, n + 1) /\ s3.om = s.om /\ s3.used = u
    <3>1. {-eq, lit} \subseteq LiteralsOf(s2.used)
      BY <2>7, <2>8
    <3> QED BY <2>8, <3>1, StoreClauseOk
  <2> HIDE DEF s3
  <2>10. eq \in Int /\ eq > 1 /\ Abs(eq) = eq /\ eq \in Atoms
    <3>1. eq \in Int /\ eq > 1 /\ eq \in Atoms
      BY <1>3, <2>2 DEF Atoms
    <3> QED BY <3>1 DEF Abs
  <2>11. MapOk(o, u, 0) /\ DOMAIN o.litmap = DOMAIN s.om.litmap \union {eq}
    <3>1. eq \notin DOMAIN s.om.litmap
      BY <1>3, <2>2 DEF MapOk
    <3>2. o = AddOrderLit(s.om, value, eq)
      BY <2>9
    <3>3. Abs(eq) \in u /\ Abs(eq) > 1 /\ Abs(eq) \notin DOMAIN s.om.litmap
      BY <2>5, <2>10, <3>1
    <3> HIDE DEF o
    <3> QED BY <1>3, <2>5, <2>10, <3>2, <3>3, AddOrderLitOk
  <2> HIDE DEF o
  <2> DEFINE t == ReuseLiteral(s, c)
  <2> HIDE DEF t
  <2>12. t = SetOm(s3, o)
    BY <2>1 DEF t
  <2>13. IsBuilder(s3)
    BY <2>9 DEF GoodBuilder
  <2>14. IsBuilder(t) /\ t.om = o /\ t.used = s3.used /\ t.clauses = s3.clauses /\ t.units = s3.units
    BY <2>12, <2>13, BuilderParts
  <2>15. assign[eq] = 0
    BY <1>3, <2>2, <2>10 DEF IInv, AssignInv
  <2>16. \A a \in DOMAIN o.litmap : a \in DOMAIN om.litmap \/ assign[a] = 0
    BY <2>11, <2>15 DEF GoodBuilder
  <2>17. GoodBuilder(t, n + 1)
    BY <2>9, <2>11, <2>14, <2>16 DEF GoodBuilder
  <2> QED BY <2>17 DEF t
<1> QED BY <1>1, <1>4, <1>6, <1>7

-----------------------------------------------------------------------------
(* Domains.                                                                *)

\* What holds at the start and is kept by each of finitely many steps.
LEMMA CountUp ==
    ASSUME NEW N \in Nat, NEW Bad, Bad \subseteq 0..N, 0 \notin Bad,
           \A k \in 1..N : k - 1 \notin Bad => k \notin Bad
    PROVE  Bad = {}
<1> SUFFICES ASSUME Bad # {} PROVE FALSE
  OBVIOUS
<1>1. PICK k \in Bad : \A m \in Bad : k <= m
  <2>1. Bad \subseteq Nat
    OBVIOUS
  <2> QED BY <2>1, LeastNatural
<1>2. k \in 0..N /\ k # 0
  OBVIOUS
<1>3. k \in 1..N /\ k - 1 \in Int /\ ~(k <= k - 1)
  BY <1>2
<1>4. k - 1 \notin Bad
  BY <1>1, <1>3
<1> QED BY <1>1, <1>3, <1>4

\* The ends of an interval of a domain.
LEMMA IntervalIs ==
    ASSUME NEW dom \in Seq(Int \X Int), NEW i \in 1..Len(dom)
    PROVE  dom[i][1] \in Int /\ dom[i][2] \in Int
<1>1. dom[i] \in Int \X Int
  OBVIOUS
<1> DEFINE p == dom[i]
<1> HIDE DEF p
<1>2. p \in Int \X Int => p[1] \in Int /\ p[2] \in Int
  OBVIOUS
<1> QED BY <1>1, <1>2 DEF p

\* The literal of the neighbour of an interval.
LEMMA NeighbourOk ==
    ASSUME Assumptions, IInv, NEW s, NEW n \in Nat, GoodBuilder(s, n), n + 1 <= program.atoms, NEW w \in Int
    PROVE  LET t == GetLiteral(s, w) IN
           /\ GoodBuilder(s, n + 1) /\ T \in LiteralsOf(s.used)
           /\ GoodBuilder(t, n + 1) /\ s.used \subseteq t.used /\ LiteralsOf(s.used) \subseteq LiteralsOf(t.used)
           /\ LitOf(t, w) \in LiteralsOf(t.used) /\ -LitOf(t, w) \in LiteralsOf(t.used)
<1> DEFINE t == GetLiteral(s, w)
<1>1. program.atoms \in Nat /\ n + 1 \in Nat /\ n <= n + 1
  BY Basics
<1>2. GoodBuilder(s, n + 1) /\ T \in LiteralsOf(s.used)
  BY <1>1, BuilderMore DEF LiteralsOf, T
<1>3. GoodBuilder(t, n + 1) /\ s.used \subseteq t.used /\ HasLiteral(t, w)
  BY GetLiteralOk
<1> HIDE DEF t
<1>4. t.used \subseteq Nat \ {0, 1} /\ LiteralsOf(s.used) \subseteq LiteralsOf(t.used)
  BY <1>3, BuilderFacts, MoreLiterals
<1>5. LitOf(t, w) \in LiteralsOf(t.used) /\ -LitOf(t, w) \in LiteralsOf(t.used)
  BY <1>3, <1>4, NegatedLiteral DEF HasLiteral
<1> QED BY <1>2, <1>3, <1>4, <1>5 DEF t

\* The clause for a bound v of an interval, where ly is about its neighbour.
LEMMA DomClauseOk ==
    ASSUME Assumptions, IInv, NEW s, NEW n \in Nat, GoodBuilder(s, n), n + 1 <= program.atoms,
           NEW lit \in LiteralsOf(s.used), NEW ly \in LiteralsOf(s.used), NEW v \in Int, NEW truth \in {-1, 0, 1}
    PROVE  LET u == UpdateLiteral(s, v, truth)
               t == StoreClause(u, {-lit, -ly, LitOf(u, v)})
               r == StoreClause(u, {-lit, -ly, -LitOf(u, v)}) IN
           /\ GoodBuilder(t, n + 1) /\ s.used \subseteq t.used
           /\ GoodBuilder(r, n + 1) /\ s.used \subseteq r.used
<1> DEFINE u == UpdateLiteral(s, v, truth)
           lx == LitOf(u, v)
           c == {-lit, -ly, lx}
           e == {-lit, -ly, -lx}
<1>1. GoodBuilder(u, n + 1) /\ HasLiteral(u, v) /\ s.used \subseteq u.used /\ n + 1 \in Nat
  BY UpdateLiteralOk
<1> HIDE DEF u
<1>2. u.used \subseteq Nat \ {0, 1} /\ LiteralsOf(s.used) \subseteq LiteralsOf(u.used)
  BY <1>1, BuilderFacts, MoreLiterals
<1>3. lx \in LiteralsOf(u.used)
  BY <1>1 DEF HasLiteral
<1> HIDE DEF lx
<1>4. -lit \in LiteralsOf(u.used) /\ -ly \in LiteralsOf(u.used) /\ -lx \in LiteralsOf(u.used)
  BY <1>2, <1>3, NegatedLiteral
<1>5. c \subseteq LiteralsOf(u.used) /\ e \subseteq LiteralsOf(u.used)
  BY <1>3, <1>4
<1> HIDE DEF c, e
<1>6. /\ GoodBuilder(StoreClause(u, c), n + 1) /\ StoreClause(u, c).used = u.used
      /\ GoodBuilder(StoreClause(u, e), n + 1) /\ StoreClause(u, e).used = u.used
  BY <1>1, <1>5, StoreClauseOk
<1>7. /\ GoodBuilder(StoreClause(u, c), n + 1) /\ s.used \subseteq StoreClause(u, c).used
      /\ GoodBuilder(StoreClause(u, e), n + 1) /\ s.used \subseteq StoreClause(u, e).used
  BY <1>1, <1>6
<1> QED BY <1>7 DEF c, e, lx, u

\* The first loop of add_dom keeps the map consistent, and needs two atoms at most.
LEMMA DomFromLeftOk ==
    ASSUME Assumptions, IInv, NEW s, NEW n \in Nat, GoodBuilder(s, n), n + 2 <= program.atoms,
           NEW lit \in LiteralsOf(s.used), NEW d, d.dom \in Seq(Int \X Int), NEW i \in 1..Len(d.dom)
    PROVE  GoodBuilder(DomFromLeft(s, d, lit, i), n + 2) /\ s.used \subseteq DomFromLeft(s, d, lit, i).used
<1> DEFINE w == d.dom[i - 1][2] - 1
           v == d.dom[i][1] - 1
           t == IF i = 1 THEN s ELSE GetLiteral(s, w)
           ly == IF i = 1 THEN T ELSE -LitOf(t, w)
           truth == IF lit = T /\ IsTrue(ly) THEN -1 ELSE 0
           u == UpdateLiteral(t, v, truth)
           r == StoreClause(u, {-lit, -ly, -LitOf(u, v)})
<1>1. v \in Int /\ (i # 1 => w \in Int)
  <2>1. Len(d.dom) \in Nat /\ (i # 1 => i - 1 \in 1..Len(d.dom))
    OBVIOUS
  <2>2. d.dom[i][1] \in Int /\ (i # 1 => d.dom[i - 1][2] \in Int)
    BY <2>1, IntervalIs
  <2>3. \A x \in Int : x - 1 \in Int
    OBVIOUS
  <2> QED BY <2>2, <2>3
<1>2. DomFromLeft(s, d, lit, i) = r
  BY DEF DomFromLeft
<1>3. truth \in {-1, 0, 1}
  OBVIOUS
<1>4. program.atoms \in Nat /\ n + 1 \in Nat /\ n + 1 <= program.atoms /\ n <= n + 1 /\ (n + 1) + 1 = n + 2
  <2>1. program.atoms \in Nat
    BY Basics
  <2>2. n + 2 <= program.atoms /\ n \in Nat
    OBVIOUS
  <2> QED BY ONLY <2>1, <2>2
<1>5. GoodBuilder(t, n + 1) /\ s.used \subseteq t.used /\ ly \in LiteralsOf(t.used) /\ lit \in LiteralsOf(t.used)
  <2>1. CASE i = 1
    <3>1. t = s /\ ly = T
      BY <2>1
    <3>2. 0 \in Int
      OBVIOUS
    <3>3. GoodBuilder(s, n + 1) /\ T \in LiteralsOf(s.used)
      BY <1>4, <3>2, NeighbourOk
    <3> QED BY <3>1, <3>3
  <2>2. CASE i # 1
    <3>1. t = GetLiteral(s, w) /\ ly = -LitOf(t, w)
      BY <2>2
    <3>2. w \in Int
      BY <1>1, <2>2
    <3> HIDE DEF t, w, ly
    <3> QED BY <1>4, <3>1, <3>2, NeighbourOk
  <2> QED BY <2>1, <2>2
<1>6. u = UpdateLiteral(t, v, truth)
  OBVIOUS
<1> HIDE DEF w, v, t, ly, truth
<1>7. GoodBuilder(r, (n + 1) + 1) /\ t.used \subseteq r.used
  BY <1>1, <1>3, <1>4, <1>5, DomClauseOk
<1> QED BY <1>2, <1>4, <1>5, <1>7

\* The second loop of add_dom keeps the map consistent, and needs two atoms at most.
LEMMA DomFromRightOk ==
    ASSUME Assumptions, IInv, NEW s, NEW n \in Nat, GoodBuilder(s, n), n + 2 <= program.atoms,
           NEW lit \in LiteralsOf(s.used), NEW d, d.dom \in Seq(Int \X Int), NEW i \in 1..Len(d.dom)
    PROVE  GoodBuilder(DomFromRight(s, d, lit, i), n + 2) /\ s.used \subseteq DomFromRight(s, d, lit, i).used
<1> DEFINE N == Len(d.dom)
           w == d.dom[i + 1][1] - 1
           v == d.dom[i][2] - 1
           t == IF i = N THEN s ELSE GetLiteral(s, w)
           lx == IF i = N THEN T ELSE LitOf(t, w)
           truth == IF lit = T /\ IsTrue(lx) THEN 1 ELSE 0
           u == UpdateLiteral(t, v, truth)
           r == StoreClause(u, {-lit, -lx, LitOf(u, v)})
<1>1. v \in Int /\ (i # N => w \in Int)
  <2>1. Len(d.dom) \in Nat /\ (i # N => i + 1 \in 1..Len(d.dom))
    OBVIOUS
  <2>2. d.dom[i][2] \in Int /\ (i # N => d.dom[i + 1][1] \in Int)
    BY <2>1, IntervalIs
  <2>3. \A x \in Int : x - 1 \in Int
    OBVIOUS
  <2> QED BY <2>2, <2>3
<1>2. DomFromRight(s, d, lit, i) = r
  BY DEF DomFromRight
<1>3. truth \in {-1, 0, 1}
  OBVIOUS
<1>4. program.atoms \in Nat /\ n + 1 \in Nat /\ n + 1 <= program.atoms /\ n <= n + 1 /\ (n + 1) + 1 = n + 2
  <2>1. program.atoms \in Nat
    BY Basics
  <2>2. n + 2 <= program.atoms /\ n \in Nat
    OBVIOUS
  <2> QED BY ONLY <2>1, <2>2
<1>5. GoodBuilder(t, n + 1) /\ s.used \subseteq t.used /\ lx \in LiteralsOf(t.used) /\ lit \in LiteralsOf(t.used)
  <2>1. CASE i = N
    <3>1. t = s /\ lx = T
      BY <2>1
    <3>2. 0 \in Int
      OBVIOUS
    <3>3. GoodBuilder(s, n + 1) /\ T \in LiteralsOf(s.used)
      BY <1>4, <3>2, NeighbourOk
    <3> QED BY <3>1, <3>3
  <2>2. CASE i # N
    <3>1. t = GetLiteral(s, w) /\ lx = LitOf(t, w)
      BY <2>2
    <3>2. w \in Int
      BY <1>1, <2>2
    <3> HIDE DEF t, w, lx
    <3> QED BY <1>4, <3>1, <3>2, NeighbourOk
  <2> QED BY <2>1, <2>2
<1> HIDE DEF w, v, t, lx, truth
<1>7. GoodBuilder(r, (n + 1) + 1) /\ t.used \subseteq r.used
  BY <1>1, <1>3, <1>4, <1>5, DomClauseOk
<1> QED BY <1>2, <1>4, <1>5, <1>7

\* The loops of add_dom: the builders after each of the steps.
DomStep(d, lit, s, j) ==
    LET n == Len(d.dom) IN
    IF j <= n THEN DomFromLeft(s, d, lit, j) ELSE DomFromRight(s, d, lit, 2 * n + 1 - j)

\* The states after the steps of DomSteps.
IsDomRun(s, d, lit, k, g) == g = [j \in 0..k |-> IF j = 0 THEN s ELSE DomStep(d, lit, g[j - 1], j)]

\* The function that DomSteps defines exists.
LEMMA DomRunExists ==
    ASSUME NEW s, NEW d, NEW lit, NEW N \in Nat
    PROVE  \E g : IsDomRun(s, d, lit, N, g)
<1> DEFINE Good(k) == \E g : IsDomRun(s, d, lit, k, g)
           Bad == {k \in 0..N : ~Good(k)}
<1>1. Good(0)
  <2> DEFINE g == [j \in 0..0 |-> s]
  <2>1. IsDomRun(s, d, lit, 0, g)
    BY DEF IsDomRun
  <2> QED BY <2>1
<1>2. ASSUME NEW k \in 1..N, Good(k - 1)
      PROVE  Good(k)
  <2>1. PICK g : IsDomRun(s, d, lit, k - 1, g)
    BY <1>2
  <2> DEFINE last == DomStep(d, lit, g[k - 1], k)
             h == [j \in 0..k |-> IF j = k THEN last ELSE g[j]]
  <2>2. \A j \in 0..(k - 1) : g[j] = IF j = 0 THEN s ELSE DomStep(d, lit, g[j - 1], j)
    BY <2>1 DEF IsDomRun
  <2>3. ASSUME NEW j \in 0..k
        PROVE  h[j] = IF j = 0 THEN s ELSE DomStep(d, lit, h[j - 1], j)
    <3>1. CASE j = k
      BY <3>1
    <3>2. CASE j < k
      <4>1. j \in 0..(k - 1)
        BY <3>2
      <4>2. j # 0 => h[j - 1] = g[j - 1]
        BY <3>2
      <4>3. h[j] = g[j]
        BY <3>2
      <4> HIDE DEF h
      <4> QED BY <4>1, <4>2, <4>3, <2>2
    <3> QED BY <3>1, <3>2
  <2>4. h = [j \in 0..k |-> h[j]]
    OBVIOUS
  <2> HIDE DEF h
  <2>5. IsDomRun(s, d, lit, k, h)
    BY <2>3, <2>4 DEF IsDomRun
  <2> QED BY <2>5
<1>3. Bad = {}
  <2>1. 0 \notin Bad
    BY <1>1
  <2>2. \A k \in 1..N : k - 1 \notin Bad => k \notin Bad
    <3> SUFFICES ASSUME NEW k \in 1..N, k - 1 \notin Bad PROVE k \notin Bad
      OBVIOUS
    <3>1. k - 1 \in 0..N
      OBVIOUS
    <3> HIDE DEF Good
    <3>2. Good(k - 1)
      BY <3>1
    <3> QED BY <1>2, <3>2
  <2>3. Bad \subseteq 0..N
    OBVIOUS
  <2> HIDE DEF Bad
  <2> QED BY <2>1, <2>2, <2>3, CountUp
<1>4. N \in 0..N
  OBVIOUS
<1>5. Good(N)
  <2> HIDE DEF Good
  <2> QED BY <1>3, <1>4
<1> QED BY <1>5

\* add_dom adds two literals in each of the steps at most.
LEMMA DomStepsOk ==
    ASSUME Assumptions, IInv, NEW s, NEW n \in Nat, GoodBuilder(s, n), NEW d, d.dom \in Seq(Int \X Int),
           n + 4 * Len(d.dom) <= program.atoms, NEW lit \in LiteralsOf(s.used)
    PROVE  GoodBuilder(DomSteps(s, d, lit), n + 4 * Len(d.dom))
<1> DEFINE L == Len(d.dom)
           N == 2 * L
           Is(g) == g = [j \in 0..N |-> IF j = 0 THEN s
                                         ELSE IF j <= L THEN DomFromLeft(g[j - 1], d, lit, j)
                                         ELSE DomFromRight(g[j - 1], d, lit, N + 1 - j)]
           run == CHOOSE g : Is(g)
<1>1. DomSteps(s, d, lit) = run[N]
  BY DEF DomSteps
<1>2. L \in Nat /\ N \in Nat /\ program.atoms \in Nat /\ n + 2 * N <= program.atoms
  <2>1. L \in Nat /\ program.atoms \in Nat /\ n + 4 * L <= program.atoms
    BY Basics
  <2> HIDE DEF L
  <2> QED BY <2>1
<1>3. \E g : Is(g)
  <2>1. PICK g : IsDomRun(s, d, lit, N, g)
    BY <1>2, DomRunExists
  <2>2. Is(g)
    BY <2>1, Zenon DEF IsDomRun, DomStep
  <2> HIDE DEF Is
  <2> QED BY <2>2
<1>4. Is(run)
  <2> HIDE DEF Is
  <2> QED BY <1>3
<1> HIDE DEF run
<1>5. \A j \in 0..N : run[j] = IF j = 0 THEN s
                                ELSE IF j <= L THEN DomFromLeft(run[j - 1], d, lit, j)
                                ELSE DomFromRight(run[j - 1], d, lit, N + 1 - j)
  <2> DEFINE f == [j \in 0..N |-> IF j = 0 THEN s
                                  ELSE IF j <= L THEN DomFromLeft(run[j - 1], d, lit, j)
                                  ELSE DomFromRight(run[j - 1], d, lit, N + 1 - j)]
  <2>1. run = f
    BY <1>4
  <2>2. \A j \in 0..N : f[j] = IF j = 0 THEN s
                                ELSE IF j <= L THEN DomFromLeft(run[j - 1], d, lit, j)
                                ELSE DomFromRight(run[j - 1], d, lit, N + 1 - j)
    OBVIOUS
  <2> HIDE DEF f
  <2> QED BY <2>1, <2>2
<1> HIDE DEF Is
<1> DEFINE Good(k) == GoodBuilder(run[k], n + 2 * k) /\ s.used \subseteq run[k].used
           Bad == {k \in 0..N : ~Good(k)}
<1>6. Good(0)
  <2>1. run[0] = s
    BY <1>2, <1>5
  <2>2. n + 2 * 0 = n
    OBVIOUS
  <2> QED BY <2>1, <2>2
<1>7. ASSUME NEW k \in 1..N, Good(k - 1)
      PROVE  Good(k)
  <2> DEFINE m == n + 2 * (k - 1)
             r == run[k - 1]
  <2>1. m \in Nat /\ m + 2 = n + 2 * k /\ m + 2 <= program.atoms
    <3> HIDE DEF N
    <3> QED BY <1>2
  <2>2. GoodBuilder(r, m) /\ s.used \subseteq r.used
    BY <1>7
  <2>3. k \in 0..N /\ k # 0
    <3> HIDE DEF N
    <3> QED BY <1>2
  <2>4. run[k] = IF k <= L THEN DomFromLeft(r, d, lit, k) ELSE DomFromRight(r, d, lit, N + 1 - k)
    BY <1>5, <2>3
  <2>5. lit \in LiteralsOf(r.used)
    BY <2>2, MoreLiterals
  <2> HIDE DEF m, r
  <2>6. CASE k <= L
    <3>1. k \in 1..Len(d.dom)
      BY <2>6, <1>2
    <3>2. run[k] = DomFromLeft(r, d, lit, k)
      BY <2>4, <2>6
    <3>3. GoodBuilder(run[k], m + 2) /\ r.used \subseteq run[k].used
      BY <2>1, <2>2, <2>5, <3>1, <3>2, DomFromLeftOk
    <3> QED BY <2>1, <2>2, <3>3
  <2>7. CASE ~(k <= L)
    <3> DEFINE i == N + 1 - k
    <3>1. i \in 1..L
      <4>1. k \in 1..(2 * L) /\ ~(k <= L) /\ L \in Nat
        BY <2>7, <1>2
      <4> HIDE DEF L
      <4> QED BY <4>1
    <3>2. run[k] = DomFromRight(r, d, lit, i)
      BY <2>4, <2>7
    <3> HIDE DEF i
    <3>3. GoodBuilder(run[k], m + 2) /\ r.used \subseteq run[k].used
      BY <2>1, <2>2, <2>5, <3>1, <3>2, DomFromRightOk
    <3> QED BY <2>1, <2>2, <3>3
  <2> QED BY <2>6, <2>7
<1>8. Bad = {}
  <2>1. 0 \notin Bad
    BY <1>6
  <2>2. \A k \in 1..N : k - 1 \notin Bad => k \notin Bad
    <3> SUFFICES ASSUME NEW k \in 1..N, k - 1 \notin Bad PROVE k \notin Bad
      OBVIOUS
    <3>1. k - 1 \in 0..N
      <4> HIDE DEF N
      <4> QED BY <1>2
    <3> HIDE DEF Good
    <3>2. Good(k - 1)
      BY <3>1
    <3> QED BY <1>7, <3>2
  <2>3. Bad \subseteq 0..N
    OBVIOUS
  <2> HIDE DEF Bad
  <2> QED BY <1>2, <2>1, <2>2, <2>3, CountUp
<1>9. Good(N)
  <2> HIDE DEF Good
  <2>1. N \in 0..N
    <3> HIDE DEF N
    <3> QED BY <1>2
  <2> QED BY <1>8, <2>1
<1>10. n + 2 * N = n + 4 * Len(d.dom)
  BY <1>2
<1> QED BY <1>1, <1>9, <1>10

-----------------------------------------------------------------------------
(* Bounds and literals of a state.                                         *)

\* The components of a state.
IsState(s) == s = [om |-> s.om, b |-> s.b, val |-> s.val, units |-> s.units, ok |-> s.ok]

\* A state with another component.
SetLower(s, y) == [s EXCEPT !.b.lo = y]
SetUpper(s, y) == [s EXCEPT !.b.up = y]
SetVal(s, y) == [s EXCEPT !.val = y]
Fail(s) == [s EXCEPT !.ok = FALSE]
SetMapUnits(s, y, z) == [s EXCEPT !.om = y, !.units = z]
NoFacts(o) == [o EXCEPT !.factmap = <<>>]

\* A state made of its parts.
LEMMA StateFrom ==
    ASSUME NEW t, NEW a, NEW c, NEW d, NEW e, NEW f, t = [om |-> a, b |-> c, val |-> d, units |-> e, ok |-> f]
    PROVE  IsState(t) /\ t.om = a /\ t.b = c /\ t.val = d /\ t.units = e /\ t.ok = f
  BY DEF IsState

\* The map of a state is set.
LEMMA OmSet ==
    ASSUME NEW s, IsState(s), NEW y, NEW t, t = SetOm(s, y)
    PROVE  IsState(t) /\ t.om = y /\ t.b = s.b /\ t.val = s.val /\ t.units = s.units /\ t.ok = s.ok
<1> DEFINE o == s.om
           b == s.b
           v == s.val
           x == s.units
           k == s.ok
<1>1. s = [om |-> o, b |-> b, val |-> v, units |-> x, ok |-> k]
  BY DEF IsState
<1> HIDE DEF o, b, v, x, k
<1>2. SetOm(s, y) = [om |-> y, b |-> b, val |-> v, units |-> x, ok |-> k]
  BY ONLY <1>1 DEF SetOm
<1>3. t = [om |-> y, b |-> b, val |-> v, units |-> x, ok |-> k]
  BY <1>2
<1>4. IsState(t) /\ t.om = y /\ t.b = b /\ t.val = v /\ t.units = x /\ t.ok = k
  BY ONLY <1>3, StateFrom
<1> QED BY <1>4 DEF o, b, v, x, k

\* The assignment of a state is set.
LEMMA ValSet ==
    ASSUME NEW s, IsState(s), NEW y, NEW t, t = SetVal(s, y)
    PROVE  IsState(t) /\ t.om = s.om /\ t.b = s.b /\ t.val = y /\ t.units = s.units /\ t.ok = s.ok
<1> DEFINE o == s.om
           b == s.b
           v == s.val
           x == s.units
           k == s.ok
<1>1. s = [om |-> o, b |-> b, val |-> v, units |-> x, ok |-> k]
  BY DEF IsState
<1> HIDE DEF o, b, v, x, k
<1>2. SetVal(s, y) = [om |-> o, b |-> b, val |-> y, units |-> x, ok |-> k]
  BY ONLY <1>1 DEF SetVal
<1>3. t = [om |-> o, b |-> b, val |-> y, units |-> x, ok |-> k]
  BY <1>2
<1>4. IsState(t) /\ t.om = o /\ t.b = b /\ t.val = y /\ t.units = x /\ t.ok = k
  BY ONLY <1>3, StateFrom
<1> QED BY <1>4 DEF o, b, v, x, k

\* The units of a state are set.
LEMMA UnitsSet ==
    ASSUME NEW s, IsState(s), NEW y, NEW t, t = SetUnits(s, y)
    PROVE  IsState(t) /\ t.om = s.om /\ t.b = s.b /\ t.val = s.val /\ t.units = y /\ t.ok = s.ok
<1> DEFINE o == s.om
           b == s.b
           v == s.val
           x == s.units
           k == s.ok
<1>1. s = [om |-> o, b |-> b, val |-> v, units |-> x, ok |-> k]
  BY DEF IsState
<1> HIDE DEF o, b, v, x, k
<1>2. SetUnits(s, y) = [om |-> o, b |-> b, val |-> v, units |-> y, ok |-> k]
  BY ONLY <1>1 DEF SetUnits
<1>3. t = [om |-> o, b |-> b, val |-> v, units |-> y, ok |-> k]
  BY <1>2
<1>4. IsState(t) /\ t.om = o /\ t.b = b /\ t.val = v /\ t.units = y /\ t.ok = k
  BY ONLY <1>3, StateFrom
<1> QED BY <1>4 DEF o, b, v, x, k

\* A state after a conflict.
LEMMA FailIs ==
    ASSUME NEW s, IsState(s), NEW t, t = Fail(s)
    PROVE  IsState(t) /\ t.om = s.om /\ t.b = s.b /\ t.val = s.val /\ t.units = s.units /\ ~t.ok
<1> DEFINE o == s.om
           b == s.b
           v == s.val
           x == s.units
           k == s.ok
<1>1. s = [om |-> o, b |-> b, val |-> v, units |-> x, ok |-> k]
  BY DEF IsState
<1> HIDE DEF o, b, v, x, k
<1>2. Fail(s) = [om |-> o, b |-> b, val |-> v, units |-> x, ok |-> FALSE]
  <2>1. \A y : [s EXCEPT !.ok = y] = [om |-> o, b |-> b, val |-> v, units |-> x, ok |-> y]
    BY ONLY <1>1
  <2>2. [s EXCEPT !.ok = FALSE] = [om |-> o, b |-> b, val |-> v, units |-> x, ok |-> FALSE]
    BY ONLY <2>1, Zenon
  <2> QED BY ONLY <2>2, Zenon DEF Fail
<1>3. t = [om |-> o, b |-> b, val |-> v, units |-> x, ok |-> FALSE]
  BY <1>2
<1>4. IsState(t) /\ t.om = o /\ t.b = b /\ t.val = v /\ t.units = x /\ ~t.ok
  BY ONLY <1>3, StateFrom
<1> QED BY <1>4 DEF o, b, v, x, k

\* The map and the units of a state are set.
LEMMA MapUnitsSet ==
    ASSUME NEW s, IsState(s), NEW y, NEW z, NEW t, t = SetMapUnits(s, y, z)
    PROVE  IsState(t) /\ t.om = y /\ t.b = s.b /\ t.val = s.val /\ t.units = z /\ t.ok = s.ok
<1> DEFINE o == s.om
           b == s.b
           v == s.val
           x == s.units
           k == s.ok
<1>1. s = [om |-> o, b |-> b, val |-> v, units |-> x, ok |-> k]
  BY DEF IsState
<1> HIDE DEF o, b, v, x, k
<1>2. SetMapUnits(s, y, z) = [om |-> y, b |-> b, val |-> v, units |-> z, ok |-> k]
  <2> DEFINE p == [s EXCEPT !.om = y]
  <2>1. SetMapUnits(s, y, z) = [p EXCEPT !.units = z]
    BY DEF SetMapUnits
  <2>2. p = [om |-> y, b |-> b, val |-> v, units |-> x, ok |-> k]
    BY ONLY <1>1
  <2> HIDE DEF p
  <2>3. [p EXCEPT !.units = z] = [om |-> y, b |-> b, val |-> v, units |-> z, ok |-> k]
    BY ONLY <2>2
  <2> QED BY <2>1, <2>3
<1>3. t = [om |-> y, b |-> b, val |-> v, units |-> z, ok |-> k]
  BY <1>2
<1>4. IsState(t) /\ t.om = y /\ t.b = b /\ t.val = v /\ t.units = z /\ t.ok = k
  BY ONLY <1>3, StateFrom
<1> QED BY <1>4 DEF o, b, v, x, k

\* The lower bound of a state is set.
LEMMA LowerSet ==
    ASSUME NEW s, IsState(s), s.b \in Bounds, NEW y, NEW t, t = SetLower(s, y)
    PROVE  IsState(t) /\ t.om = s.om /\ t.b = [lo |-> y, up |-> s.b.up] /\ t.val = s.val /\ t.units = s.units /\ t.ok = s.ok
<1> DEFINE o == s.om
           b == s.b
           v == s.val
           x == s.units
           k == s.ok
<1>1. s = [om |-> o, b |-> b, val |-> v, units |-> x, ok |-> k]
  BY DEF IsState
<1> HIDE DEF o, b, v, x, k
<1> DEFINE l == s.b.lo
           u == s.b.up
           c == [lo |-> y, up |-> u]
<1>0. b = [lo |-> l, up |-> u]
  BY DEF Bounds, b
<1>5. s.b = b
  BY DEF b
<1>2. SetLower(s, y) = [om |-> o, b |-> c, val |-> v, units |-> x, ok |-> k]
  <2> HIDE DEF l, u
  <2> DEFINE d == [b EXCEPT !.lo = y]
  <2>1. SetLower(s, y) = [s EXCEPT !.b = d]
    BY <1>5 DEF SetLower
  <2>2. d = c
    BY ONLY <1>0
  <2> HIDE DEF d
  <2>3. [s EXCEPT !.b = d] = [om |-> o, b |-> d, val |-> v, units |-> x, ok |-> k]
    BY ONLY <1>1
  <2> QED BY <2>1, <2>2, <2>3
<1> HIDE DEF c
<1>3. t = [om |-> o, b |-> c, val |-> v, units |-> x, ok |-> k]
  BY <1>2
<1>4. IsState(t) /\ t.om = o /\ t.b = c /\ t.val = v /\ t.units = x /\ t.ok = k
  BY ONLY <1>3, StateFrom
<1> QED BY <1>4 DEF o, b, v, x, k, c

\* The upper bound of a state is set.
LEMMA UpperSet ==
    ASSUME NEW s, IsState(s), s.b \in Bounds, NEW y, NEW t, t = SetUpper(s, y)
    PROVE  IsState(t) /\ t.om = s.om /\ t.b = [lo |-> s.b.lo, up |-> y] /\ t.val = s.val /\ t.units = s.units /\ t.ok = s.ok
<1> DEFINE o == s.om
           b == s.b
           v == s.val
           x == s.units
           k == s.ok
<1>1. s = [om |-> o, b |-> b, val |-> v, units |-> x, ok |-> k]
  BY DEF IsState
<1> HIDE DEF o, b, v, x, k
<1> DEFINE l == s.b.lo
           u == s.b.up
           c == [lo |-> l, up |-> y]
<1>0. b = [lo |-> l, up |-> u]
  BY DEF Bounds, b
<1>5. s.b = b
  BY DEF b
<1>2. SetUpper(s, y) = [om |-> o, b |-> c, val |-> v, units |-> x, ok |-> k]
  <2> HIDE DEF l, u
  <2> DEFINE d == [b EXCEPT !.up = y]
  <2>1. SetUpper(s, y) = [s EXCEPT !.b = d]
    BY <1>5 DEF SetUpper
  <2>2. d = c
    BY ONLY <1>0
  <2> HIDE DEF d
  <2>3. [s EXCEPT !.b = d] = [om |-> o, b |-> d, val |-> v, units |-> x, ok |-> k]
    BY ONLY <1>1
  <2> QED BY <2>1, <2>2, <2>3
<1> HIDE DEF c
<1>3. t = [om |-> o, b |-> c, val |-> v, units |-> x, ok |-> k]
  BY <1>2
<1>4. IsState(t) /\ t.om = o /\ t.b = c /\ t.val = v /\ t.units = x /\ t.ok = k
  BY ONLY <1>3, StateFrom
<1> QED BY <1>4 DEF o, b, v, x, k, c

\* The state s of a step that may use the atoms U: the bounds get tighter,
\* the assignment grows, literals are only stored while a step is prepared.
GoodState(s, U) ==
    /\ IsState(s)
    /\ s.b \in Bounds /\ Top.lo <= s.b.lo /\ s.b.lo <= s.b.up /\ s.b.up <= Top.up
    /\ s.val \in [Atoms -> {-1, 0, 1}]
    /\ \A a \in Atoms : /\ assign[a] # 0 => s.val[a] = assign[a]
                        /\ s.val[a] # assign[a] => a \in U
    /\ s.units \subseteq LiteralsOf(U)
    /\ ~Preparing => s.units = units

\* The smaller of two numbers.
LEMMA LeastOfTwo ==
    ASSUME NEW x \in Int, NEW y \in Int
    PROVE  Min({x, y}) = IF x <= y THEN x ELSE y
  BY DEF Min

\* The larger of two numbers.
LEMMA GreatestOfTwo ==
    ASSUME NEW x \in Int, NEW y \in Int
    PROVE  Max({x, y}) = IF x >= y THEN x ELSE y
  BY DEF Max

\* An assignment after literals are set to true.
\* The literal of the atom a that is true in w.
Entered(w, a) == IF w[a] = 1 THEN a ELSE -a

\* The assignment w has all that val has, and more of the atoms U.
MoreValues(val, w, U) ==
    /\ \A a \in Atoms : val[a] # 0 => w[a] = val[a]
    /\ \A a \in Atoms : w[a] # val[a] => a \in U
\* What the assignment w adds to val is in ls.
NewIn(val, w, ls) == \A a \in Atoms : w[a] # val[a] => Entered(w, a) \in ls

\* None of the literals ls is false.
NoneFalse(val, ls) == \A l \in ls : Truth(val, l) # -1
\* Assignments of the atoms.
Values == [Atoms -> {-1, 0, 1}]

\* Assigning literals of which none is false.
LEMMA AssignedIs ==
    ASSUME Atoms \subseteq Nat \ {0, 1}, NEW U, U \subseteq Atoms, NEW val \in Values,
           NEW ls, ls \subseteq LiteralsOf(U), NoneFalse(val, ls)
    PROVE  LET w == Assigned(val, ls) IN
           /\ w \in Values
           /\ MoreValues(val, w, U) /\ NewIn(val, w, ls)
<1> DEFINE w == Assigned(val, ls)
<1>0. val \in [Atoms -> {-1, 0, 1}] /\ \A l \in ls : Truth(val, l) # -1
  BY DEF Values, NoneFalse
<1>1. w \in [Atoms -> {-1, 0, 1}] /\ w \in Values
  BY <1>0 DEF Assigned, Values
<1>2. \A a \in Atoms : w[a] = IF a \in ls THEN 1 ELSE IF -a \in ls THEN -1 ELSE val[a]
  BY DEF Assigned
<1> HIDE DEF w
<1>3. ASSUME NEW a \in Atoms
      PROVE  /\ a \in Nat /\ a > 1 /\ val[a] \in {-1, 0, 1} /\ Truth(val, a) = val[a] /\ Truth(val, -a) = -val[a]
             /\ a \in LiteralsOf(Atoms) /\ (a \in LiteralsOf(U) => a \in U) /\ (-a \in LiteralsOf(U) => a \in U)
  <2>1. a \in Nat /\ a > 1 /\ val[a] \in {-1, 0, 1}
    BY <1>0
  <2>2. Abs(a) = a /\ Abs(-a) = a /\ -(-a) = a /\ ~(-a > 0) /\ a > 0
    BY ONLY <2>1 DEF Abs
  <2>3. Truth(val, a) = val[a] /\ Truth(val, -a) = -val[a]
    BY <2>1, <2>2 DEF Truth, T
  <2>4. U \subseteq Nat /\ a \in Int /\ -a \in Int
    BY <2>1
  <2>5. a \notin FactLits /\ -a \notin FactLits
    BY <2>1 DEF FactLits, T
  <2>6. a \in LiteralsOf(Atoms)
    BY DEF LiteralsOf
  <2>7. (a \in LiteralsOf(U) => a \in U) /\ (-a \in LiteralsOf(U) => a \in U)
    <3>1. \A l \in Int : l \in LiteralsOf(U) => l \in FactLits \/ Abs(l) \in U
      BY ONLY <2>4, LiteralIs
    <3>2. a \in LiteralsOf(U) => a \in U
      BY ONLY <2>2, <2>4, <2>5, <3>1
    <3> DEFINE b == -a
    <3>3. b \in Int /\ b \notin FactLits /\ Abs(b) = a
      BY <2>2, <2>4, <2>5
    <3> HIDE DEF b
    <3>4. b \in LiteralsOf(U) => a \in U
      BY ONLY <3>1, <3>3
    <3> QED BY <3>2, <3>4 DEF b
  <2> QED BY <2>1, <2>3, <2>6, <2>7
<1>4. ASSUME NEW a \in Atoms, val[a] # 0
      PROVE  w[a] = val[a]
  <2>1. a \in ls => val[a] = 1
    BY <1>0, <1>3, <1>4
  <2>2. -a \in ls => val[a] = -1
    <3> SUFFICES ASSUME -a \in ls PROVE val[a] = -1
      OBVIOUS
    <3>1. -val[a] # -1 /\ val[a] \in {-1, 0, 1}
      BY <1>0, <1>3
    <3> QED BY <3>1, <1>4, NegatedTruth
  <2> QED BY <1>2, <2>1, <2>2
<1>5. ASSUME NEW a \in Atoms, w[a] # val[a]
      PROVE  a \in U /\ Entered(w, a) \in ls
  <2>1. CASE a \in ls
    BY <1>2, <1>3, <2>1 DEF Entered
  <2>2. CASE a \notin ls
    <3>1. -a \in ls /\ w[a] = -1 /\ a \in U
      BY <1>2, <1>3, <1>5, <2>2
    <3>2. w[a] # 1
      BY <3>1
    <3> QED BY <3>1, <3>2 DEF Entered
  <2> QED BY <2>1, <2>2
<1>6. MoreValues(val, w, U) /\ NewIn(val, w, ls)
  BY <1>4, <1>5 DEF MoreValues, NewIn
<1> QED BY <1>1, <1>6 DEF w

\* Literals follow from a bound.
LEMMA ImplyOk ==
    ASSUME Assumptions, IInv, NEW U, U \subseteq Atoms, NEW s, GoodState(s, U), NEW ls, ls \subseteq LiteralsOf(U)
    PROVE  LET t == Imply(s, ls) IN
           /\ t.ok => GoodState(t, U) /\ s.ok
           /\ IsState(t) /\ t.om = s.om /\ t.b = s.b
           /\ ~Preparing /\ t.ok => /\ t.val = Assigned(s.val, ls)
                                    /\ \A l \in ls : Truth(s.val, l) # -1
<1> DEFINE t == Imply(s, ls)
<1>1. Atoms \subseteq Nat \ {0, 1} /\ IsState(s)
  BY Basics DEF GoodState
<1>2. CASE Preparing
  <2> DEFINE y == s.units \union ls
  <2>1. t = SetUnits(s, y)
    BY <1>2 DEF Imply, SetUnits
  <2>2. y \subseteq LiteralsOf(U)
    BY DEF GoodState
  <2> HIDE DEF t, y
  <2>3. IsState(t) /\ t.om = s.om /\ t.b = s.b /\ t.val = s.val /\ t.units = y /\ t.ok = s.ok
    BY <1>1, <2>1, UnitsSet
  <2>4. GoodState(t, U)
    BY <1>2, <2>2, <2>3 DEF GoodState
  <2> QED BY <1>2, <2>3, <2>4 DEF t
<1>3. CASE ~Preparing /\ \E l \in ls : Truth(s.val, l) = -1
  <2>1. t = Fail(s)
    BY <1>3 DEF Imply, Fail
  <2> HIDE DEF t
  <2>2. IsState(t) /\ t.om = s.om /\ t.b = s.b /\ ~t.ok
    BY <1>1, <2>1, FailIs
  <2> QED BY <2>2 DEF t
<1>4. CASE ~Preparing /\ ~\E l \in ls : Truth(s.val, l) = -1
  <2> DEFINE y == Assigned(s.val, ls)
  <2>1. t = SetVal(s, y)
    BY <1>4 DEF Imply, SetVal
  <2>2. s.val \in [Atoms -> {-1, 0, 1}] /\ \A l \in ls : Truth(s.val, l) # -1
    BY <1>4 DEF GoodState
  <2>3. /\ y \in [Atoms -> {-1, 0, 1}]
        /\ \A a \in Atoms : s.val[a] # 0 => y[a] = s.val[a]
        /\ \A a \in Atoms : y[a] # s.val[a] => a \in U
    <3> DEFINE v == s.val
    <3>1. y = Assigned(v, ls)
      OBVIOUS
    <3>2. v \in Values /\ NoneFalse(v, ls)
      BY <2>2 DEF Values, NoneFalse
    <3> HIDE DEF v, y
    <3>3. y \in Values /\ MoreValues(v, y, U)
      <4>1. Atoms \subseteq Nat \ {0, 1} /\ U \subseteq Atoms /\ ls \subseteq LiteralsOf(U)
        BY <1>1
      <4> QED BY ONLY <4>1, <3>1, <3>2, AssignedIs
    <3>4. y \in [Atoms -> {-1, 0, 1}]
      BY ONLY <3>3 DEF Values
    <3>5. \A a \in Atoms : /\ v[a] # 0 => y[a] = v[a]
                           /\ y[a] # v[a] => a \in U
      BY ONLY <3>3 DEF MoreValues
    <3> QED BY ONLY <3>4, <3>5, Zenon DEF v
  <2> HIDE DEF t, y
  <2>4. IsState(t) /\ t.om = s.om /\ t.b = s.b /\ t.val = y /\ t.units = s.units /\ t.ok = s.ok
    BY <1>1, <2>1, ValSet
  <2>5. \A a \in Atoms : /\ assign[a] # 0 => y[a] = assign[a]
                         /\ y[a] # assign[a] => a \in U
    BY <2>3 DEF GoodState
  <2>6. GoodState(t, U)
    BY <2>3, <2>4, <2>5 DEF GoodState
  <2> QED BY <2>2, <2>4, <2>6 DEF t, y
<1> QED BY <1>2, <1>3, <1>4

\* The literals implied by a bound are literals of the map.
LEMMA ImpliedAre ==
    ASSUME Assumptions, IInv, NEW U, U \subseteq Atoms, NEW s, NEW m, MapOk(s.om, U, m), NEW value \in Int
    PROVE  /\ ImpliedAbove(s, value) \subseteq LiteralsOf(U)
           /\ ImpliedBelow(s, value) \subseteq LiteralsOf(U)
<1>1. U \subseteq Nat /\ U \subseteq Nat \ {0, 1} /\ OrderAssumption
  BY Basics DEF Assumptions
<1>2. \A k \in DOMAIN s.om.lits : s.om.lits[k] \in LiteralsOf(U)
  BY <1>1, NeighboursAreLiterals
<1>3. ImpliedAbove(s, value) \subseteq LiteralsOf(U)
  BY <1>2 DEF ImpliedAbove
<1>4. \A k \in DOMAIN s.om.lits : -s.om.lits[k] \in LiteralsOf(U)
  BY <1>1, <1>2, NegatedLiteral
<1>5. ImpliedBelow(s, value) \subseteq LiteralsOf(U)
  BY <1>4 DEF ImpliedBelow
<1> QED BY <1>3, <1>5

\* The upper bound becomes value.
LEMMA UpdateUpperOk ==
    ASSUME Assumptions, IInv, NEW U, U \subseteq Atoms, NEW s, GoodState(s, U), NEW m, MapOk(s.om, U, m),
           NEW value \in Int, NEW succ
    PROVE  LET t == UpdateUpper(s, value, succ) IN
           /\ t.ok => GoodState(t, U) /\ s.ok
           /\ IsState(t) /\ t.om = s.om
           /\ t.ok => t.b.lo = s.b.lo /\ (t.b.up = s.b.up \/ t.b.up = value) /\ t.b.up <= value
           /\ t.ok /\ ~Preparing =>
                \/ t.val = s.val /\ Truth(s.val, succ) = 1
                \/ /\ t.val = Assigned(s.val, ImpliedAbove(s, value))
                   /\ \A l \in ImpliedAbove(s, value) : Truth(s.val, l) # -1
<1> DEFINE t == UpdateUpper(s, value, succ)
           up == Min({s.b.up, value})
           r == [s EXCEPT !.b.up = Min({@, value})]
<1>1. IsState(s) /\ s.b \in Bounds /\ s.b.lo \in Int /\ s.b.up \in Int /\ Top.lo <= s.b.lo /\ s.b.lo <= s.b.up /\ s.b.up <= Top.up
      /\ Top.lo \in Int /\ Top.up \in Int
  BY Basics DEF GoodState, Bounds
<1>2. CASE value < s.b.lo
  <2>1. t = Fail(s)
    BY <1>2 DEF UpdateUpper, Fail
  <2> HIDE DEF t
  <2>2. IsState(t) /\ t.om = s.om /\ ~t.ok
    BY <1>1, <2>1, FailIs
  <2> QED BY <2>2 DEF t
<1>3. CASE ~(value < s.b.lo)
  <2>0. /\ up = s.b.up \/ up = value
        /\ up <= value
    <3>1. up = (IF s.b.up <= value THEN s.b.up ELSE value)
      BY <1>1, LeastOfTwo
    <3> HIDE DEF up
    <3> QED BY <3>1, <1>1
  <2>1. t = IF Truth(s.val, succ) = 1 THEN r ELSE Imply(r, ImpliedAbove(r, value))
    BY <1>3 DEF UpdateUpper
  <2>2. r = SetUpper(s, up)
    BY DEF SetUpper
  <2>3. up = (IF s.b.up <= value THEN s.b.up ELSE value) /\ up \in Int /\ s.b.lo <= up /\ up <= s.b.up
    <3>1. up = (IF s.b.up <= value THEN s.b.up ELSE value)
      BY <1>1, LeastOfTwo
    <3> HIDE DEF up
    <3> QED BY <3>1, <1>1, <1>3
  <2> HIDE DEF r, up, t
  <2>4. /\ IsState(r) /\ r.om = s.om /\ r.b = [lo |-> s.b.lo, up |-> up] /\ r.val = s.val /\ r.units = s.units
        /\ r.ok = s.ok
    BY <1>1, <2>2, UpperSet
  <2>5. GoodState(r, U)
    <3>1. r.b \in Bounds /\ Top.lo <= r.b.lo /\ r.b.lo <= r.b.up /\ r.b.up <= Top.up
      BY <1>1, <2>3, <2>4 DEF Bounds
    <3> QED BY <3>1, <2>4 DEF GoodState
  <2>6. ImpliedAbove(r, value) = ImpliedAbove(s, value) /\ ImpliedAbove(s, value) \subseteq LiteralsOf(U)
    BY <2>4, ImpliedAre DEF ImpliedAbove
  <2>9. r.b.lo = s.b.lo /\ r.b.up = up
    BY <2>4
  <2>7. CASE Truth(s.val, succ) = 1
    BY <2>0, <2>1, <2>9, <2>4, <2>5, <2>7 DEF t
  <2>8. CASE Truth(s.val, succ) # 1
    <3>1. t = Imply(r, ImpliedAbove(s, value))
      BY <2>1, <2>6, <2>8
    <3>2. /\ t.ok => GoodState(t, U) /\ r.ok
          /\ IsState(t) /\ t.om = r.om /\ t.b = r.b
          /\ ~Preparing /\ t.ok => /\ t.val = Assigned(r.val, ImpliedAbove(s, value))
                                   /\ \A l \in ImpliedAbove(s, value) : Truth(r.val, l) # -1
      BY <2>5, <2>6, <3>1, ImplyOk
    <3>3. t.ok => t.b.lo = s.b.lo /\ (t.b.up = s.b.up \/ t.b.up = value) /\ t.b.up <= value
      BY <2>0, <2>9, <3>2
    <3> QED BY <2>4, <3>2, <3>3 DEF t
  <2> QED BY <2>7, <2>8
<1> QED BY <1>2, <1>3

\* The lower bound becomes value + 1.
LEMMA UpdateLowerOk ==
    ASSUME Assumptions, IInv, NEW U, U \subseteq Atoms, NEW s, GoodState(s, U), NEW m, MapOk(s.om, U, m),
           NEW value \in Int, NEW prev
    PROVE  LET t == UpdateLower(s, value, prev) IN
           /\ t.ok => GoodState(t, U) /\ s.ok
           /\ IsState(t) /\ t.om = s.om
           /\ t.ok => t.b.up = s.b.up /\ (t.b.lo = s.b.lo \/ t.b.lo = value + 1) /\ value + 1 <= t.b.lo
           /\ t.ok /\ ~Preparing =>
                \/ t.val = s.val /\ Truth(s.val, prev) = -1
                \/ /\ t.val = Assigned(s.val, ImpliedBelow(s, value))
                   /\ \A l \in ImpliedBelow(s, value) : Truth(s.val, l) # -1
<1> DEFINE t == UpdateLower(s, value, prev)
           lo == Max({s.b.lo, value + 1})
           r == [s EXCEPT !.b.lo = Max({@, value + 1})]
<1>1. IsState(s) /\ s.b \in Bounds /\ s.b.lo \in Int /\ s.b.up \in Int /\ Top.lo <= s.b.lo /\ s.b.lo <= s.b.up /\ s.b.up <= Top.up
      /\ Top.lo \in Int /\ Top.up \in Int
  BY Basics DEF GoodState, Bounds
<1>2. CASE s.b.up < value + 1
  <2>1. t = Fail(s)
    BY <1>2 DEF UpdateLower, Fail
  <2> HIDE DEF t
  <2>2. IsState(t) /\ t.om = s.om /\ ~t.ok
    BY <1>1, <2>1, FailIs
  <2> QED BY <2>2 DEF t
<1>3. CASE ~(s.b.up < value + 1)
  <2>0. /\ lo = s.b.lo \/ lo = value + 1
        /\ value + 1 <= lo
    <3>0. value + 1 \in Int
      OBVIOUS
    <3>1. lo = (IF s.b.lo >= value + 1 THEN s.b.lo ELSE value + 1)
      BY <1>1, <3>0, GreatestOfTwo
    <3> HIDE DEF lo
    <3> QED BY <3>1, <1>1
  <2>1. t = IF Truth(s.val, prev) = -1 THEN r ELSE Imply(r, ImpliedBelow(r, value))
    BY <1>3 DEF UpdateLower
  <2>2. r = SetLower(s, lo)
    BY DEF SetLower
  <2>3. lo = (IF s.b.lo >= value + 1 THEN s.b.lo ELSE value + 1) /\ lo \in Int /\ s.b.lo <= lo /\ lo <= s.b.up
    <3>0. value + 1 \in Int
      OBVIOUS
    <3>1. lo = (IF s.b.lo >= value + 1 THEN s.b.lo ELSE value + 1)
      BY <1>1, <3>0, GreatestOfTwo
    <3> HIDE DEF lo
    <3> QED BY <3>1, <1>1, <1>3
  <2> HIDE DEF r, lo, t
  <2>4. /\ IsState(r) /\ r.om = s.om /\ r.b = [lo |-> lo, up |-> s.b.up] /\ r.val = s.val /\ r.units = s.units
        /\ r.ok = s.ok
    BY <1>1, <2>2, LowerSet
  <2>5. GoodState(r, U)
    <3>1. r.b \in Bounds /\ Top.lo <= r.b.lo /\ r.b.lo <= r.b.up /\ r.b.up <= Top.up
      BY <1>1, <2>3, <2>4 DEF Bounds
    <3> QED BY <3>1, <2>4 DEF GoodState
  <2>6. ImpliedBelow(r, value) = ImpliedBelow(s, value) /\ ImpliedBelow(s, value) \subseteq LiteralsOf(U)
    BY <2>4, ImpliedAre DEF ImpliedBelow
  <2>9. r.b.up = s.b.up /\ r.b.lo = lo
    BY <2>4
  <2>7. CASE Truth(s.val, prev) = -1
    BY <2>0, <2>1, <2>9, <2>4, <2>5, <2>7 DEF t
  <2>8. CASE Truth(s.val, prev) # -1
    <3>1. t = Imply(r, ImpliedBelow(s, value))
      BY <2>1, <2>6, <2>8
    <3>2. /\ t.ok => GoodState(t, U) /\ r.ok
          /\ IsState(t) /\ t.om = r.om /\ t.b = r.b
          /\ ~Preparing /\ t.ok => /\ t.val = Assigned(r.val, ImpliedBelow(s, value))
                                   /\ \A l \in ImpliedBelow(s, value) : Truth(r.val, l) # -1
      BY <2>5, <2>6, <3>1, ImplyOk
    <3>3. t.ok => t.b.up = s.b.up /\ (t.b.lo = s.b.lo \/ t.b.lo = value + 1) /\ value + 1 <= t.b.lo
      BY <2>0, <2>9, <3>2
    <3> QED BY <2>4, <3>2, <3>3 DEF t
  <2> QED BY <2>7, <2>8
<1> QED BY <1>2, <1>3

\* The list of facts is emptied once all of them are integrated.
LEMMA NoFactsOk ==
    ASSUME OrderAssumption, NEW o, NEW U, NEW m, MapOk(o, U, m), m = Len(o.factmap)
    PROVE  LET q == NoFacts(o) IN
           MapOk(q, U, 0) /\ q.lits = o.lits /\ q.litmap = o.litmap /\ q.factmap = <<>>
<1> DEFINE f == o.lits
           g == o.litmap
           h == o.factmap
           q == NoFacts(o)
           e == <<>>
<1>1. /\ o = [lits |-> f, litmap |-> g, factmap |-> h] /\ o \in MapSet
      /\ f \in [DOMAIN f -> Int] /\ DOMAIN f \subseteq Int /\ g \in [DOMAIN g -> EntrySet] /\ DOMAIN g \subseteq Int
  BY MapParts DEF MapOk
<1>2. e \in Seq(FactSet) /\ Len(e) = 0
  OBVIOUS
<1>3. q = [o EXCEPT !.factmap = e]
  BY DEF NoFacts
<1>4. \A k \in DOMAIN f : f[k] \notin FactLits
  <2>1. Len(h) \in Nat
    BY MapParts DEF MapOk
  <2>2. (m + 1)..Len(h) = {}
    BY <2>1
  <2> QED BY <2>2 DEF MapOk, FactsListed
<1>5. FALSE \/ MapOk(o, U, m)
  OBVIOUS
<1> HIDE DEF f, g, h, e, q
<1>6. q = [lits |-> f, litmap |-> g, factmap |-> e]
  BY <1>1, <1>3, LitmapSet
<1>7. q.lits = f /\ q.litmap = g /\ q.factmap = e
  BY <1>6
<1>8. q \in MapSet
  BY <1>1, <1>2, <1>6, MapFrom
<1>9. q.lits = o.lits /\ q.litmap = o.litmap
  BY <1>7 DEF f, g
<1>10. FactsListed(q, 0)
  <2>1. Len(q.factmap) = 0
    BY <1>2, <1>7
  <2>2. (0 + 1)..Len(q.factmap) = {}
    BY <2>1
  <2> QED BY <1>4, <1>7, <2>2 DEF FactsListed
<1>11. EntriesLinked(q) /\ ValuesIndexed(q)
  <2>1. EntriesLinked(o) /\ ValuesIndexed(o)
    BY DEF MapOk
  <2>2. \A v : LitPrev(q, v) = LitPrev(o, v) /\ LitSucc(q, v) = LitSucc(o, v)
    BY <1>9 DEF LitPrev, LitSucc
  <2> QED BY <1>9, <2>1, <2>2 DEF EntriesLinked, ValuesIndexed
<1>12. MapOk(q, U, 0)
  BY <1>8, <1>9, <1>10, <1>11 DEF MapOk
<1> QED BY <1>7, <1>9, <1>12 DEF q, e

\* One fact of the list is integrated.
LEMMA IntegrateFactOk ==
    ASSUME Assumptions, IInv, NEW U, U \subseteq Atoms, NEW s, GoodState(s, U), s.ok,
           NEW m \in Nat, MapOk(s.om, U, m), m < Len(s.om.factmap)
    PROVE  LET t == IntegrateFact(s, s.om.factmap[m + 1]) IN
           t.ok => /\ GoodState(t, U) /\ MapOk(t.om, U, m + 1)
                   /\ DOMAIN t.om.litmap = DOMAIN s.om.litmap /\ t.om.factmap = s.om.factmap
<1> DEFINE f == s.om.factmap[m + 1]
           t == IntegrateFact(s, f)
           r == IF f.lit = T THEN UpdateUpper(s, f.value, f.prec) ELSE UpdateLower(s, f.value, f.prec)
           o == UnsetFact(s.om, f.value)
<1> SUFFICES ASSUME t.ok
             PROVE  /\ GoodState(t, U) /\ MapOk(t.om, U, m + 1)
                    /\ DOMAIN t.om.litmap = DOMAIN s.om.litmap /\ t.om.factmap = s.om.factmap
  OBVIOUS
<1>1. f.value \in Int
  <2>1. s.om.factmap \in Seq(FactSet) /\ m + 1 \in 1..Len(s.om.factmap)
    BY MapParts DEF MapOk
  <2>2. f \in FactSet
    BY <2>1
  <2> QED BY <2>2 DEF FactSet
<1>2. r.om = s.om /\ IsState(r) /\ (r.ok => GoodState(r, U))
  <2> DEFINE v == f.value
             p == f.prec
  <2>1. v \in Int
    BY <1>1
  <2>2. r = UpdateUpper(s, v, p) \/ r = UpdateLower(s, v, p)
    OBVIOUS
  <2> HIDE DEF v, p, r, t, o, f
  <2>3. GoodState(s, U) /\ MapOk(s.om, U, m) /\ U \subseteq Atoms /\ Assumptions /\ IInv
    OBVIOUS
  <2>4. /\ UpdateUpper(s, v, p).om = s.om /\ IsState(UpdateUpper(s, v, p))
        /\ UpdateUpper(s, v, p).ok => GoodState(UpdateUpper(s, v, p), U)
    BY ONLY <2>1, <2>3, UpdateUpperOk
  <2>5. /\ UpdateLower(s, v, p).om = s.om /\ IsState(UpdateLower(s, v, p))
        /\ UpdateLower(s, v, p).ok => GoodState(UpdateLower(s, v, p), U)
    BY ONLY <2>1, <2>3, UpdateLowerOk
  <2> QED BY ONLY <2>2, <2>4, <2>5
<1>3. t = IF ~r.ok THEN r ELSE [r EXCEPT !.om = UnsetLiteral(Relink(@, 0, f.value), f.value)]
  BY DEF IntegrateFact
<1>4. r.ok
  <2> HIDE DEF r
  <2> QED BY <1>3
<1>5. t = SetOm(r, o)
  <2>1. t = [r EXCEPT !.om = UnsetLiteral(Relink(r.om, 0, f.value), f.value)]
    <3> HIDE DEF r, f, t
    <3> QED BY ONLY <1>3, <1>4
  <2>2. UnsetLiteral(Relink(r.om, 0, f.value), f.value) = o
    BY <1>2 DEF UnsetFact
  <2> HIDE DEF r, t, o, f
  <2> QED BY <2>1, <2>2 DEF SetOm
<1>6. /\ MapOk(o, U, m + 1) /\ DOMAIN o.litmap = DOMAIN s.om.litmap /\ o.factmap = s.om.factmap
  <2>1. OrderAssumption
    BY DEF Assumptions
  <2> QED BY <2>1, UnsetFactOk
<1> HIDE DEF r, t, o, f
<1>7. IsState(t) /\ t.om = o /\ t.b = r.b /\ t.val = r.val /\ t.units = r.units
  BY <1>2, <1>5, OmSet
<1>8. GoodState(t, U)
  BY <1>2, <1>4, <1>7 DEF GoodState
<1> QED BY <1>6, <1>7, <1>8

\* The states after each of the facts of a list.
IsFactRun(s, list, k, g) == g = [i \in 0..k |-> IF i = 0 THEN s ELSE IntegrateFact(g[i - 1], list[i])]

\* The function that IntegrateFacts defines exists.
LEMMA FactRunExists ==
    ASSUME NEW s, NEW list, NEW N \in Nat
    PROVE  \E g : IsFactRun(s, list, N, g)
<1> DEFINE Good(k) == \E g : IsFactRun(s, list, k, g)
           Bad == {k \in 0..N : ~Good(k)}
<1>1. Good(0)
  <2> DEFINE g == [j \in 0..0 |-> s]
  <2>1. IsFactRun(s, list, 0, g)
    BY DEF IsFactRun
  <2> QED BY <2>1
<1>2. ASSUME NEW k \in 1..N, Good(k - 1)
      PROVE  Good(k)
  <2>1. PICK g : IsFactRun(s, list, k - 1, g)
    BY <1>2
  <2> DEFINE last == IntegrateFact(g[k - 1], list[k])
             h == [j \in 0..k |-> IF j = k THEN last ELSE g[j]]
  <2>2. \A j \in 0..(k - 1) : g[j] = IF j = 0 THEN s ELSE IntegrateFact(g[j - 1], list[j])
    BY <2>1 DEF IsFactRun
  <2>3. ASSUME NEW j \in 0..k
        PROVE  h[j] = IF j = 0 THEN s ELSE IntegrateFact(h[j - 1], list[j])
    <3>1. CASE j = k
      BY <3>1
    <3>2. CASE j < k
      <4>1. j \in 0..(k - 1)
        BY <3>2
      <4>2. j # 0 => h[j - 1] = g[j - 1]
        BY <3>2
      <4>3. h[j] = g[j]
        BY <3>2
      <4> HIDE DEF h
      <4> QED BY <4>1, <4>2, <4>3, <2>2
    <3> QED BY <3>1, <3>2
  <2>4. h = [j \in 0..k |-> h[j]]
    OBVIOUS
  <2> HIDE DEF h
  <2>5. IsFactRun(s, list, k, h)
    BY <2>3, <2>4 DEF IsFactRun
  <2> QED BY <2>5
<1>3. Bad = {}
  <2>1. 0 \notin Bad
    BY <1>1
  <2>2. \A k \in 1..N : k - 1 \notin Bad => k \notin Bad
    <3> SUFFICES ASSUME NEW k \in 1..N, k - 1 \notin Bad PROVE k \notin Bad
      OBVIOUS
    <3>1. k - 1 \in 0..N
      OBVIOUS
    <3> HIDE DEF Good
    <3>2. Good(k - 1)
      BY <3>1
    <3> QED BY <1>2, <3>2
  <2>3. Bad \subseteq 0..N
    OBVIOUS
  <2> HIDE DEF Bad
  <2> QED BY <2>1, <2>2, <2>3, CountUp
<1>4. N \in 0..N
  OBVIOUS
<1>5. Good(N)
  <2> HIDE DEF Good
  <2> QED BY <1>3, <1>4
<1> QED BY <1>5

\* IntegrateFacts, step by step.
LEMMA FactRun ==
    ASSUME NEW s, Len(s.om.factmap) \in Nat
    PROVE  \E run :
             /\ IntegrateFacts(s) = IF run[Len(s.om.factmap)].ok
                                    THEN SetOm(run[Len(s.om.factmap)], NoFacts(run[Len(s.om.factmap)].om))
                                    ELSE run[Len(s.om.factmap)]
             /\ \A i \in 0..Len(s.om.factmap) :
                  run[i] = IF i = 0 THEN s ELSE IntegrateFact(run[i - 1], s.om.factmap[i])
<1> DEFINE N == Len(s.om.factmap)
           Is(g) == g = [i \in 0..N |-> IF i = 0 THEN s ELSE IntegrateFact(g[i - 1], s.om.factmap[i])]
           run == CHOOSE g : Is(g)
<1>1. IntegrateFacts(s) = IF run[N].ok THEN [run[N] EXCEPT !.om.factmap = <<>>] ELSE run[N]
  BY DEF IntegrateFacts
<1>2. \E g : Is(g)
  <2> DEFINE list == s.om.factmap
  <2>1. PICK g : IsFactRun(s, list, N, g)
    <3> HIDE DEF list
    <3> QED BY FactRunExists
  <2>2. Is(g)
    BY <2>1, Zenon DEF IsFactRun
  <2> HIDE DEF Is
  <2> QED BY <2>2
<1>3. Is(run)
  <2> HIDE DEF Is
  <2> QED BY <1>2
<1> HIDE DEF run
<1>4. \A i \in 0..N : run[i] = IF i = 0 THEN s ELSE IntegrateFact(run[i - 1], s.om.factmap[i])
  <2> DEFINE f == [i \in 0..N |-> IF i = 0 THEN s ELSE IntegrateFact(run[i - 1], s.om.factmap[i])]
  <2>1. run = f
    BY <1>3
  <2>2. \A i \in 0..N : f[i] = IF i = 0 THEN s ELSE IntegrateFact(run[i - 1], s.om.factmap[i])
    OBVIOUS
  <2> HIDE DEF f
  <2> QED BY <2>1, <2>2
<1>5. \A r : [r EXCEPT !.om.factmap = <<>>] = SetOm(r, NoFacts(r.om))
  BY DEF SetOm, NoFacts
<1>6. IntegrateFacts(s) = IF run[N].ok THEN SetOm(run[N], NoFacts(run[N].om)) ELSE run[N]
  <2> DEFINE r == run[N]
  <2> HIDE DEF r
  <2>1. IntegrateFacts(s) = IF r.ok THEN [r EXCEPT !.om.factmap = <<>>] ELSE r
    BY <1>1 DEF r
  <2>2. IntegrateFacts(s) = IF r.ok THEN SetOm(r, NoFacts(r.om)) ELSE r
    BY ONLY <2>1, <1>5, Zenon
  <2> QED BY <2>2 DEF r
<1> QED BY <1>4, <1>6

\* Integrating all facts.
LEMMA IntegrateFactsOk ==
    ASSUME Assumptions, IInv, NEW U, U \subseteq Atoms, NEW s, GoodState(s, U), s.ok, MapOk(s.om, U, 0)
    PROVE  LET t == IntegrateFacts(s) IN
           t.ok => /\ GoodState(t, U) /\ MapOk(t.om, U, 0)
                   /\ DOMAIN t.om.litmap = DOMAIN s.om.litmap /\ t.om.factmap = <<>>
<1> DEFINE list == s.om.factmap
           N == Len(list)
           t == IntegrateFacts(s)
<1>1. N \in Nat
  BY MapParts DEF MapOk
<1>2. PICK run : /\ t = IF run[N].ok THEN SetOm(run[N], NoFacts(run[N].om)) ELSE run[N]
                 /\ \A i \in 0..N : run[i] = IF i = 0 THEN s ELSE IntegrateFact(run[i - 1], list[i])
  BY <1>1, FactRun
<1> DEFINE Keeps(k) == /\ GoodState(run[k], U) /\ MapOk(run[k].om, U, k)
                       /\ DOMAIN run[k].om.litmap = DOMAIN s.om.litmap /\ run[k].om.factmap = list
           Bad == {k \in 0..N : ~(run[k].ok => Keeps(k))}
<1>3. 0 \notin Bad
  <2>1. run[0] = s
    BY <1>1, <1>2
  <2> QED BY <2>1
<1>4. ASSUME NEW k \in 1..N, k - 1 \notin Bad
      PROVE  k \notin Bad
  <2> SUFFICES ASSUME run[k].ok PROVE Keeps(k)
    OBVIOUS
  <2> DEFINE r == run[k - 1]
             m == k - 1
  <2>1. m \in 0..N /\ m \in Nat /\ m + 1 = k /\ k \in 0..N /\ k # 0 /\ m < N
    BY <1>1
  <2>2. run[k] = IntegrateFact(r, list[k])
    BY <1>2, <2>1
  <2>3. r.ok
    <3> SUFFICES ASSUME ~r.ok PROVE FALSE
      OBVIOUS
    <3> DEFINE x == list[k]
    <3> HIDE DEF r, x
    <3>1. IntegrateFact(r, x) = r
      BY DEF IntegrateFact
    <3> QED BY <2>2, <3>1 DEF x
  <2>4. Keeps(m)
    <3> HIDE DEF Keeps
    <3> QED BY <1>4, <2>1, <2>3
  <2>5. GoodState(r, U) /\ MapOk(r.om, U, m) /\ DOMAIN r.om.litmap = DOMAIN s.om.litmap /\ r.om.factmap = list
    BY <2>4
  <2> HIDE DEF r, m, Keeps
  <2>6. run[k] = IntegrateFact(r, r.om.factmap[m + 1]) /\ m < Len(r.om.factmap)
    BY <2>1, <2>2, <2>5
  <2> HIDE DEF list
  <2>7. /\ GoodState(run[k], U) /\ MapOk(run[k].om, U, m + 1)
        /\ DOMAIN run[k].om.litmap = DOMAIN r.om.litmap /\ run[k].om.factmap = r.om.factmap
    BY <2>1, <2>3, <2>5, <2>6, IntegrateFactOk
  <2> QED BY <2>1, <2>5, <2>7 DEF Keeps
<1>5. Bad = {}
  <2>1. Bad \subseteq 0..N
    OBVIOUS
  <2> HIDE DEF Bad, N
  <2> QED BY <1>1, <1>3, <1>4, <2>1, CountUp
<1> SUFFICES ASSUME t.ok
             PROVE  /\ GoodState(t, U) /\ MapOk(t.om, U, 0)
                    /\ DOMAIN t.om.litmap = DOMAIN s.om.litmap /\ t.om.factmap = <<>>
  OBVIOUS
<1> DEFINE r == run[N]
           o == NoFacts(r.om)
<1>6. r.ok
  <2> HIDE DEF r, t
  <2>1. t = IF r.ok THEN SetOm(r, NoFacts(r.om)) ELSE r
    BY <1>2 DEF r, t
  <2> QED BY <2>1
<1>7. GoodState(r, U) /\ MapOk(r.om, U, N) /\ DOMAIN r.om.litmap = DOMAIN s.om.litmap /\ r.om.factmap = list
  <2>1. N \in 0..N
    BY <1>1
  <2>2. Keeps(N)
    <3> HIDE DEF Keeps
    <3> QED BY <1>5, <1>6, <2>1
  <2> QED BY <2>2
<1>8. t = SetOm(r, o)
  <2> HIDE DEF r, t
  <2> QED BY <1>2, <1>6 DEF r, t
<1> HIDE DEF r, t, Keeps, Bad
<1>9. MapOk(o, U, 0) /\ o.litmap = r.om.litmap /\ o.factmap = <<>>
  BY <1>7, NoFactsOk DEF Assumptions
<1> HIDE DEF o, list, N
<1>10. IsState(t) /\ t.om = o /\ t.b = r.b /\ t.val = r.val /\ t.units = r.units
  BY <1>7, <1>8, OmSet DEF GoodState
<1>11. GoodState(t, U)
  BY <1>7, <1>10 DEF GoodState
<1> QED BY <1>7, <1>9, <1>10, <1>11

\* Without facts nothing changes.
LEMMA IntegrateNothing ==
    ASSUME NEW s, IsState(s), s.om \in MapSet, s.om.factmap = <<>>, s.ok
    PROVE  LET t == IntegrateFacts(s) IN
           t.om = s.om /\ t.b = s.b /\ t.val = s.val /\ t.units = s.units /\ t.ok
<1> DEFINE t == IntegrateFacts(s)
           o == NoFacts(s.om)
<1>1. Len(s.om.factmap) = 0
  OBVIOUS
<1>2. PICK run : /\ t = IF run[0].ok THEN SetOm(run[0], NoFacts(run[0].om)) ELSE run[0]
                 /\ \A i \in 0..0 : run[i] = IF i = 0 THEN s ELSE IntegrateFact(run[i - 1], s.om.factmap[i])
  BY <1>1, FactRun
<1>3. run[0] = s
  BY <1>2
<1>4. t = SetOm(s, o)
  BY <1>2, <1>3
<1>5. o = s.om
  <2> DEFINE r == s.om
             f == r.lits
             g == r.litmap
             e == r.factmap
  <2>1. r = [lits |-> f, litmap |-> g, factmap |-> e]
    BY MapParts
  <2>2. e = <<>> /\ o = [r EXCEPT !.factmap = e]
    BY DEF NoFacts
  <2> HIDE DEF r, f, g, e, o
  <2>3. o = r
    BY <2>1, <2>2, LitmapSet
  <2> QED BY <2>3 DEF r
<1> HIDE DEF t, o
<1>6. IsState(t) /\ t.om = o /\ t.b = s.b /\ t.val = s.val /\ t.units = s.units /\ t.ok = s.ok
  <2>1. IsState(s)
    OBVIOUS
  <2> QED BY ONLY <2>1, <1>4, OmSet
<1> QED BY <1>5, <1>6 DEF t

-----------------------------------------------------------------------------
(* The next state.                                                         *)

\* The truth of a literal depends on the value of its atom.
LEMMA SameTruth ==
    ASSUME NEW v, NEW w, NEW l \in Int, Abs(l) = T \/ v[Abs(l)] = w[Abs(l)]
    PROVE  Truth(v, l) = Truth(w, l)
<1>1. CASE Abs(l) = T
  BY <1>1 DEF Truth
<1>2. CASE Abs(l) # T /\ l > 0
  <2>1. Abs(l) = l
    BY <1>2 DEF Abs
  <2> QED BY <1>2, <2>1 DEF Truth
<1>3. CASE Abs(l) # T /\ ~(l > 0)
  <2>1. Abs(l) = -l
    BY <1>3 DEF Abs
  <2>2. Truth(v, l) = -v[-l] /\ Truth(w, l) = -w[-l]
    BY <1>3 DEF Truth
  <2>3. v[-l] = w[-l]
    BY <1>3, <2>1
  <2> QED BY <2>2, <2>3
<1> QED BY <1>1, <1>2, <1>3

\* Literals keep their value when the assignment grows.
LEMMA TruthKept ==
    ASSUME Atoms \subseteq Nat \ {0, 1}, assign \in [Atoms -> {-1, 0, 1}], NEW val,
           \A a \in Atoms : assign[a] # 0 => val[a] = assign[a],
           NEW l \in LiteralsOf(Atoms), Truth(assign, l) # 0
    PROVE  Truth(val, l) = Truth(assign, l)
<1>1. l \in Int /\ (l \in FactLits \/ Abs(l) \in Atoms) /\ (Abs(l) \in Atoms => (Truth(assign, l) = 0 <=> assign[Abs(l)] = 0))
  <2>1. Atoms \subseteq Nat \ {0, 1} /\ assign \in [Atoms -> {-1, 0, 1}] /\ l \in LiteralsOf(Atoms)
    OBVIOUS
  <2>2. l \in Int /\ (l \in FactLits \/ Abs(l) \in Atoms)
    BY ONLY <2>1, TruthIs
  <2>3. Abs(l) \in Atoms => (Truth(assign, l) = 0 <=> assign[Abs(l)] = 0)
    BY ONLY <2>1, TruthZero
  <2> QED BY ONLY <2>2, <2>3
<1>2. CASE l \in FactLits
  <2>1. Abs(l) = T
    BY <1>2 DEF FactLits, Abs, T
  <2> QED BY <1>1, <2>1, SameTruth
<1>3. CASE l \notin FactLits
  <2>1. Abs(l) \in Atoms /\ assign[Abs(l)] # 0
    BY <1>1, <1>3
  <2>2. val[Abs(l)] = assign[Abs(l)]
    BY <2>1
  <2> QED BY <1>1, <2>2, SameTruth
<1> QED BY <1>2, <1>3

\* Newly assigned literals are true.
LEMMA NewLitsTrue ==
    ASSUME Atoms \subseteq Nat \ {0, 1}, NEW val \in [Atoms -> {-1, 0, 1}],
           \A a \in Atoms : assign[a] # 0 => val[a] = assign[a]
    PROVE  /\ NewLits(val) \subseteq Literals
           /\ \A l \in NewLits(val) : Truth(val, l) = 1
           /\ \A a \in Atoms : val[a] # assign[a] => val[a] * a \in NewLits(val) /\ val[a] # 0
<1>1. ASSUME NEW a \in Atoms, val[a] # assign[a]
      PROVE  LET l == IF val[a] = 1 THEN a ELSE -a IN
             l \in Literals /\ Truth(val, l) = 1 /\ l = val[a] * a /\ val[a] # 0
  <2> DEFINE l == IF val[a] = 1 THEN a ELSE -a
  <2>1. a \in Nat /\ a > 1 /\ val[a] \in {-1, 0, 1}
    OBVIOUS
  <2>2. val[a] # 0
    BY <1>1
  <2>3. l \in Literals
    BY DEF Literals, LiteralsOf
  <2>4. Abs(a) = a /\ Abs(-a) = a /\ -(-a) = a /\ ~(-a > 0) /\ a > 0
    BY ONLY <2>1 DEF Abs
  <2>5. Truth(val, a) = val[a] /\ Truth(val, -a) = -val[a]
    BY <2>1, <2>4 DEF Truth, T
  <2>6. val[a] = 1 \/ val[a] = -1
    BY <2>1, <2>2
  <2>7. CASE val[a] = 1
    <3>1. l = a /\ 1 * a = a
      BY <2>1, <2>7
    <3> QED BY <2>2, <2>3, <2>5, <2>7, <3>1
  <2>8. CASE val[a] = -1
    <3>1. l = -a
      BY <2>8
    <3> DEFINE v == val[a]
    <3>2. v = -1 /\ a \in Int /\ v \in Int /\ v \in {-1, 0, 1}
      BY <2>1, <2>8
    <3> HIDE DEF v
    <3>4. v * a = -a
      BY ONLY <3>2
    <3>5. -v = 1
      BY ONLY <3>2, NegatedTruth
    <3>3. v * a = -a /\ -v = 1
      BY ONLY <3>4, <3>5
    <3> QED BY <2>1, <2>2, <2>3, <2>5, <2>8, <3>1, <3>3 DEF v
  <2> QED BY <2>6, <2>7, <2>8
<1>2. NewLits(val) \subseteq Literals /\ \A l \in NewLits(val) : Truth(val, l) = 1
  BY <1>1 DEF NewLits
<1>3. \A a \in Atoms : val[a] # assign[a] => val[a] * a \in NewLits(val) /\ val[a] # 0
  BY <1>1 DEF NewLits
<1> QED BY <1>2, <1>3

\* Without levels there is nothing to show.
LEMMA LevelsTrivial ==
    ASSUME NEW A, NEW o, NEW val, NEW lev, NEW q, NEW tr, Len(tr) = 1
    PROVE  LevelsOk(A, o, val, lev, q, tr)
<1>1. 2..Len(tr) = {}
  OBVIOUS
<1> QED BY <1>1 DEF LevelsOk, BoundsIn, LevelsIn, ClosedIn

\* The map does not depend on anything that changes in a step.
LEMMA MapPrimed ==
    ASSUME NEW o, NEW U, MapOk(o, U, 0), program' = program, om' = o, used' = U
    PROVE  MapOk(om, used, 0)'
<1>1. Literals' = Literals
  BY DEF Literals, LiteralsOf, Atoms
<1>2. FactsListed(o, 0) => FactsListed(om, 0)'
  BY <1>1 DEF FactsListed, FactLits, T
<1>3. EntriesLinked(o) => EntriesLinked(om)'
  <2>1. \A k : LitPrev(om, k)' = LitPrev(o, k) /\ LitSucc(om, k)' = LitSucc(o, k)
    BY DEF LitPrev, LitSucc
  <2> QED BY ONLY om' = o, <2>1 DEF EntriesLinked
<1>4. ValuesIndexed(o) => ValuesIndexed(om)'
  BY DEF ValuesIndexed, FactLits
<1>5. o \in MapSet /\ DOMAIN o.lits \subseteq Lo..(Hi - 1) /\ DOMAIN o.litmap \subseteq U
      /\ EntriesLinked(o) /\ ValuesIndexed(o) /\ FactsListed(o, 0)
  BY DEF MapOk
<1>6. om' \in MapSet /\ DOMAIN om'.lits \subseteq Lo..(Hi - 1) /\ DOMAIN om'.litmap \subseteq used'
  BY <1>5
<1> QED BY <1>2, <1>3, <1>4, <1>5, <1>6 DEF MapOk

\* The bounds of the current level change.
LEMMA TopChanged ==
    ASSUME NEW tr \in Seq(Bounds), NEW n, n = Len(tr), n > 0, NEW b \in Bounds,
           \A i \in 1..n : tr[i].lo <= tr[i].up,
           \A i, j \in 1..n : i <= j => tr[i].lo <= tr[j].lo /\ tr[j].up <= tr[i].up,
           tr[n].lo <= b.lo, b.up <= tr[n].up, b.lo <= b.up
    PROVE  LET t == [tr EXCEPT ![n] = b] IN
           /\ t \in Seq(Bounds) /\ Len(t) = n
           /\ \A i \in 1..n : t[i] = IF i = n THEN b ELSE tr[i]
           /\ \A i \in 1..n : t[i].lo <= t[i].up
           /\ \A i, j \in 1..n : i <= j => t[i].lo <= t[j].lo /\ t[j].up <= t[i].up
           /\ tr[1].lo <= t[1].lo /\ t[1].up <= tr[1].up
<1> DEFINE t == [tr EXCEPT ![n] = b]
<1>1. n \in Nat /\ DOMAIN tr = 1..n /\ 1 \in 1..n /\ n \in 1..n
  OBVIOUS
<1>2. t \in Seq(Bounds) /\ Len(t) = n /\ \A i \in 1..n : t[i] = IF i = n THEN b ELSE tr[i]
  OBVIOUS
<1>3. b.lo \in Int /\ b.up \in Int /\ \A i \in 1..n : tr[i].lo \in Int /\ tr[i].up \in Int
  <2>1. \A x \in Bounds : x.lo \in Int /\ x.up \in Int
    BY DEF Bounds
  <2>2. \A i \in 1..n : tr[i] \in Bounds
    BY <1>1
  <2> QED BY ONLY <2>1, <2>2, b \in Bounds
<1> HIDE DEF t
<1>4. \A i \in 1..n : tr[i].lo <= t[i].lo /\ t[i].up <= tr[i].up /\ t[i].lo <= t[i].up
                      /\ t[i].lo \in Int /\ t[i].up \in Int
  BY <1>1, <1>2, <1>3
<1>5. ASSUME NEW i \in 1..n, NEW j \in 1..n, i <= j
      PROVE  t[i].lo <= t[j].lo /\ t[j].up <= t[i].up
  <2>1. CASE i = n
    <3>1. j = n
      BY <1>1, <1>5, <2>1
    <3> QED BY <1>4, <2>1, <3>1
  <2>2. CASE i # n
    <3>1. t[i] = tr[i]
      BY <1>2, <2>2
    <3>2. tr[i].lo <= tr[j].lo /\ tr[j].up <= tr[i].up
      BY <1>5
    <3>3. /\ tr[j].lo <= t[j].lo /\ t[j].up <= tr[j].up /\ t[j].lo \in Int /\ t[j].up \in Int
          /\ tr[i].lo \in Int /\ tr[i].up \in Int /\ tr[j].lo \in Int /\ tr[j].up \in Int
      BY ONLY i \in 1..n, j \in 1..n, <1>3, <1>4
    <3> QED BY ONLY <3>1, <3>2, <3>3
  <2> QED BY <2>1, <2>2
<1> QED BY <1>1, <1>2, <1>4, <1>5 DEF t

\* A step that succeeds keeps the invariant.
LEMMA BecomeKeeps ==
    ASSUME Assumptions, IInv, NEW U, used \subseteq U, U \subseteq Atoms,
           NEW s, s.ok, GoodState(s, U), MapOk(s.om, U, 0), s.om.factmap # <<>> => dl = 0,
           NEW rest, rest \subseteq queue, NEW next, next \in Building \union Searching,
           dl > 0 => next \in Searching, next \in Searching => pc \in Searching,
           next = "fixpoint" => rest \union NewLits(s.val) = {} /\ s.om.factmap = <<>>,
           \A a \in DOMAIN s.om.litmap :
             assign[a] # 0 /\ alevel[a] = 0 => dl = 0 /\ assign[a] * a \in rest,
           Become(s, rest, next), used' = U, static' = static, program' = program,
           dl > 0 => LevelsOk(Atoms, s.om, s.val, alevel', rest \union NewLits(s.val), trail')
    PROVE  IInv'
<1>1. /\ om' = s.om /\ trail' = [trail EXCEPT ![Len(trail)] = s.b] /\ units' = s.units
      /\ assign' = s.val /\ queue' = rest \union NewLits(s.val) /\ pc' = next
      /\ alevel' = [a \in Atoms |-> IF s.val[a] # assign[a] THEN dl ELSE alevel[a]]
  BY DEF Become, AssignAt
<1>2. /\ Atoms \subseteq Nat \ {0, 1} /\ Len(trail) \in Nat /\ Len(trail) >= 1 /\ dl \in Nat /\ dl = Len(trail) - 1
      /\ assign \in [Atoms -> {-1, 0, 1}] /\ alevel \in [Atoms -> 0..dl]
      /\ \A a \in Atoms : /\ assign[a] # 0 => a \in used
                          /\ assign[a] = 0 => alevel[a] = 0
      /\ queue \subseteq Literals /\ \A l \in queue : Truth(assign, l) = 1
  BY Basics DEF IInv, AssignInv, IsTrue
<1>3. /\ s.val \in [Atoms -> {-1, 0, 1}] /\ s.b \in Bounds /\ s.units \subseteq LiteralsOf(U)
      /\ \A a \in Atoms : assign[a] # 0 => s.val[a] = assign[a]
      /\ \A a \in Atoms : s.val[a] # assign[a] => a \in U
      /\ ~Preparing => s.units = units
      /\ Top.lo <= s.b.lo /\ s.b.lo <= s.b.up /\ s.b.up <= Top.up
  BY DEF GoodState
<1>4. Atoms' = Atoms /\ Literals' = Literals /\ Clits' = Clits
  BY DEF Literals, LiteralsOf, Atoms, Clits
<1>5. /\ NewLits(s.val) \subseteq Literals
      /\ \A l \in NewLits(s.val) : Truth(s.val, l) = 1
      /\ \A a \in Atoms : s.val[a] # assign[a] => s.val[a] * a \in NewLits(s.val) /\ s.val[a] # 0
  <2> DEFINE v == s.val
  <2>1. Atoms \subseteq Nat \ {0, 1} /\ v \in [Atoms -> {-1, 0, 1}] /\ \A a \in Atoms : assign[a] # 0 => v[a] = assign[a]
    BY <1>2, <1>3
  <2> HIDE DEF v
  <2>2. /\ NewLits(v) \subseteq Literals
        /\ \A l \in NewLits(v) : Truth(v, l) = 1
        /\ \A a \in Atoms : v[a] # assign[a] => v[a] * a \in NewLits(v) /\ v[a] # 0
    BY ONLY <2>1, NewLitsTrue
  <2> QED BY <2>2 DEF v
<1>6. /\ trail' \in Seq(Bounds) /\ Len(trail') = Len(trail)
      /\ \A i \in 1..Len(trail) : trail'[i].lo <= trail'[i].up
      /\ \A i, j \in 1..Len(trail) : i <= j => trail'[i].lo <= trail'[j].lo /\ trail'[j].up <= trail'[i].up
      /\ trail[1].lo <= trail'[1].lo /\ trail'[1].up <= trail[1].up
  <2> DEFINE n == Len(trail)
             b == s.b
             t == [trail EXCEPT ![n] = b]
  <2>1. /\ trail \in Seq(Bounds) /\ n = Len(trail) /\ n > 0 /\ b \in Bounds
        /\ \A i \in 1..n : trail[i].lo <= trail[i].up
        /\ \A i, j \in 1..n : i <= j => trail[i].lo <= trail[j].lo /\ trail[j].up <= trail[i].up
        /\ trail[n].lo <= b.lo /\ b.up <= trail[n].up /\ b.lo <= b.up
    BY <1>2, <1>3 DEF IInv, TrailInv, Top
  <2>2. trail' = t
    BY <1>1
  <2> HIDE DEF n, b
  <2>3. /\ t \in Seq(Bounds) /\ Len(t) = n
        /\ \A i \in 1..n : t[i].lo <= t[i].up
        /\ \A i, j \in 1..n : i <= j => t[i].lo <= t[j].lo /\ t[j].up <= t[i].up
        /\ trail[1].lo <= t[1].lo /\ t[1].up <= trail[1].up
    BY ONLY <2>1, TopChanged
  <2> HIDE DEF t
  <2> QED BY <2>2, <2>3 DEF n
<1>7. dl' = dl
  BY <1>6 DEF dl
<1>8. TrailInv'
  <2>1. Len(trail') > 0
    BY <1>2, <1>6
  <2>2. Lo <= trail'[1].lo /\ trail'[1].up <= Hi
    <3>1. Lo <= trail[1].lo /\ trail[1].up <= Hi
      BY DEF IInv, TrailInv, MinBound, MaxBound
    <3>2. trail[1].lo \in Int /\ trail[1].up \in Int /\ Lo \in Int /\ Hi \in Int
      BY Basics DEF MinBound, MaxBound
    <3>3. trail'[1].lo \in Int /\ trail'[1].up \in Int
      <4>1. trail'[1] \in Bounds
        BY <1>2, <1>6
      <4> QED BY <4>1 DEF Bounds
    <3> QED BY <1>6, <3>1, <3>2, <3>3
  <2>3. /\ trail' \in Seq(Bounds)
        /\ \A i \in 1..Len(trail') : trail'[i].lo <= trail'[i].up
        /\ \A i, j \in 1..Len(trail') : i <= j => trail'[i].lo <= trail'[j].lo /\ trail'[j].up <= trail'[i].up
    BY <1>6
  <2> QED BY <2>1, <2>2, <2>3 DEF TrailInv, MinBound, MaxBound
<1>9. PhaseInv'
  <2>1. /\ program \in Programs /\ Clits \subseteq used /\ static \subseteq used
        /\ pc \in Searching => Clits \subseteq static /\ units = {}
    BY DEF IInv, PhaseInv
  <2>2. pc \in Searching => ~Preparing
    BY DEF Searching, Preparing
  <2>3. program' \in Programs /\ Clits' \subseteq used' /\ static' \subseteq used' /\ used' \subseteq Atoms'
    BY <1>4, <2>1
  <2>4. pc' \in Searching => Clits' \subseteq static' /\ units' = {}
    BY <1>1, <1>3, <1>4, <2>1, <2>2
  <2>5. units' \subseteq LiteralsOf(used')
    BY <1>1, <1>3
  <2>6. om'.factmap # <<>> => dl' = 0
    BY <1>1, <1>7
  <2>7. pc' = "fixpoint" => queue' = {} /\ om'.factmap = <<>>
    BY <1>1
  <2>8. pc' \in Building \union Searching /\ (dl' > 0 => pc' \in Searching)
    BY <1>1, <1>7
  <2>9. LiteralsOf(used)' = LiteralsOf(used')
    BY DEF LiteralsOf
  <2> QED BY <2>3, <2>4, <2>5, <2>6, <2>7, <2>8, <2>9 DEF PhaseInv, Building, Searching
<1>10. AssignInv'
  <2>1. alevel' \in [Atoms -> 0..dl]
    BY <1>1, <1>2
  <2>2. ASSUME NEW a \in Atoms
        PROVE  /\ s.val[a] # 0 => a \in U
               /\ s.val[a] = 0 => alevel'[a] = 0
    <3>1. s.val[a] # 0 => a \in U
      BY <1>2, <1>3
    <3>2. s.val[a] = 0 => s.val[a] = assign[a]
      BY <1>5
    <3>3. alevel'[a] = IF s.val[a] # assign[a] THEN dl ELSE alevel[a]
      BY <1>1
    <3> QED BY <1>2, <3>1, <3>2, <3>3
  <2>3. queue' \subseteq Literals /\ \A l \in queue' : Truth(s.val, l) = 1
    <3>1. ASSUME NEW l \in rest PROVE Truth(s.val, l) = 1
      <4> DEFINE v == s.val
      <4>1. l \in LiteralsOf(Atoms) /\ Truth(assign, l) = 1 /\ \A a \in Atoms : assign[a] # 0 => v[a] = assign[a]
        BY <1>2, <1>3 DEF Literals
      <4>2. Truth(assign, l) # 0
        BY <4>1
      <4> HIDE DEF v
      <4>3. Truth(v, l) = Truth(assign, l)
        BY <1>2, <4>1, <4>2, TruthKept
      <4> QED BY <4>1, <4>3 DEF v
    <3> QED BY <1>1, <1>2, <1>5, <3>1
  <2>4. \A a \in Atoms' : /\ assign'[a] # 0 => a \in used'
                          /\ assign'[a] = 0 => alevel'[a] = 0
    BY <1>1, <1>4, <2>2
  <2>5. assign' \in [Atoms' -> {-1, 0, 1}] /\ alevel' \in [Atoms' -> 0..dl']
    BY <1>1, <1>3, <1>4, <1>7, <2>1
  <2>6. queue' \subseteq Literals' /\ \A l \in queue' : Truth(assign', l) = 1
    BY <1>1, <1>4, <2>3
  <2>7. \A l : IsTrue(l)' <=> Truth(assign', l) = 1
    BY DEF IsTrue, Truth, T
  <2> QED BY <2>4, <2>5, <2>6, <2>7 DEF AssignInv
<1>11. MapOk(om, used, 0)'
  <2> DEFINE o == s.om
  <2>1. MapOk(o, U, 0) /\ om' = o
    BY <1>1
  <2> HIDE DEF o
  <2> QED BY <2>1, MapPrimed
<1>12. TopInv'
  <2> SUFFICES ASSUME NEW a \in DOMAIN s.om.litmap, s.val[a] # 0, alevel'[a] = 0
               PROVE  dl = 0 /\ s.val[a] * a \in rest \union NewLits(s.val)
    BY <1>1, <1>7 DEF TopInv
  <2>1. a \in Atoms
    BY DEF MapOk
  <2>2. CASE s.val[a] = assign[a]
    <3>1. alevel[a] = 0
      BY <1>1, <2>1, <2>2
    <3> QED BY <2>2, <3>1
  <2>3. CASE s.val[a] # assign[a]
    <3>0. alevel'[a] = IF s.val[a] # assign[a] THEN dl ELSE alevel[a]
      BY <1>1, <2>1
    <3>1. dl = 0
      BY ONLY alevel'[a] = 0, <2>3, <3>0
    <3> QED BY <1>5, <2>1, <2>3, <3>1
  <2> QED BY <2>2, <2>3
<1>13. LevelsInv'
  <2>1. LevelsOk(Atoms, s.om, s.val, alevel', rest \union NewLits(s.val), trail')
    <3>1. CASE dl > 0
      BY <3>1
    <3>2. CASE ~(dl > 0)
      <4>1. Len(trail') = 1
        BY <1>2, <1>6, <3>2
      <4> QED BY <4>1, LevelsTrivial
    <3> QED BY <3>1, <3>2
  <2>2. LevelsOk(Atoms', om', assign', alevel', queue', trail')
    BY <1>1, <1>4, <2>1
  <2> QED BY ONLY <2>2, Zenon DEF LevelsInv, LevelsOk, BoundsIn, LevelsIn, ClosedIn, TrueIn, FalseIn, Truth, Abs, T
<1> QED BY <1>8, <1>9, <1>10, <1>11, <1>12, <1>13 DEF IInv

\* A step that fails only has more atoms.
LEMMA BecomeFails ==
    ASSUME Assumptions, IInv, NEW U, used \subseteq U, U \subseteq Atoms, NEW s, ~s.ok, NEW rest, NEW next,
           Become(s, rest, next), used' = U, static' = static, program' = program
    PROVE  IInv'
<1>1. /\ UNCHANGED <<om, trail, units, assign, alevel, queue>>
      /\ pc' = IF dl = 0 THEN "unsat" ELSE "conflict"
  BY DEF Become
<1>2. Atoms' = Atoms /\ Literals' = Literals /\ Clits' = Clits /\ dl' = dl
  BY <1>1 DEF Literals, LiteralsOf, Atoms, Clits, dl
<1>3. dl \in Nat
  BY Basics
<1>4. PhaseInv'
  <2>1. /\ program \in Programs /\ Clits \subseteq used /\ static \subseteq used
        /\ pc \in Searching => Clits \subseteq static /\ units = {}
        /\ dl > 0 => pc \in Searching
        /\ units \subseteq LiteralsOf(used) /\ (om.factmap # <<>> => dl = 0)
    BY DEF IInv, PhaseInv
  <2>2. units' \subseteq LiteralsOf(used)'
    <3>1. units \subseteq LiteralsOf(U)
      BY <2>1, MoreLiterals
    <3>2. LiteralsOf(used)' = LiteralsOf(U)
      BY DEF LiteralsOf
    <3> QED BY <1>1, <3>1, <3>2
  <2>3. pc' \in Searching => pc' = "conflict" /\ dl > 0
    BY <1>1, <1>3 DEF Searching
  <2>4. pc' \in Building \union Searching /\ (dl' > 0 => pc' \in Searching) /\ pc' # "fixpoint"
    BY <1>1, <1>2, <1>3 DEF Building, Searching
  <2>5. pc' \in Searching => Clits' \subseteq static' /\ units' = {}
    BY <1>1, <1>2, <2>1, <2>3
  <2> QED BY <1>1, <1>2, <2>1, <2>2, <2>4, <2>5 DEF PhaseInv, Building, Searching
<1>5. AssignInv'
  BY <1>1, <1>2 DEF IInv, AssignInv, IsTrue, Truth, T, Abs
<1>6. TrailInv'
  BY <1>1 DEF IInv, TrailInv, MinBound, MaxBound
<1>7. MapOk(om, used, 0)'
  <2>1. MapOk(om, U, 0) /\ om' = om
    BY <1>1, MapMore DEF IInv
  <2> QED BY <2>1, MapPrimed
<1>8. TopInv'
  <2>1. TopInv
    BY DEF IInv
  <2> QED BY ONLY <1>1, <1>2, <2>1 DEF TopInv
<1>9. LevelsInv'
  <2>1. LevelsOk(Atoms', om', assign', alevel', queue', trail')
    BY <1>1, <1>2 DEF IInv, LevelsInv
  <2> QED BY <2>1 DEF LevelsInv, LevelsOk, BoundsIn, LevelsIn, ClosedIn, TrueIn, FalseIn, Truth, Abs, T
<1> QED BY <1>4, <1>5, <1>6, <1>7, <1>8, <1>9 DEF IInv

\* State describes the current state.
LEMMA StateIs ==
    ASSUME Assumptions, IInv
    PROVE  /\ IsState(State) /\ State.om = om /\ State.b = Top /\ State.val = assign
           /\ State.units = units /\ State.ok
           /\ GoodState(State, used) /\ MapOk(State.om, used, 0)
<1> DEFINE t == State
<1>1. t = [om |-> om, b |-> Top, val |-> assign, units |-> units, ok |-> TRUE]
  BY DEF State
<1> HIDE DEF t
<1>2. IsState(t) /\ t.om = om /\ t.b = Top /\ t.val = assign /\ t.units = units /\ (t.ok = TRUE)
  BY <1>1, StateFrom
<1>3. /\ Top \in Bounds /\ Top.lo <= Top.up /\ Top.lo \in Int /\ Top.up \in Int
      /\ assign \in [Atoms -> {-1, 0, 1}] /\ units \subseteq LiteralsOf(used) /\ MapOk(om, used, 0)
  BY Basics DEF IInv, PhaseInv, AssignInv
<1>4. GoodState(t, used)
  BY <1>2, <1>3 DEF GoodState
<1> QED BY <1>2, <1>3, <1>4 DEF t

\* Another order map and more unit clauses.
LEMMA StateWith ==
    ASSUME Assumptions, IInv, NEW U, used \subseteq U, U \subseteq Atoms, NEW y, NEW z,
           z \subseteq LiteralsOf(U), ~Preparing => z = units
    PROVE  LET t == SetMapUnits(State, y, z) IN
           /\ GoodState(t, U) /\ IsState(t) /\ t.om = y /\ t.b = Top /\ t.val = assign /\ t.units = z /\ t.ok
<1>0. PICK s : s = State
  OBVIOUS
<1> DEFINE t == SetMapUnits(s, y, z)
<1>1. /\ IsState(s) /\ s.b = Top /\ s.val = assign /\ s.ok /\ GoodState(s, used)
  BY <1>0, StateIs
<1>2. t = SetMapUnits(s, y, z)
  OBVIOUS
<1> HIDE DEF t
<1>3. IsState(t) /\ t.om = y /\ t.b = s.b /\ t.val = s.val /\ t.units = z /\ t.ok = s.ok
  <2>1. IsState(s)
    BY <1>1
  <2> QED BY ONLY <2>1, <1>2, MapUnitsSet
<1>4. GoodState(t, U)
  BY <1>1, <1>3 DEF GoodState
<1> QED BY <1>1, <1>2, <1>3, <1>4, <1>0

\* The current state with another map.
LEMMA StateWithMap ==
    ASSUME Assumptions, IInv, NEW U, used \subseteq U, U \subseteq Atoms, NEW y
    PROVE  LET t == SetOm(State, y) IN
           /\ GoodState(t, U) /\ IsState(t) /\ t.om = y /\ t.b = Top /\ t.val = assign /\ t.units = units /\ t.ok
<1>0. PICK s : s = State
  OBVIOUS
<1> DEFINE t == SetOm(s, y)
<1>1. /\ IsState(s) /\ s.b = Top /\ s.val = assign /\ s.ok /\ GoodState(s, used) /\ s.units = units
      /\ units \subseteq LiteralsOf(used)
  BY <1>0, StateIs DEF IInv, PhaseInv
<1>2. t = SetOm(s, y)
  OBVIOUS
<1> HIDE DEF t
<1>3. IsState(t) /\ t.om = y /\ t.b = s.b /\ t.val = s.val /\ t.units = s.units /\ t.ok = s.ok
  <2>1. IsState(s)
    BY <1>1
  <2> QED BY ONLY <2>1, <1>2, OmSet
<1>4. units \subseteq LiteralsOf(U)
  BY <1>1, MoreLiterals
<1>5. GoodState(t, U)
  BY <1>1, <1>3, <1>4 DEF GoodState
<1> QED BY <1>1, <1>2, <1>3, <1>5, <1>0

\* A simplified literal is not in the map any more.
LEMMA SimplifiedOk ==
    ASSUME OrderAssumption, NEW o, NEW U, MapOk(o, U, 0), U \subseteq Atoms, Atoms \subseteq Nat, NEW l \in Int
    PROVE  LET q == Simplified(o, l) IN
           MapOk(q, U, 0) /\ DOMAIN q.litmap \subseteq DOMAIN o.litmap \ {Abs(l)}
<1> DEFINE p == SimplifiedAs(o, l, T)
           q == SimplifiedAs(p, -l, -T)
<1>1. /\ T \in FactLits /\ -T \in FactLits /\ -l \in Int /\ Abs(-l) = Abs(l)
  BY AbsIs DEF FactLits, T
<1>2. /\ MapOk(p, U, 0)
      /\ Valid(o, l) => DOMAIN p.litmap = DOMAIN o.litmap \ {Abs(l)}
      /\ ~Valid(o, l) => p = o
  <2>1. /\ OrderAssumption /\ MapOk(o, U, 0) /\ U \subseteq Atoms /\ Atoms \subseteq Nat
        /\ l \in Int /\ T \in FactLits
    BY <1>1
  <2> QED BY ONLY <2>1, SimplifiedAsOk, ZenonT(60)
<1> HIDE DEF p
<1>3. /\ MapOk(q, U, 0)
      /\ Valid(p, -l) => DOMAIN q.litmap = DOMAIN p.litmap \ {Abs(-l)}
      /\ ~Valid(p, -l) => q = p
  <2>1. /\ OrderAssumption /\ MapOk(p, U, 0) /\ U \subseteq Atoms /\ Atoms \subseteq Nat
        /\ -l \in Int /\ -T \in FactLits
    BY <1>1, <1>2
  <2> QED BY ONLY <2>1, SimplifiedAsOk, ZenonT(60)
<1> HIDE DEF q
<1>4. DOMAIN q.litmap \subseteq DOMAIN p.litmap /\ DOMAIN p.litmap \subseteq DOMAIN o.litmap
  BY <1>2, <1>3
<1>5. Abs(l) \notin DOMAIN q.litmap
  <2>1. CASE Valid(o, l)
    BY <1>2, <1>4, <2>1
  <2>2. CASE ~Valid(o, l) /\ Abs(l) \in DOMAIN o.litmap
    <3>1. o.litmap[Abs(l)].lit \in {Abs(l), -Abs(l)} /\ (l = Abs(l) \/ l = -Abs(l)) /\ Abs(l) \in Int
      BY <2>2, AbsIs DEF MapOk, EntriesLinked
    <3>2. o.litmap[Abs(l)].lit = -l
      <4>1. o.litmap[Abs(l)].lit # l
        BY <2>2 DEF Valid
      <4> DEFINE e == o.litmap[Abs(l)].lit
                 a == Abs(l)
      <4>2. e \in {a, -a} /\ (l = a \/ l = -a) /\ a \in Int /\ e # l
        BY <3>1, <4>1
      <4> HIDE DEF e, a
      <4>3. e = -l
        BY ONLY <4>2
      <4> QED BY <4>3 DEF e
    <3>3. Valid(p, -l)
      BY <1>1, <1>2, <2>2, <3>2 DEF Valid
    <3> QED BY <1>1, <1>3, <3>3
  <2>3. CASE Abs(l) \notin DOMAIN o.litmap
    BY <1>4, <2>3
  <2> QED BY <2>1, <2>2, <2>3
<1>6. q = Simplified(o, l)
  BY DEF q, p, Simplified
<1> QED BY <1>3, <1>4, <1>5, <1>6

\* The atom of a literal.
LEMMA EnteredAtom ==
    ASSUME NEW a \in Nat, NEW v \in {-1, 0, 1}, v # 0
    PROVE  v * a \in Int /\ Abs(v * a) = a
<1>1. CASE v = 1
  <2>1. v * a = a
    BY <1>1
  <2> QED BY <2>1 DEF Abs
<1>2. CASE v = -1
  <2>1. v * a = -a
    <3>1. v \in Int /\ a \in Int /\ v = -1
      BY <1>2
    <3> QED BY ONLY <3>1
  <2>2. -a \in Int /\ Abs(-a) = Abs(a) /\ Abs(a) = a
    BY AbsIs DEF Abs
  <2> QED BY <2>1, <2>2
<1> QED BY <1>1, <1>2

\* A step on level 0.
LEMMA BecomeTop ==
    ASSUME Assumptions, IInv, dl = 0, NEW U, used \subseteq U, U \subseteq Atoms, NEW s,
           s.ok => GoodState(s, U) /\ MapOk(s.om, U, 0),
           NEW rest, rest \subseteq queue, NEW next, next \in Building \union Searching,
           next \in Searching => pc \in Searching,
           s.ok /\ next = "fixpoint" => rest \union NewLits(s.val) = {} /\ s.om.factmap = <<>>,
           s.ok => \A a \in DOMAIN s.om.litmap : assign[a] # 0 /\ alevel[a] = 0 => assign[a] * a \in rest,
           Become(s, rest, next), used' = U, static' = static, program' = program
    PROVE  IInv'
<1>1. CASE s.ok
  BY <1>1, BecomeKeeps
<1>2. CASE ~s.ok
  BY <1>2, BecomeFails
<1> QED BY <1>1, <1>2

-----------------------------------------------------------------------------
(* The actions that only add to the order map.                             *)

\* A builder's map becomes the map of the state.
LEMMA BuiltKeeps ==
    ASSUME Assumptions, IInv, NEW s, NEW n, GoodBuilder(s, n), s.om.factmap # <<>> => dl = 0,
           om' = s.om, used' = s.used,
           UNCHANGED <<program, trail, static, assign, alevel, queue>>,
           units' \subseteq LiteralsOf(s.used),
           pc' \in Building \union Searching, dl > 0 => pc' \in Searching,
           pc' \in Searching => pc \in Searching /\ units' = units, pc' # "fixpoint",
           dl > 0 => LevelsOk(Atoms, s.om, assign, alevel, queue, trail)
    PROVE  IInv'
<1>1. Atoms' = Atoms /\ Literals' = Literals /\ Clits' = Clits /\ dl' = dl
  BY DEF Literals, LiteralsOf, Atoms, Clits, dl
<1>2. dl \in Nat /\ Len(trail) \in Nat /\ dl = Len(trail) - 1
  BY Basics
<1>3. /\ s.used \subseteq Atoms /\ used \subseteq s.used /\ MapOk(s.om, s.used, 0)
  BY BuilderFacts
<1>4. PhaseInv'
  <2>1. /\ program \in Programs /\ Clits \subseteq used /\ static \subseteq used
        /\ pc \in Searching => Clits \subseteq static /\ units = {}
    BY DEF IInv, PhaseInv
  <2>2. units' \subseteq LiteralsOf(used)'
    BY DEF LiteralsOf
  <2>3. pc' \in Searching => Clits' \subseteq static' /\ units' = {}
    BY <1>1, <2>1
  <2>4. program' \in Programs /\ Clits' \subseteq used' /\ static' \subseteq used' /\ used' \subseteq Atoms'
    BY <1>1, <1>3, <2>1
  <2>5. pc' \in Building \union Searching /\ (dl' > 0 => pc' \in Searching) /\ (om'.factmap # <<>> => dl' = 0)
    BY <1>1
  <2> QED BY <2>2, <2>3, <2>4, <2>5 DEF PhaseInv, Building, Searching
<1>5. AssignInv'
  BY <1>1, <1>3 DEF IInv, AssignInv, IsTrue, Truth, T, Abs
<1>6. TrailInv'
  BY DEF IInv, TrailInv, MinBound, MaxBound
<1>7. MapOk(om, used, 0)'
  <2> DEFINE o == s.om
             U == s.used
  <2>1. MapOk(o, U, 0) /\ om' = o /\ used' = U /\ program' = program
    BY <1>3
  <2> HIDE DEF o, U
  <2> QED BY ONLY <2>1, MapPrimed
<1>8. TopInv'
  <2>1. \A a \in DOMAIN s.om.litmap : a \in DOMAIN om.litmap \/ assign[a] = 0
    BY ONLY GoodBuilder(s, n) DEF GoodBuilder
  <2> QED BY <1>1, <2>1 DEF IInv, TopInv
<1>9. LevelsInv'
  <2>1. LevelsOk(Atoms, s.om, assign, alevel, queue, trail)
    <3>1. CASE dl > 0
      BY <3>1
    <3>2. CASE ~(dl > 0)
      <4>1. Len(trail) = 1
        BY <1>2, <3>2
      <4> QED BY <4>1, LevelsTrivial
    <3> QED BY <3>1, <3>2
  <2>2. LevelsOk(Atoms', om', assign', alevel', queue', trail')
    BY <1>1, <2>1
  <2> QED BY ONLY <2>2, Zenon DEF LevelsInv, LevelsOk, BoundsIn, LevelsIn, ClosedIn, TrueIn, FalseIn, Truth, Abs, T
<1> QED BY <1>4, <1>5, <1>6, <1>7, <1>8, <1>9 DEF IInv

\* The integration of constraints and domains.
LEMMA BuiltIs ==
    ASSUME Assumptions, IInv, pc = "build", NEW s, NEW n, GoodBuilder(s, n), Built(s),
           UNCHANGED program
    PROVE  IInv'
<1>1. /\ om' = s.om /\ used' = s.used /\ units' = s.units /\ pc' = pc
      /\ UNCHANGED <<program, trail, static, assign, alevel, queue>>
  BY DEF Built
<1>2. dl \in Nat /\ (dl > 0 => pc \in Searching)
  BY Basics DEF IInv, PhaseInv
<1>3. pc \notin Searching /\ pc \in Building /\ pc # "fixpoint"
  BY DEF Searching, Building
<1>4. dl = 0
  BY <1>2, <1>3
<1>5. s.units \subseteq LiteralsOf(s.used)
  BY DEF GoodBuilder
<1>6. ~(dl > 0)
  BY <1>4
<1> QED BY <1>1, <1>3, <1>4, <1>5, <1>6, BuiltKeeps

\* Adding a simple constraint keeps the invariant.
LEMMA AddSimpleKeeps ==
    ASSUME Assumptions, IInv, NEW c \in Simples, AddSimple(c), UNCHANGED program
    PROVE  IInv'
<1>1. pc = "build" /\ EnoughAtoms(1)
  BY DEF AddSimple
<1>2. PICK n \in Nat : n + 1 <= program.atoms /\ GoodBuilder(Builder, n)
  BY <1>1, BuilderOk
<1>3. GoodBuilder(Builder, n + 1)
  <2>1. program.atoms \in Nat /\ n + 1 \in Nat /\ n <= n + 1
    BY Basics
  <2> QED BY <1>2, <2>1, BuilderMore
<1>4. PICK s : s = Builder
  OBVIOUS
<1> DEFINE value == SimpleValue(c)
<1>5. CASE ~c.strict /\ IsFalse(c.clit)
  <2>1. Built(s)
    BY <1>4, <1>5 DEF AddSimple
  <2> QED BY <1>1, <1>3, <1>4, <2>1, BuiltIs
<1>6. CASE ~(~c.strict /\ IsFalse(c.clit)) /\ c.strict /\ ~OutOfBounds(value) /\ value \notin DOMAIN om.lits
  <2>1. PICK t : t = ReuseLiteral(s, c)
    OBVIOUS
  <2>2. Built(t)
    BY <1>4, <1>6, <2>1 DEF AddSimple
  <2>3. s.om = om
    BY <1>4 DEF Builder
  <2>4. GoodBuilder(t, n + 1)
    BY <1>2, <1>4, <1>6, <2>1, <2>3, ReuseLiteralOk
  <2> QED BY <1>1, <2>2, <2>4, BuiltIs
<1>7. CASE ~(~c.strict /\ IsFalse(c.clit)) /\ ~(c.strict /\ ~OutOfBounds(value) /\ value \notin DOMAIN om.lits)
  <2>1. PICK t : t = ImplyLiteral(s, c)
    OBVIOUS
  <2>2. Built(t)
    BY <1>4, <1>7, <2>1 DEF AddSimple
  <2>3. GoodBuilder(t, n + 1)
    BY <1>2, <1>4, <2>1, ImplyLiteralOk
  <2> QED BY <1>1, <2>2, <2>3, BuiltIs
<1> QED BY <1>5, <1>6, <1>7

\* Adding a domain keeps the invariant.
LEMMA AddDomKeeps ==
    ASSUME Assumptions, IInv, NEW d \in Doms, AddDom(d), UNCHANGED program
    PROVE  IInv'
<1>1. pc = "build" /\ EnoughAtoms(4 * Len(d.dom))
  BY DEF AddDom
<1>2. d.lit \in LiteralsOf(Clits) /\ d.dom \in Seq(Int \X Int) /\ Len(d.dom) \in Nat /\ 4 * Len(d.dom) \in Nat
  <2>1. program \in Programs
    BY Basics
  <2>2. d.lit \in LiteralsOf(Clits) /\ d.dom \in Seq(Int \X Int)
    BY <2>1 DEF Assumptions, ProgramsAssumption, Doms, Clits
  <2>3. Len(d.dom) \in Nat
    BY <2>2
  <2> QED BY <2>2, <2>3
<1>3. PICK n \in Nat : n + 4 * Len(d.dom) <= program.atoms /\ GoodBuilder(Builder, n)
  BY <1>1, <1>2, BuilderOk
<1>4. PICK s : s = Builder
  OBVIOUS
<1>5. CASE IsFalse(d.lit)
  <2>1. Built(s)
    BY <1>4, <1>5 DEF AddDom
  <2> QED BY <1>1, <1>3, <1>4, <2>1, BuiltIs
<1>6. CASE ~IsFalse(d.lit)
  <2>1. PICK lit : lit = IF IsTrue(d.lit) THEN T ELSE d.lit
    OBVIOUS
  <2>2. lit \in LiteralsOf(s.used)
    <3>1. used \subseteq s.used /\ Clits \subseteq used
      BY <1>3, <1>4, BuilderFacts, Basics
    <3>2. T \in LiteralsOf(s.used) /\ LiteralsOf(Clits) \subseteq LiteralsOf(s.used)
      BY <3>1 DEF LiteralsOf, T
    <3> QED BY <1>2, <2>1, <3>2
  <2>3. PICK t : t = DomSteps(s, d, lit)
    OBVIOUS
  <2>4. Built(t)
    BY <1>4, <1>6, <2>1, <2>3 DEF AddDom
  <2>5. GoodBuilder(t, n + 4 * Len(d.dom))
    BY <1>2, <1>3, <1>4, <2>2, <2>3, DomStepsOk
  <2> QED BY <1>1, <2>4, <2>5, BuiltIs
<1> QED BY <1>5, <1>6

-----------------------------------------------------------------------------
(* The actions on level 0.                                                 *)

\* An upper bound from another thread is added as an order literal.
LEMMA WithUpperOk ==
    ASSUME Assumptions, IInv, NEW s, NEW n \in Nat, GoodBuilder(s, n), n + 1 <= program.atoms, NEW v \in Int
    PROVE  GoodBuilder(WithUpper(s, v), n + 1)
<1> DEFINE t == UpdateLiteral(s, v, 1)
<1>1. CASE v >= MaxBound
  <2>1. WithUpper(s, v) = s
    BY <1>1 DEF WithUpper
  <2>2. program.atoms \in Nat /\ n + 1 \in Nat /\ n <= n + 1
    BY Basics
  <2> QED BY <2>1, <2>2, BuilderMore
<1>2. CASE ~(v >= MaxBound)
  <2>1. GoodBuilder(t, n + 1) /\ HasLiteral(t, v)
    BY UpdateLiteralOk
  <2>2. WithUpper(s, v) = StoreClause(t, {LitOf(t, v)})
    BY <1>2 DEF WithUpper
  <2> HIDE DEF t
  <2>3. {LitOf(t, v)} \subseteq LiteralsOf(t.used)
    BY <2>1 DEF HasLiteral
  <2>4. PICK c : c = {LitOf(t, v)}
    OBVIOUS
  <2>5. GoodBuilder(StoreClause(t, c), n + 1)
    BY <2>1, <2>3, <2>4, StoreClauseOk
  <2> QED BY <2>2, <2>4, <2>5
<1> QED BY <1>1, <1>2

\* A lower bound from another thread is added as an order literal.
LEMMA WithLowerOk ==
    ASSUME Assumptions, IInv, NEW s, NEW n \in Nat, GoodBuilder(s, n), n + 1 <= program.atoms, NEW v \in Int
    PROVE  GoodBuilder(WithLower(s, v), n + 1)
<1> DEFINE w == v - 1
           t == UpdateLiteral(s, w, -1)
<1>1. CASE v <= MinBound
  <2>1. WithLower(s, v) = s
    BY <1>1 DEF WithLower
  <2>2. program.atoms \in Nat /\ n + 1 \in Nat /\ n <= n + 1
    BY Basics
  <2> QED BY <2>1, <2>2, BuilderMore
<1>2. CASE ~(v <= MinBound)
  <2>1. GoodBuilder(t, n + 1) /\ HasLiteral(t, w)
    <3>1. w \in Int
      OBVIOUS
    <3> HIDE DEF w
    <3> QED BY <3>1, UpdateLiteralOk
  <2>2. WithLower(s, v) = StoreClause(t, {-LitOf(t, w)})
    BY <1>2 DEF WithLower
  <2> HIDE DEF t, w
  <2>3. {-LitOf(t, w)} \subseteq LiteralsOf(t.used)
    <3>1. LitOf(t, w) \in LiteralsOf(t.used) /\ t.used \subseteq Nat \ {0, 1}
      BY <2>1, BuilderFacts DEF HasLiteral
    <3> QED BY <3>1, NegatedLiteral
  <2>4. PICK c : c = {-LitOf(t, w)}
    OBVIOUS
  <2>5. GoodBuilder(StoreClause(t, c), n + 1)
    BY <2>1, <2>3, <2>4, StoreClauseOk
  <2> QED BY <2>2, <2>4, <2>5
<1> QED BY <1>1, <1>2

\* The phases.
LEMMA PhaseFacts ==
    ASSUME Assumptions, IInv
    PROVE  /\ dl \in Nat /\ (dl > 0 => pc \in Searching) /\ (pc \in Building => dl = 0)
           /\ (Preparing => pc \in Building /\ pc \notin Searching) /\ pc \in Building \union Searching
           /\ (pc \in Searching => ~Preparing /\ pc \notin Building)
           /\ (om.factmap # <<>> => dl = 0) /\ Len(trail) \in Nat /\ dl = Len(trail) - 1
<1>1. dl \in Nat /\ (dl > 0 => pc \in Searching) /\ pc \in Building \union Searching /\ (om.factmap # <<>> => dl = 0)
      /\ Len(trail) \in Nat /\ dl = Len(trail) - 1
  BY Basics DEF IInv, PhaseInv
<1>2. pc \in Searching => ~Preparing /\ pc \notin Building
  BY DEF Searching, Preparing, Building
<1>3. Preparing => pc \in Building
  BY DEF Building, Preparing
<1> QED BY <1>1, <1>2, <1>3

\* Taking the bounds of another thread keeps the invariant.
LEMMA UpdateBoundsKeeps ==
    ASSUME Assumptions, IInv, NEW b \in Shared, UpdateBounds(b), UNCHANGED program
    PROVE  IInv'
<1>1. pc = "build" /\ EnoughAtoms(2) /\ static' = static
  BY DEF UpdateBounds
<1>2. b.lo \in Int /\ b.up \in Int
  <2>1. program \in Programs
    BY Basics
  <2> QED BY <2>1 DEF Assumptions, ProgramsAssumption, Shared
<1>3. PICK n \in Nat : n + 2 <= program.atoms /\ GoodBuilder(Builder, n)
  BY <1>1, BuilderOk
<1>4. PICK r : r = WithUpper(Builder, b.up)
  OBVIOUS
<1>5. PICK s : s = WithLower(r, b.lo)
  OBVIOUS
<1>6. GoodBuilder(s, n + 2)
  <2>1. PICK q : q = Builder
    OBVIOUS
  <2>2. n + 1 <= program.atoms /\ program.atoms \in Nat /\ (n + 1) + 1 = n + 2 /\ n + 1 \in Nat
    BY <1>3, Basics
  <2>3. GoodBuilder(r, n + 1)
    BY <1>2, <1>3, <1>4, <2>1, <2>2, WithUpperOk
  <2>4. GoodBuilder(s, (n + 1) + 1)
    <3>1. (n + 1) + 1 <= program.atoms /\ Assumptions /\ IInv
      BY <1>3, <2>2
    <3> QED BY ONLY <1>2, <1>5, <2>2, <2>3, <3>1, WithLowerOk
  <2> QED BY <2>2, <2>4
<1>7. /\ s.used \subseteq Atoms /\ used \subseteq s.used /\ MapOk(s.om, s.used, 0)
      /\ \A a \in DOMAIN s.om.litmap : a \in DOMAIN om.litmap \/ assign[a] = 0
      /\ s.units \subseteq LiteralsOf(s.used)
  BY <1>6, BuilderFacts DEF GoodBuilder
<1>8. Preparing /\ pc \in Building /\ dl = 0 /\ pc \notin Searching
  BY <1>1, PhaseFacts DEF Preparing, Building
<1>9. PICK t : t = SetMapUnits(State, s.om, s.units)
  OBVIOUS
<1>10. /\ GoodState(t, s.used) /\ t.om = s.om /\ t.ok
  <2>1. PICK U, y, z : U = s.used /\ y = s.om /\ z = s.units
    OBVIOUS
  <2>2. used \subseteq U /\ U \subseteq Atoms /\ z \subseteq LiteralsOf(U) /\ (~Preparing => z = units)
    BY <1>7, <1>8, <2>1
  <2>3. GoodState(SetMapUnits(State, y, z), U) /\ SetMapUnits(State, y, z).om = y /\ SetMapUnits(State, y, z).ok
    BY <2>2, StateWith
  <2> QED BY <1>9, <2>1, <2>3
<1>11. PICK w : w = IntegrateFacts(t)
  OBVIOUS
<1>12. w.ok => /\ GoodState(w, s.used) /\ MapOk(w.om, s.used, 0)
               /\ DOMAIN w.om.litmap = DOMAIN s.om.litmap
  <2>1. MapOk(t.om, s.used, 0)
    BY <1>7, <1>10
  <2> QED BY <1>7, <1>10, <1>11, <2>1, IntegrateFactsOk
<1>13. Become(w, queue, "build") /\ used' = s.used
  BY <1>4, <1>5, <1>9, <1>11 DEF UpdateBounds, SetMapUnits
<1>14. w.ok => \A a \in DOMAIN w.om.litmap : assign[a] # 0 /\ alevel[a] = 0 => assign[a] * a \in queue
  BY <1>7, <1>12 DEF IInv, TopInv
<1>15. "build" \in Building \union Searching /\ "build" \notin Searching
  BY DEF Building, Searching
<1> QED BY <1>1, <1>7, <1>8, <1>12, <1>13, <1>14, <1>15, BecomeTop

-----------------------------------------------------------------------------
(* The actions of clasp that only assign literals.                         *)

\* The levels of the atoms once the assignment is val.
LevelOf(val) == [a \in Atoms |-> IF val[a] # assign[a] THEN dl ELSE alevel[a]]

\* More values are assigned and queued.
LEMMA GrowLevels ==
    ASSUME Assumptions, IInv, NEW val \in Values, \A a \in Atoms : assign[a] # 0 => val[a] = assign[a],
           NEW o, HasLiterals(o), NEW q, LevelsOk(Atoms, o, assign, alevel, q, trail)
    PROVE  LevelsOk(Atoms, o, val, LevelOf(val), q \union NewLits(val), trail)
<1>1. /\ Assignment(Atoms, assign, alevel) /\ Len(trail) \in Nat /\ dl = Len(trail) - 1 /\ dl \in Nat
      /\ alevel \in [Atoms -> 0..dl]
  BY Basics DEF IInv, AssignInv
<1>2. Assignment(Atoms, val, LevelOf(val))
  <2>1. LevelOf(val) \in [Atoms -> Nat]
    BY <1>1 DEF LevelOf
  <2> QED BY <1>1, <2>1 DEF Assignment, Values
<1>3. Grown(Atoms, assign, alevel, val, LevelOf(val), q \union NewLits(val), Len(trail) - 1)
  <2> SUFFICES ASSUME NEW a \in Atoms
               PROVE  /\ assign[a] # 0 => val[a] = assign[a] /\ LevelOf(val)[a] = alevel[a]
                      /\ assign[a] = 0 /\ val[a] # 0 =>
                           /\ LevelOf(val)[a] = Len(trail) - 1
                           /\ IF val[a] = 1 THEN a \in q \union NewLits(val) ELSE -a \in q \union NewLits(val)
    BY DEF Grown
  <2>1. LevelOf(val)[a] = IF val[a] # assign[a] THEN Len(trail) - 1 ELSE alevel[a]
    BY <1>1 DEF LevelOf
  <2>2. val[a] # assign[a] => (IF val[a] = 1 THEN a ELSE -a) \in NewLits(val)
    BY DEF NewLits
  <2> QED BY <2>1, <2>2
<1>4. PICK lev, q2 : lev = LevelOf(val) /\ q2 = q \union NewLits(val)
  OBVIOUS
<1>5. q \subseteq q2
  BY <1>4
<1>6. Assignment(Atoms, val, lev) /\ (Len(trail) >= 2 => Grown(Atoms, assign, alevel, val, lev, q2, Len(trail) - 1))
  BY <1>2, <1>3, <1>4
<1>7. LevelsOk(Atoms, o, val, lev, q2, trail)
  BY <1>1, <1>5, <1>6, LevelsGrow
<1> QED BY <1>4, <1>7

\* Nothing is queued when nothing is assigned.
LEMMA NoneNew == NewLits(assign) = {} /\ (alevel \in [Atoms -> 0..dl] => LevelOf(assign) = alevel)
BY DEF NewLits, LevelOf

\* The literals of the current map.
LEMMA MapLiterals ==
    ASSUME OrderAssumption, NEW o, NEW U, NEW m, MapOk(o, U, m)
    PROVE  HasLiterals(o)
<1>1. o \in MapSet
  BY DEF MapOk
<1>2. DOMAIN o.lits \subseteq Int /\ o.lits \in [DOMAIN o.lits -> Int]
  BY <1>1, MapParts
<1> QED BY <1>2 DEF HasLiterals

\* Assignments of clasp that only add literals keep the invariant.
LEMMA AssignedKeeps ==
    ASSUME Assumptions, IInv, UNCHANGED <<program, om, used, trail>>, NEW val \in Values, MoreValues(assign, val, used),
           assign' = val, alevel' = LevelOf(val), queue' = queue \union NewLits(val),
           units' \subseteq LiteralsOf(used), static' = static \/ static' = used,
           pc' \in Building \union Searching, dl > 0 => pc' \in Searching, pc' # "fixpoint",
           pc' \in Searching => units' = {} /\ (pc \in Searching \/ static' = used)
    PROVE  IInv'
<1>1. Atoms' = Atoms /\ Literals' = Literals /\ Clits' = Clits /\ dl' = dl
  BY DEF Literals, LiteralsOf, Atoms, Clits, dl
<1>2. /\ Atoms \subseteq Nat \ {0, 1} /\ dl \in Nat
      /\ assign \in [Atoms -> {-1, 0, 1}] /\ alevel \in [Atoms -> 0..dl]
      /\ \A a \in Atoms : /\ assign[a] # 0 => a \in used
                          /\ assign[a] = 0 => alevel[a] = 0
      /\ queue \subseteq Literals /\ \A l \in queue : Truth(assign, l) = 1
  BY Basics DEF IInv, AssignInv, IsTrue
<1>3. \A a \in Atoms : assign[a] # 0 => val[a] = assign[a]
  BY DEF MoreValues
<1>4. /\ NewLits(val) \subseteq Literals
      /\ \A l \in NewLits(val) : Truth(val, l) = 1
      /\ \A a \in Atoms : val[a] # assign[a] => val[a] * a \in NewLits(val) /\ val[a] # 0
  <2>1. val \in [Atoms -> {-1, 0, 1}]
    BY DEF Values
  <2> QED BY ONLY <1>2, <1>3, <2>1, NewLitsTrue
<1>5. PhaseInv'
  <2>1. /\ program \in Programs /\ Clits \subseteq used /\ static \subseteq used /\ used \subseteq Atoms
        /\ pc \in Searching => Clits \subseteq static /\ units = {}
        /\ om.factmap # <<>> => dl = 0
    BY DEF IInv, PhaseInv
  <2>2. units' \subseteq LiteralsOf(used)'
    BY DEF LiteralsOf
  <2>3. pc' \in Searching => Clits' \subseteq static' /\ units' = {}
    BY <1>1, <2>1
  <2>4. program' \in Programs /\ Clits' \subseteq used' /\ static' \subseteq used' /\ used' \subseteq Atoms'
    BY <1>1, <2>1
  <2>5. pc' \in Building \union Searching /\ (dl' > 0 => pc' \in Searching) /\ (om'.factmap # <<>> => dl' = 0)
    BY <1>1, <2>1
  <2> QED BY <2>2, <2>3, <2>4, <2>5 DEF PhaseInv, Building, Searching
<1>6. AssignInv'
  <2>1. alevel' \in [Atoms -> 0..dl]
    BY <1>2 DEF LevelOf
  <2>2. ASSUME NEW a \in Atoms
        PROVE  /\ val[a] # 0 => a \in used
               /\ val[a] = 0 => alevel'[a] = 0
    <3>1. val[a] # 0 => a \in used
      BY <1>2, <1>3 DEF MoreValues
    <3>2. val[a] = 0 => val[a] = assign[a]
      BY <1>4
    <3>3. alevel'[a] = IF val[a] # assign[a] THEN dl ELSE alevel[a]
      BY DEF LevelOf
    <3> QED BY <1>2, <3>1, <3>2, <3>3
  <2>3. \A l \in queue' : l \in Literals /\ Truth(val, l) = 1
    <3>1. ASSUME NEW l \in queue PROVE Truth(val, l) = 1
      <4>1. l \in LiteralsOf(Atoms) /\ Truth(assign, l) = 1 /\ Truth(assign, l) # 0
        BY <1>2 DEF Literals
      <4>2. Truth(val, l) = Truth(assign, l)
        BY <1>2, <1>3, <4>1, TruthKept
      <4> QED BY <4>1, <4>2
    <3> QED BY <1>2, <1>4, <3>1
  <2>4. \A a \in Atoms' : /\ assign'[a] # 0 => a \in used'
                          /\ assign'[a] = 0 => alevel'[a] = 0
    BY <1>1, <2>2
  <2>5. assign' \in [Atoms' -> {-1, 0, 1}] /\ alevel' \in [Atoms' -> 0..dl']
    BY <1>1, <2>1 DEF Values
  <2>6. queue' \subseteq Literals' /\ \A l \in queue' : Truth(assign', l) = 1
    BY <1>1, <2>3
  <2>7. \A l : IsTrue(l)' <=> Truth(assign', l) = 1
    BY DEF IsTrue, Truth, T
  <2> QED BY <2>4, <2>5, <2>6, <2>7 DEF AssignInv
<1>7. TrailInv'
  BY DEF IInv, TrailInv, MinBound, MaxBound
<1>8. MapOk(om, used, 0)'
  BY MapPrimed DEF IInv
<1>9. TopInv'
  <2> SUFFICES ASSUME NEW a \in DOMAIN om.litmap, val[a] # 0, alevel'[a] = 0
               PROVE  dl = 0 /\ val[a] * a \in queue \union NewLits(val)
    BY <1>1 DEF TopInv
  <2>1. a \in Atoms
    BY DEF IInv, PhaseInv, MapOk
  <2>2. CASE val[a] = assign[a]
    <3>1. alevel[a] = 0
      BY <2>1, <2>2 DEF LevelOf
    <3> QED BY <2>2, <3>1 DEF IInv, TopInv
  <2>3. CASE val[a] # assign[a]
    <3>0. alevel'[a] = IF val[a] # assign[a] THEN dl ELSE alevel[a]
      BY <2>1 DEF LevelOf
    <3>1. dl = 0
      BY ONLY alevel'[a] = 0, <2>3, <3>0
    <3> QED BY <1>4, <2>1, <2>3, <3>1
  <2> QED BY <2>2, <2>3
<1>10. LevelsInv'
  <2>1. LevelsOk(Atoms, om, assign, alevel, queue, trail) /\ HasLiterals(om)
    BY MapLiterals DEF IInv, LevelsInv, Assumptions
  <2>2. LevelsOk(Atoms, om, val, LevelOf(val), queue \union NewLits(val), trail)
    BY <1>3, <2>1, GrowLevels
  <2>3. LevelsOk(Atoms', om', assign', alevel', queue', trail')
    BY <1>1, <2>2
  <2> QED BY <2>3 DEF LevelsInv, LevelsOk, BoundsIn, LevelsIn, ClosedIn, TrueIn, FalseIn, Truth, Abs, T
<1> QED BY <1>5, <1>6, <1>7, <1>8, <1>9, <1>10 DEF IInv

\* Nothing is assigned.
LEMMA IdleKeeps ==
    ASSUME Assumptions, IInv, UNCHANGED <<program, om, used, trail, assign, alevel, queue>>,
           units' \subseteq LiteralsOf(used), static' = static \/ static' = used,
           pc' \in Building \union Searching, dl > 0 => pc' \in Searching, pc' # "fixpoint",
           pc' \in Searching => units' = {} /\ (pc \in Searching \/ static' = used)
    PROVE  IInv'
<1>1. assign \in Values /\ MoreValues(assign, assign, used) /\ alevel \in [Atoms -> 0..dl]
  BY DEF IInv, AssignInv, Values, MoreValues
<1>2. PICK val : val = assign
  OBVIOUS
<1>3. assign' = val /\ alevel' = LevelOf(val) /\ queue' = queue \union NewLits(val)
  BY <1>1, <1>2, NoneNew
<1> QED BY <1>1, <1>2, <1>3, AssignedKeeps

\* Starting to simplify keeps the invariant.
LEMMA BeginSimplifyKeeps ==
    ASSUME Assumptions, IInv, BeginSimplify, UNCHANGED program
    PROVE  IInv'
<1>1. pc = "build" /\ pc' = "commit" /\ UNCHANGED <<om, trail, used, static, assign, alevel, units, queue>>
  BY DEF BeginSimplify, clasp
<1>2. dl = 0 /\ ~(dl > 0)
  <2>1. pc \in Building
    BY <1>1 DEF Building
  <2> QED BY <2>1, PhaseFacts
<1>3. pc' \in Building \union Searching /\ pc' \notin Searching /\ pc' # "fixpoint"
  BY <1>1 DEF Building, Searching
<1>4. units' \subseteq LiteralsOf(used)
  BY <1>1 DEF IInv, PhaseInv
<1> QED BY <1>1, <1>2, <1>3, <1>4, IdleKeeps

\* Committing a unit clause keeps the invariant.
LEMMA CommitKeeps ==
    ASSUME Assumptions, IInv, Commit, UNCHANGED program
    PROVE  IInv'
<1>1. pc = "commit" /\ UNCHANGED <<om, trail, used, static>>
  BY DEF Commit
<1>2. dl = 0 /\ ~(dl > 0)
  <2>1. pc \in Building
    BY <1>1 DEF Building
  <2> QED BY <2>1, PhaseFacts
<1>3. units \subseteq LiteralsOf(used) /\ assign \in Values
  BY DEF IInv, PhaseInv, AssignInv, Values
<1>4. CASE \E l \in units : IsFalse(l) \/ -l \in units
  <2>1. pc' = "unsat" /\ UNCHANGED <<assign, alevel, queue, units>>
    BY <1>4 DEF Commit
  <2>2. pc' \in Building \union Searching /\ pc' \notin Searching /\ pc' # "fixpoint"
    BY <2>1 DEF Building, Searching
  <2> QED BY <1>1, <1>2, <1>3, <2>1, <2>2, IdleKeeps
<1>5. CASE ~ \E l \in units : IsFalse(l) \/ -l \in units
  <2>1. PICK val : val = Assigned(assign, units)
    OBVIOUS
  <2>2. /\ AssignAt(0, val) /\ queue' = queue \union NewLits(val) /\ units' = {} /\ pc' = pc
    BY <1>5, <2>1 DEF Commit
  <2>3. val \in Values /\ MoreValues(assign, val, used)
    <3>1. NoneFalse(assign, units)
      BY <1>5 DEF NoneFalse, IsFalse
    <3>2. Atoms \subseteq Nat \ {0, 1} /\ used \subseteq Atoms
      BY Basics
    <3> QED BY <1>3, <2>1, <3>1, <3>2, AssignedIs
  <2>4. assign' = val /\ alevel' = LevelOf(val)
    BY <1>2, <2>2 DEF AssignAt, LevelOf
  <2>5. pc' \in Building \union Searching /\ pc' \notin Searching /\ pc' # "fixpoint"
    BY <1>1, <2>2 DEF Building, Searching
  <2> QED BY <1>1, <1>2, <2>2, <2>3, <2>4, <2>5, AssignedKeeps
<1> QED BY <1>4, <1>5

\* Ending the commits keeps the invariant.
LEMMA CommittedKeeps ==
    ASSUME Assumptions, IInv, Committed, UNCHANGED program
    PROVE  IInv'
<1>1. pc = "commit" /\ units = {} /\ UNCHANGED <<om, trail, used, assign, alevel, units, queue>>
  BY DEF Committed
<1>2. \/ pc' = "deliver" /\ static' = static
      \/ pc' = "propagate" /\ static' = used
  BY DEF Committed
<1>3. dl = 0 /\ ~(dl > 0)
  <2>1. pc \in Building
    BY <1>1 DEF Building
  <2> QED BY <2>1, PhaseFacts
<1>4. /\ pc' \in Building \union Searching /\ pc' # "fixpoint" /\ units' \subseteq LiteralsOf(used)
      /\ pc' \in Searching => units' = {} /\ static' = used
  BY <1>1, <1>2 DEF Building, Searching
<1> QED BY <1>1, <1>2, <1>3, <1>4, IdleKeeps

\* One literal is assigned.
LEMMA OneAssigned ==
    ASSUME Atoms \subseteq Nat \ {0, 1}, assign \in Values, NEW l \in LiteralsOf(Atoms), Truth(assign, l) = 0
    PROVE  LET val == Assigned(assign, {l}) IN
           /\ val \in Values /\ Abs(l) \in Atoms /\ assign[Abs(l)] = 0 /\ val[Abs(l)] # 0
           /\ \A b \in Atoms : b # Abs(l) => val[b] = assign[b]
           /\ NewLits(val) = {l}
<1> DEFINE val == Assigned(assign, {l})
<1>1. l \in Int /\ (l \in FactLits \/ Abs(l) \in Atoms) /\ (l \in FactLits => Truth(assign, l) = l)
  <2>1. assign \in [Atoms -> {-1, 0, 1}] /\ Atoms \subseteq Nat \ {0, 1} /\ l \in LiteralsOf(Atoms)
    BY DEF Values
  <2> QED BY ONLY <2>1, TruthIs
<1>2. Abs(l) \in Atoms
  BY <1>1 DEF FactLits, T
<1>3. assign[Abs(l)] = 0
  <2>1. assign \in [Atoms -> {-1, 0, 1}] /\ Atoms \subseteq Nat \ {0, 1} /\ l \in LiteralsOf(Atoms)
    BY DEF Values
  <2>2. Truth(assign, l) = 0 <=> assign[Abs(l)] = 0
    BY ONLY <1>2, <2>1, TruthZero
  <2> QED BY <2>2
<1>4. PICK a \in Atoms : a = Abs(l) /\ a \in Nat /\ a > 1
  <2>1. PICK a : a = Abs(l)
    OBVIOUS
  <2>2. a \in Atoms /\ a \in Nat \ {0, 1}
    BY <1>2, <2>1
  <2>3. a \in Nat /\ a > 1
    BY <2>2
  <2> QED BY <2>1, <2>2, <2>3
<1>5. l = a \/ l = -a
  BY <1>1, <1>4, AbsIs
<1>6. \A b \in Atoms : val[b] = IF b = l THEN 1 ELSE IF -b = l THEN -1 ELSE assign[b]
  BY DEF Assigned
<1>7. \A b \in Atoms : /\ b = l <=> (b = a /\ l = a)
                       /\ -b = l <=> (b = a /\ l = -a)
  <2>1. ASSUME NEW b \in Atoms
        PROVE  /\ b = l <=> (b = a /\ l = a)
               /\ -b = l <=> (b = a /\ l = -a)
    <3>1. b \in Nat /\ b > 1
      OBVIOUS
    <3> QED BY ONLY <1>4, <1>5, <3>1
  <2> QED BY <2>1
<1>8. \A b \in Atoms : val[b] = IF b # a THEN assign[b] ELSE IF l = a THEN 1 ELSE -1
  BY <1>5, <1>6, <1>7
<1>9. val \in Values
  BY <1>1 DEF Assigned, Values
<1> HIDE DEF val
<1>10. NewLits(val) = {l}
  <2>1. \A b \in Atoms : val[b] # assign[b] <=> b = a
    BY <1>3, <1>4, <1>8
  <2>2. NewLits(val) = {IF val[b] = 1 THEN b ELSE -b : b \in {a}}
    BY <2>1 DEF NewLits
  <2>3. (IF val[a] = 1 THEN a ELSE -a) = l
    BY <1>5, <1>8
  <2> QED BY <2>2, <2>3
<1>11. val[a] # 0
  BY <1>8
<1> QED BY <1>2, <1>3, <1>4, <1>8, <1>9, <1>10, <1>11 DEF val

\* Unit propagation of clasp keeps the invariant.
LEMMA UnitPropagateKeeps ==
    ASSUME Assumptions, IInv, UnitPropagate, UNCHANGED program
    PROVE  IInv'
<1>1. pc \in {"commit", "propagate"} /\ UNCHANGED <<om, trail, used, static, units>>
  BY DEF UnitPropagate
<1>2. /\ units \subseteq LiteralsOf(used) /\ (pc \in Searching => units = {}) /\ assign \in Values
  BY DEF IInv, PhaseInv, AssignInv, Values
<1>3. CASE \E c \in clauses : /\ \A l \in c : IsFalse(l)
                              /\ pc' = (IF dl = 0 THEN "unsat" ELSE "conflict")
                              /\ UNCHANGED <<assign, alevel, queue>>
  <2>1. UNCHANGED <<assign, alevel, queue>> /\ pc' = IF dl = 0 THEN "unsat" ELSE "conflict"
    BY <1>3
  <2>2. /\ pc' \in Building \union Searching /\ pc' # "fixpoint" /\ (dl > 0 => pc' \in Searching)
        /\ pc' \in Searching => pc \in Searching
    <3>1. dl \in Nat /\ (dl > 0 => pc \in Searching)
      BY PhaseFacts
    <3>2. "unsat" \in Building /\ "conflict" \in Searching /\ "unsat" \notin Searching
      BY DEF Building, Searching
    <3>3. CASE dl = 0
      BY <2>1, <3>2, <3>3
    <3>4. CASE dl # 0
      <4>1. dl > 0
        BY <3>1, <3>4
      <4> QED BY <2>1, <3>1, <3>2, <4>1
    <3> QED BY <3>3, <3>4
  <2> QED BY <1>1, <1>2, <2>1, <2>2, IdleKeeps
<1>4. CASE \E a \in used, sign \in {1, -1} :
             /\ assign[a] = 0
             /\ AssignAt(dl, Assigned(assign, {sign * a}))
             /\ queue' = queue \union {sign * a}
             /\ pc' = pc
  <2>1. PICK a \in used, sign \in {1, -1} :
             /\ assign[a] = 0
             /\ AssignAt(dl, Assigned(assign, {sign * a}))
             /\ queue' = queue \union {sign * a}
             /\ pc' = pc
    BY <1>4
  <2>2. PICK l : l = sign * a
    OBVIOUS
  <2>3. Atoms \subseteq Nat \ {0, 1} /\ used \subseteq Atoms /\ a \in Nat /\ a > 1 /\ a \in Atoms
    BY Basics
  <2>4. l \in Int /\ Abs(l) = a
    <3>1. sign \in {-1, 0, 1} /\ sign # 0
      OBVIOUS
    <3> QED BY <2>2, <2>3, <3>1, EnteredAtom
  <2>5. l \in LiteralsOf(used) /\ l \in LiteralsOf(Atoms)
    BY <2>3, <2>4, LiteralIs
  <2>6. Truth(assign, l) = 0
    <3>1. assign \in [Atoms -> {-1, 0, 1}]
      BY <1>2 DEF Values
    <3>2. Abs(l) \in Atoms /\ assign[Abs(l)] = 0
      BY <2>1, <2>3, <2>4
    <3>3. Atoms \subseteq Nat \ {0, 1} /\ l \in LiteralsOf(Atoms)
      BY <2>3, <2>5
    <3>4. Abs(l) \in Atoms
      BY <3>2
    <3>5. Truth(assign, l) = 0 <=> assign[Abs(l)] = 0
      BY ONLY <3>1, <3>3, <3>4, TruthZero
    <3> QED BY <3>2, <3>5
  <2>7. PICK val : val = Assigned(assign, {l})
    OBVIOUS
  <2>8. /\ val \in Values /\ NewLits(val) = {l} /\ \A b \in Atoms : b # a => val[b] = assign[b]
    BY <1>2, <2>3, <2>4, <2>5, <2>6, <2>7, OneAssigned
  <2>9. MoreValues(assign, val, used)
    BY <2>1, <2>8 DEF MoreValues
  <2>10. assign' = val /\ alevel' = LevelOf(val) /\ queue' = queue \union NewLits(val)
    BY <2>1, <2>2, <2>7, <2>8 DEF AssignAt, LevelOf
  <2>11. /\ pc' \in Building \union Searching /\ pc' # "fixpoint" /\ (dl > 0 => pc' \in Searching)
         /\ pc' \in Searching => pc \in Searching
    BY <1>1, <2>1, PhaseFacts
  <2> QED BY <1>1, <1>2, <2>8, <2>9, <2>10, <2>11, AssignedKeeps
<1> QED BY <1>3, <1>4 DEF UnitPropagate

\* Facts are integrated.
LEMMA StateIntegrated ==
    ASSUME Assumptions, IInv
    PROVE  LET t == IntegrateFacts(State) IN
           /\ t.ok => /\ GoodState(t, used) /\ MapOk(t.om, used, 0)
                      /\ DOMAIN t.om.litmap = DOMAIN om.litmap /\ t.om.factmap = <<>>
           /\ om.factmap = <<>> => t.om = om /\ t.b = Top /\ t.val = assign /\ t.units = units /\ t.ok
<1>1. PICK s : s = State
  OBVIOUS
<1>2. /\ IsState(s) /\ s.om = om /\ s.b = Top /\ s.val = assign /\ s.units = units /\ s.ok
      /\ GoodState(s, used) /\ MapOk(s.om, used, 0)
  BY <1>1, StateIs
<1>3. PICK t : t = IntegrateFacts(s)
  OBVIOUS
<1>4. used \subseteq Atoms
  BY Basics
<1>5. t.ok => /\ GoodState(t, used) /\ MapOk(t.om, used, 0)
              /\ DOMAIN t.om.litmap = DOMAIN s.om.litmap /\ t.om.factmap = <<>>
  <2>1. PICK U : U = used
    OBVIOUS
  <2>2. U \subseteq Atoms /\ GoodState(s, U) /\ s.ok /\ MapOk(s.om, U, 0)
    BY <1>2, <1>4, <2>1
  <2> QED BY <1>3, <2>1, <2>2, IntegrateFactsOk
<1>6. om.factmap = <<>> => t.om = s.om /\ t.b = s.b /\ t.val = s.val /\ t.units = s.units /\ t.ok
  <2>1. s.om \in MapSet
    BY <1>2 DEF MapOk
  <2> QED BY <1>2, <1>3, <2>1, IntegrateNothing
<1> QED BY <1>1, <1>2, <1>3, <1>5, <1>6

\* Facts are integrated in check.
LEMMA IntegratedKeeps ==
    ASSUME Assumptions, IInv, NEW next, Become(IntegrateFacts(State), queue, next),
           UNCHANGED <<used, static, program>>,
           next \in Building \union Searching, dl > 0 => next \in Searching, next \in Searching => pc \in Searching,
           next = "fixpoint" => queue = {} /\ om.factmap = <<>>
    PROVE  IInv'
<1>1. PICK t : t = IntegrateFacts(State)
  OBVIOUS
<1>2. /\ t.ok => /\ GoodState(t, used) /\ MapOk(t.om, used, 0)
                 /\ DOMAIN t.om.litmap = DOMAIN om.litmap /\ t.om.factmap = <<>>
      /\ om.factmap = <<>> => t.om = om /\ t.b = Top /\ t.val = assign /\ t.units = units /\ t.ok
  BY <1>1, StateIntegrated
<1>3. PICK U : U = used
  OBVIOUS
<1>4. used \subseteq U /\ U \subseteq Atoms /\ used' = U
  BY <1>3, Basics
<1>5. CASE ~t.ok
  BY <1>1, <1>4, <1>5, BecomeFails
<1>6. CASE t.ok
  <2>1. GoodState(t, U) /\ MapOk(t.om, U, 0) /\ t.om.factmap = <<>>
    BY <1>2, <1>3, <1>6
  <2>2. \A a \in DOMAIN t.om.litmap : assign[a] # 0 /\ alevel[a] = 0 => dl = 0 /\ assign[a] * a \in queue
    BY <1>2, <1>6 DEF IInv, TopInv
  <2>3. next = "fixpoint" => queue \union NewLits(t.val) = {} /\ t.om.factmap = <<>>
    BY <1>2, NoneNew
  <2>4. dl > 0 => LevelsOk(Atoms, t.om, t.val, alevel', queue \union NewLits(t.val), trail')
    <3> SUFFICES ASSUME dl > 0 PROVE LevelsOk(Atoms, t.om, t.val, alevel', queue \union NewLits(t.val), trail')
      OBVIOUS
    <3>1. om.factmap = <<>> /\ Len(trail) \in Nat /\ Len(trail) >= 1 /\ trail \in Seq(Bounds)
          /\ alevel \in [Atoms -> 0..dl]
      BY PhaseFacts, Basics DEF IInv, PhaseInv, AssignInv, TrailInv
    <3>2. t.om = om /\ t.b = Top /\ t.val = assign
      BY <1>2, <3>1
    <3>3. trail' = trail /\ alevel' = LevelOf(assign)
      <4>1. trail' = [trail EXCEPT ![Len(trail)] = Top] /\ alevel' = LevelOf(assign)
        BY <1>1, <1>6, <3>2 DEF Become, AssignAt, LevelOf
      <4>2. [trail EXCEPT ![Len(trail)] = Top] = trail
        BY <3>1 DEF Top
      <4> QED BY <4>1, <4>2
    <3>4. LevelsOk(Atoms, om, assign, alevel, queue, trail)
      BY DEF IInv, LevelsInv
    <3>5. NewLits(assign) = {} /\ LevelOf(assign) = alevel
      BY <3>1, NoneNew
    <3>6. queue \union NewLits(t.val) = queue
      BY <3>2, <3>5
    <3> QED BY <3>2, <3>3, <3>4, <3>5, <3>6
  <2>5. Become(t, queue, next)
    BY <1>1
  <2>6. PICK rest : rest = queue
    OBVIOUS
  <2>7. /\ rest \subseteq queue /\ Become(t, rest, next)
        /\ (t.om.factmap # <<>> => dl = 0)
        /\ (next = "fixpoint" => rest \union NewLits(t.val) = {} /\ t.om.factmap = <<>>)
        /\ \A a \in DOMAIN t.om.litmap : assign[a] # 0 /\ alevel[a] = 0 => dl = 0 /\ assign[a] * a \in rest
        /\ (dl > 0 => LevelsOk(Atoms, t.om, t.val, alevel', rest \union NewLits(t.val), trail'))
    BY <2>1, <2>2, <2>3, <2>4, <2>5, <2>6
  <2> QED BY <1>4, <1>6, <2>1, <2>7, BecomeKeeps
<1> QED BY <1>5, <1>6

\* Starting a check keeps the invariant.
LEMMA CheckKeeps ==
    ASSUME Assumptions, IInv, Check, UNCHANGED program
    PROVE  IInv'
<1>1. PICK next : next = IF Preparing THEN "examine" ELSE "check"
  OBVIOUS
<1>2. /\ pc \in {"deliver", "propagate"} /\ queue = {} /\ Become(IntegrateFacts(State), queue, next)
      /\ UNCHANGED <<used, static, program>>
  BY <1>1 DEF Check
<1>3. /\ next \in Building \union Searching /\ (dl > 0 => next \in Searching)
      /\ (next \in Searching => pc \in Searching) /\ next # "fixpoint"
  <2>1. (dl > 0 => ~Preparing) /\ (~Preparing => pc \in Searching)
    BY <1>2, PhaseFacts DEF Preparing, Searching
  <2> QED BY <1>1, <2>1 DEF Building, Searching
<1> QED BY <1>2, <1>3, IntegratedKeeps

\* Ending a check keeps the invariant.
LEMMA EndCheckKeeps ==
    ASSUME Assumptions, IInv, EndCheck, UNCHANGED program
    PROVE  IInv'
<1>1. PICK next : next = IF om.factmap # <<>> THEN pc
                         ELSE IF Preparing THEN "commit" ELSE IF queue # {} THEN "propagate" ELSE "fixpoint"
  OBVIOUS
<1>2. /\ pc \in {"examine", "check"} /\ Become(IntegrateFacts(State), queue, next)
      /\ UNCHANGED <<used, static, program>>
  BY <1>1 DEF EndCheck
<1>3. /\ next \in Building \union Searching /\ (dl > 0 => next \in Searching)
      /\ (next \in Searching => pc \in Searching)
      /\ next = "fixpoint" => queue = {} /\ om.factmap = <<>>
  <2>1. (dl > 0 => ~Preparing) /\ (~Preparing => pc = "check") /\ (Preparing => pc = "examine")
    BY <1>2, PhaseFacts DEF Preparing, Searching
  <2> QED BY <1>1, <1>2, <2>1 DEF Building, Searching
<1> QED BY <1>2, <1>3, IntegratedKeeps

-----------------------------------------------------------------------------
(* Order literals are propagated above level 0.                            *)

\* Without facts every literal of the map has its own atom.
LEMMA OwnAtoms ==
    ASSUME Assumptions, IInv, om.factmap = <<>>
    PROVE  /\ \A k \in DOMAIN om.lits :
                /\ k \in Int /\ om.lits[k] \in Int /\ om.lits[k] \in LiteralsOf(used) /\ om.lits[k] \in LiteralsOf(Atoms)
                /\ om.lits[k] \notin FactLits
                /\ Abs(om.lits[k]) \in DOMAIN om.litmap /\ om.litmap[Abs(om.lits[k])].value = k
                /\ Abs(om.lits[k]) \in Atoms
           /\ \A k, m \in DOMAIN om.lits : Abs(om.lits[k]) = Abs(om.lits[m]) => k = m
<1>1. /\ om \in MapSet /\ DOMAIN om.litmap \subseteq used /\ ValuesIndexed(om) /\ FactsListed(om, 0) /\ MapOk(om, used, 0)
      /\ used \subseteq Atoms /\ used \subseteq Nat
  BY Basics DEF IInv, MapOk
<1>2. DOMAIN om.lits \subseteq Int /\ om.lits \in [DOMAIN om.lits -> Int]
  BY <1>1, MapParts
<1>3. \A k \in DOMAIN om.lits : om.lits[k] \notin FactLits
  <2>1. Len(om.factmap) = 0
    OBVIOUS
  <2>2. (0 + 1)..Len(om.factmap) = {}
    BY <2>1
  <2> QED BY <1>1, <2>2 DEF FactsListed
<1>4. \A k \in DOMAIN om.lits : om.lits[k] \in LiteralsOf(used)
  <2>1. PICK o, U : o = om /\ U = used
    OBVIOUS
  <2>2. MapOk(o, U, 0) /\ U \subseteq Nat /\ OrderAssumption /\ 0 \in Int
    BY <1>1, <2>1 DEF Assumptions
  <2>3. \A k \in DOMAIN o.lits : o.lits[k] \in LiteralsOf(U)
    BY ONLY <2>2, NeighboursAreLiterals
  <2> QED BY <2>1, <2>3
<1>5. LiteralsOf(used) \subseteq LiteralsOf(Atoms)
  BY <1>1, MoreLiterals
<1>6. \A k \in DOMAIN om.lits : Abs(om.lits[k]) \in DOMAIN om.litmap /\ om.litmap[Abs(om.lits[k])].value = k
  BY <1>1, <1>3 DEF ValuesIndexed
<1>7. \A k, m \in DOMAIN om.lits : Abs(om.lits[k]) = Abs(om.lits[m]) => k = m
  BY <1>6
<1>8. \A k \in DOMAIN om.lits : Abs(om.lits[k]) \in Atoms
  BY <1>1, <1>6
<1> QED BY <1>2, <1>3, <1>4, <1>5, <1>6, <1>7, <1>8

\* y is the negation of l.
Opposite(y, l) == y = -l

\* The opposite of a literal has the opposite truth.
LEMMA OppositeTruth ==
    ASSUME NEW A, A \subseteq Nat \ {0, 1}, NEW val \in [A -> {-1, 0, 1}], NEW l \in LiteralsOf(A), NEW y, Opposite(y, l)
    PROVE  (Truth(val, y) = 1 <=> Truth(val, l) = -1) /\ (Truth(val, y) = -1 <=> Truth(val, l) = 1)
<1>0. y = -l
  BY DEF Opposite
<1>1. l \in Int /\ (l \in FactLits \/ Abs(l) \in A) /\ y \in Int
  <2>1. l \in Int
    BY DEF LiteralsOf
  <2>2. A \subseteq Nat
    OBVIOUS
  <2>3. l \in FactLits \/ Abs(l) \in A
    BY <2>1, <2>2, LiteralIs
  <2>4. y \in Int
    BY <1>0, <2>1
  <2> QED BY <2>1, <2>3, <2>4
<1>2. CASE l \in FactLits
  <2>1. (l = 1 /\ y = -1) \/ (l = -1 /\ y = 1)
    BY <1>0, <1>2 DEF FactLits, T
  <2>2. Truth(val, l) = l /\ Truth(val, y) = y
    BY <2>1 DEF Truth, Abs, T
  <2> QED BY <2>1, <2>2
<1>3. CASE Abs(l) \in A
  <2>1. PICK a : a = Abs(l)
    OBVIOUS
  <2>2. a \in A /\ a \in Nat /\ a # 0 /\ a # 1
    BY <1>3, <2>1
  <2>3. PICK v : v = val[a]
    OBVIOUS
  <2>4. v \in {-1, 0, 1}
    BY <2>2, <2>3
  <2>5. (-v = 1 <=> v = -1) /\ (-v = -1 <=> v = 1)
    BY ONLY <2>4, NegatedTruth
  <2>6. CASE l > 0
    <3>1. l = a /\ ~(y > 0) /\ -y = a /\ Abs(l) # T /\ Abs(y) # T
      BY <1>0, <1>1, <2>1, <2>2, <2>6 DEF Abs, T
    <3>2. Truth(val, l) = v /\ Truth(val, y) = -v
      BY <2>3, <2>6, <3>1 DEF Truth
    <3> QED BY <2>5, <3>2
  <2>7. CASE ~(l > 0)
    <3>1. y = a /\ y > 0 /\ -l = a /\ Abs(l) # T /\ Abs(y) # T
      BY <1>0, <1>1, <2>1, <2>2, <2>7 DEF Abs, T
    <3>2. Truth(val, l) = -v /\ Truth(val, y) = v
      BY <2>3, <2>7, <3>1 DEF Truth
    <3> QED BY <2>5, <3>2
  <2> QED BY <2>6, <2>7
<1> QED BY <1>1, <1>2, <1>3

\* Literals assigned together are true.
LEMMA AssignedTrue ==
    ASSUME Atoms \subseteq Nat \ {0, 1}, NEW val, NEW ls, NEW x \in LiteralsOf(Atoms), x \in ls, x \notin FactLits, -x \notin ls
    PROVE  Truth(Assigned(val, ls), x) = 1
<1>1. x \in Int /\ Abs(x) \in Atoms
  <2>1. Atoms \subseteq Nat
    OBVIOUS
  <2>2. x \in Int
    BY DEF LiteralsOf
  <2> QED BY <2>1, <2>2, LiteralIs
<1>2. PICK a : a = Abs(x)
  OBVIOUS
<1>3. a \in Atoms /\ a \in Nat /\ a # 0 /\ a # 1
  BY <1>1, <1>2
<1>4. PICK w : w = Assigned(val, ls)
  OBVIOUS
<1>5. w[a] = IF a \in ls THEN 1 ELSE IF -a \in ls THEN -1 ELSE val[a]
  BY <1>3, <1>4 DEF Assigned
<1>6. CASE x > 0
  <2>1. x = a /\ Abs(x) # T
    BY <1>1, <1>2, <1>3, <1>6 DEF Abs, T
  <2>2. w[a] = 1
    BY <1>5, <2>1
  <2> QED BY <1>4, <1>6, <2>1, <2>2 DEF Truth
<1>7. CASE ~(x > 0)
  <2>1. -x = a /\ Abs(x) # T /\ -a = x
    BY <1>1, <1>2, <1>3, <1>7 DEF Abs, T
  <2>2. w[a] = -1
    BY <1>5, <2>1
  <2>3. Truth(w, x) = -w[a]
    BY <1>7, <2>1 DEF Truth
  <2>4. -w[a] = 1
    <3>1. PICK v : v = w[a]
      OBVIOUS
    <3>2. v = -1 /\ v \in {-1, 0, 1}
      BY <2>2, <3>1
    <3>3. -v = 1
      BY ONLY <3>2, NegatedTruth
    <3> QED BY <3>1, <3>3
  <2> QED BY <1>4, <2>3, <2>4
<1> QED BY <1>6, <1>7

\* Some literal from value k on upwards (downwards) is true (false).
SomeTrue(val, o, k, j) == \E m \in DOMAIN o.lits : k < m /\ m <= j /\ Truth(val, o.lits[m]) = 1
SomeFalse(val, o, k, j) == \E m \in DOMAIN o.lits : m < k /\ j <= m /\ Truth(val, o.lits[m]) = -1

\* Every literal above value is true or above one that is.
LEMMA AboveTrue ==
    ASSUME Assumptions, IInv, om.factmap = <<>>, NEW value \in Int, NEW s, s.om = om, s.val = assign,
           NoneFalse(assign, ImpliedAbove(s, value))
    PROVE  LET w == Assigned(assign, ImpliedAbove(s, value)) IN
           \A j \in DOMAIN om.lits : value < j => SomeTrue(w, om, value, j)
<1>1. PICK ls : ls = ImpliedAbove(s, value)
  OBVIOUS
<1>2. PICK w : w = Assigned(assign, ls)
  OBVIOUS
<1>3. /\ \A k \in DOMAIN om.lits : /\ k \in Int /\ om.lits[k] \in Int
                                   /\ om.lits[k] \in LiteralsOf(used) /\ om.lits[k] \in LiteralsOf(Atoms)
                                   /\ om.lits[k] \notin FactLits /\ Abs(om.lits[k]) \in Atoms
      /\ \A k, m \in DOMAIN om.lits : Abs(om.lits[k]) = Abs(om.lits[m]) => k = m
  BY OwnAtoms
<1>4. Atoms \subseteq Nat \ {0, 1} /\ assign \in [Atoms -> {-1, 0, 1}] /\ assign \in Values /\ used \subseteq Atoms
  BY Basics DEF IInv, AssignInv, Values
<1>5. \A l \in ls : \E k \in DOMAIN om.lits : l = om.lits[k]
  BY <1>1 DEF ImpliedAbove
<1>6. ASSUME NEW j \in DOMAIN om.lits, j > value
      PROVE  \E m \in DOMAIN om.lits : value < m /\ m <= j /\ Truth(w, om.lits[m]) = 1
  <2>1. CASE \A i \in DOMAIN om.lits : i > value /\ i <= j => Truth(assign, om.lits[i]) # 1
    <3>1. PICK x : x = om.lits[j]
      OBVIOUS
    <3>2. x \in ls
      BY <1>1, <1>6, <2>1, <3>1 DEF ImpliedAbove
    <3>3. x \in Int /\ x \in LiteralsOf(Atoms) /\ x \notin FactLits /\ Abs(-x) = Abs(x) /\ Abs(x) # 0
      BY <1>3, <1>4, <3>1, AbsIs
    <3>4. -x \notin ls
      <4>1. SUFFICES ASSUME -x \in ls PROVE FALSE
        OBVIOUS
      <4>2. PICK k \in DOMAIN om.lits : -x = om.lits[k]
        BY <1>5, <4>1
      <4>3. k = j
        BY <1>3, <3>1, <3>3, <4>2
      <4>4. -x = x
        BY <3>1, <4>2, <4>3
      <4>5. x = 0
        BY <3>3, <4>4
      <4> QED BY <3>3, <4>5 DEF Abs
    <3>5. Truth(w, x) = 1
      BY <1>2, <1>4, <3>2, <3>3, <3>4, AssignedTrue
    <3> QED BY <1>3, <1>6, <3>1, <3>5
  <2>2. CASE \E i \in DOMAIN om.lits : i > value /\ i <= j /\ Truth(assign, om.lits[i]) = 1
    <3>1. PICK i \in DOMAIN om.lits : i > value /\ i <= j /\ Truth(assign, om.lits[i]) = 1
      BY <2>2
    <3>2. \A a \in Atoms : assign[a] # 0 => w[a] = assign[a]
      <4>1. ls \subseteq LiteralsOf(used) /\ NoneFalse(assign, ls)
        BY <1>1, <1>3, <1>5
      <4>2. MoreValues(assign, w, used)
        BY <1>2, <1>4, <4>1, AssignedIs
      <4> QED BY <4>2 DEF MoreValues
    <3>3. PICK x : x = om.lits[i]
      OBVIOUS
    <3>4. x \in LiteralsOf(Atoms) /\ Truth(assign, x) = 1 /\ Truth(assign, x) # 0
      BY <1>3, <3>1, <3>3
    <3>5. Truth(w, x) = Truth(assign, x)
      BY <1>4, <3>2, <3>4, TruthKept
    <3> QED BY <1>3, <3>1, <3>3, <3>4, <3>5
  <2> QED BY <2>1, <2>2
<1> QED
  <2>1. ASSUME NEW j \in DOMAIN om.lits, value < j PROVE SomeTrue(w, om, value, j)
    BY <1>3, <1>6, <2>1 DEF SomeTrue
  <2> QED BY <1>1, <1>2, <2>1

\* Every literal below value is false or below one that is.
LEMMA BelowFalse ==
    ASSUME Assumptions, IInv, om.factmap = <<>>, NEW value \in Int, NEW s, s.om = om, s.val = assign,
           NoneFalse(assign, ImpliedBelow(s, value))
    PROVE  LET w == Assigned(assign, ImpliedBelow(s, value)) IN
           \A j \in DOMAIN om.lits : j < value => SomeFalse(w, om, value, j)
<1>1. PICK ls : ls = ImpliedBelow(s, value)
  OBVIOUS
<1>2. PICK w : w = Assigned(assign, ls)
  OBVIOUS
<1>3. /\ \A k \in DOMAIN om.lits : /\ k \in Int /\ om.lits[k] \in Int
                                   /\ om.lits[k] \in LiteralsOf(used) /\ om.lits[k] \in LiteralsOf(Atoms)
                                   /\ om.lits[k] \notin FactLits /\ Abs(om.lits[k]) \in Atoms
      /\ \A k, m \in DOMAIN om.lits : Abs(om.lits[k]) = Abs(om.lits[m]) => k = m
  BY OwnAtoms
<1>4. Atoms \subseteq Nat \ {0, 1} /\ assign \in [Atoms -> {-1, 0, 1}] /\ assign \in Values /\ used \subseteq Atoms
      /\ used \subseteq Nat \ {0, 1}
  BY Basics DEF IInv, AssignInv, Values
<1>5. \A l \in ls : \E k \in DOMAIN om.lits : l = -om.lits[k]
  BY <1>1 DEF ImpliedBelow
<1>7. ls \subseteq LiteralsOf(used) /\ NoneFalse(assign, ls)
  <2>1. \A k \in DOMAIN om.lits : -om.lits[k] \in LiteralsOf(used)
    BY <1>3, <1>4, NegatedLiteral
  <2> QED BY <1>1, <1>5, <2>1
<1>8. w \in [Atoms -> {-1, 0, 1}] /\ MoreValues(assign, w, used)
  BY <1>2, <1>4, <1>7, AssignedIs DEF Values
<1>6. ASSUME NEW j \in DOMAIN om.lits, j < value
      PROVE  \E m \in DOMAIN om.lits : m < value /\ j <= m /\ Truth(w, om.lits[m]) = -1
  <2>1. CASE \A i \in DOMAIN om.lits : i < value /\ i >= j => Truth(assign, om.lits[i]) # -1
    <3>1. PICK x : x = om.lits[j]
      OBVIOUS
    <3>3. x \in Int /\ x \in LiteralsOf(Atoms) /\ x \notin FactLits /\ Abs(-x) = Abs(x) /\ Abs(x) # 0
      BY <1>3, <1>4, <3>1, AbsIs
    <3>6. PICK y : y = -x
      OBVIOUS
    <3>7. y \in Int /\ y \in LiteralsOf(Atoms) /\ -y = x /\ y \notin FactLits
      <4>1. y \in LiteralsOf(Atoms)
        BY <1>4, <3>3, <3>6, NegatedLiteral
      <4>2. y \in Int /\ -y = x
        BY <3>3, <3>6
      <4>3. y \notin FactLits
        BY <3>3, <4>2 DEF FactLits, T
      <4> QED BY <4>1, <4>2, <4>3
    <3>2. y \in ls
      BY <1>1, <1>6, <2>1, <3>1, <3>6 DEF ImpliedBelow
    <3>4. -y \notin ls
      <4>1. SUFFICES ASSUME x \in ls PROVE FALSE
        BY <3>7
      <4>2. PICK k \in DOMAIN om.lits : x = -om.lits[k]
        BY <1>5, <4>1
      <4>6. om.lits[k] \in Int /\ Abs(om.lits[k]) = Abs(x)
        BY <1>3, <4>2, AbsIs
      <4>3. k = j
        BY <1>3, <3>1, <4>6
      <4>4. x = -x
        BY <3>1, <4>2, <4>3
      <4>5. x = 0
        BY <3>3, <4>4
      <4> QED BY <3>3, <4>5 DEF Abs
    <3>5. Truth(w, y) = 1
      BY <1>2, <1>4, <3>2, <3>7, <3>4, AssignedTrue
    <3>8. Truth(w, x) = -1
      <4>1. Atoms \subseteq Nat \ {0, 1} /\ w \in [Atoms -> {-1, 0, 1}] /\ x \in LiteralsOf(Atoms)
        BY <1>4, <1>8, <3>3
      <4>3. Opposite(y, x)
        BY <3>6 DEF Opposite
      <4>2. Truth(w, y) = 1 <=> Truth(w, x) = -1
        BY ONLY <4>1, <4>3, OppositeTruth
      <4> QED BY <3>5, <4>2
    <3> QED BY <1>3, <1>6, <3>1, <3>8
  <2>2. CASE \E i \in DOMAIN om.lits : i < value /\ i >= j /\ Truth(assign, om.lits[i]) = -1
    <3>1. PICK i \in DOMAIN om.lits : i < value /\ i >= j /\ Truth(assign, om.lits[i]) = -1
      BY <2>2
    <3>2. \A a \in Atoms : assign[a] # 0 => w[a] = assign[a]
      BY <1>8 DEF MoreValues
    <3>3. PICK x : x = om.lits[i]
      OBVIOUS
    <3>4. x \in LiteralsOf(Atoms) /\ Truth(assign, x) = -1 /\ Truth(assign, x) # 0
      BY <1>3, <3>1, <3>3
    <3>5. Truth(w, x) = Truth(assign, x)
      BY <1>4, <3>2, <3>4, TruthKept
    <3>6. j <= i
      BY <1>3, <3>1
    <3> QED BY <3>1, <3>3, <3>4, <3>5, <3>6
  <2> QED BY <2>1, <2>2
<1> QED
  <2>1. ASSUME NEW j \in DOMAIN om.lits, j < value PROVE SomeFalse(w, om, value, j)
    BY <1>3, <1>6, <2>1 DEF SomeFalse
  <2> QED BY <1>1, <1>2, <2>1

\* Above true and below false literals are only such literals.
LEMMA ClosedAbove ==
    ASSUME NEW A, NEW o, DOMAIN o.lits \subseteq Int, NEW val, NEW lev, NEW q, NEW tr, NEW n \in Nat, n = Len(tr), n >= 2,
           LevelsOk(A, o, val, lev, q, tr),
           \A l : Truth(val, l) = 1 /\ Abs(l) \in A => TrueIn(A, val, lev, l, n),
           \A m \in DOMAIN o.lits : Abs(o.lits[m]) \in A,
           NEW k \in Int, \A j \in DOMAIN o.lits : k < j => SomeTrue(val, o, k, j)
    PROVE  AboveDone(A, o, val, lev, q, n, k)
<1>1. ClosedIn(A, o, val, lev, q, tr) /\ n \in 2..Len(tr)
  BY DEF LevelsOk
<1>2. ASSUME NEW j \in DOMAIN o.lits, k < j
      PROVE  \/ TrueIn(A, val, lev, o.lits[j], n)
             \/ \E i \in DOMAIN o.lits : k < i /\ i < j /\ o.lits[i] \in q
  <2>1. PICK m \in DOMAIN o.lits : k < m /\ m <= j /\ TrueIn(A, val, lev, o.lits[m], n)
    BY <1>2 DEF SomeTrue
  <2>2. CASE m = j
    BY <2>1, <2>2
  <2>3. CASE m < j
    <3>1. \/ TrueIn(A, val, lev, o.lits[j], n)
          \/ \E i \in DOMAIN o.lits : m <= i /\ i < j /\ o.lits[i] \in q
      BY <1>1, <2>1, <2>3 DEF ClosedIn
    <3> QED BY <2>1, <3>1
  <2> QED BY <2>1, <2>2, <2>3
<1> QED BY <1>2 DEF AboveDone

\* Below a value where the literals have been passed back to one that is false, nothing is left to do.
LEMMA ClosedBelow ==
    ASSUME NEW A, NEW o, DOMAIN o.lits \subseteq Int, NEW val, NEW lev, NEW q, NEW tr, NEW n \in Nat, n = Len(tr), n >= 2,
           LevelsOk(A, o, val, lev, q, tr),
           \A l : Truth(val, l) = -1 /\ Abs(l) \in A => FalseIn(A, val, lev, l, n),
           \A m \in DOMAIN o.lits : Abs(o.lits[m]) \in A,
           NEW k \in Int, \A j \in DOMAIN o.lits : j < k => SomeFalse(val, o, k, j)
    PROVE  BelowDone(A, o, val, lev, q, n, k)
<1>1. ClosedIn(A, o, val, lev, q, tr) /\ n \in 2..Len(tr)
  BY DEF LevelsOk
<1>2. ASSUME NEW j \in DOMAIN o.lits, j < k
      PROVE  \/ FalseIn(A, val, lev, o.lits[j], n)
             \/ \E i \in DOMAIN o.lits : j < i /\ i < k /\ -o.lits[i] \in q
  <2>1. PICK m \in DOMAIN o.lits : m < k /\ j <= m /\ FalseIn(A, val, lev, o.lits[m], n)
    BY <1>2 DEF SomeFalse
  <2>2. CASE m = j
    BY <2>1, <2>2
  <2>3. CASE j < m
    <3>1. \/ FalseIn(A, val, lev, o.lits[j], n)
          \/ \E i \in DOMAIN o.lits : j < i /\ i <= m /\ -o.lits[i] \in q
      BY <1>1, <2>1, <2>3 DEF ClosedIn
    <3> QED BY <2>1, <3>1
  <2> QED BY <2>1, <2>2, <2>3
<1> QED BY <1>2 DEF BelowDone

\* What is true or false is so on the current level.
LEMMA OnCurrent ==
    ASSUME Assumptions, IInv, NEW val \in Values, NEW l, Abs(l) \in Atoms
    PROVE  /\ TrueIn(Atoms, val, LevelOf(val), l, Len(trail)) <=> Truth(val, l) = 1
           /\ FalseIn(Atoms, val, LevelOf(val), l, Len(trail)) <=> Truth(val, l) = -1
<1>1. Len(trail) \in Nat /\ dl \in Nat /\ dl = Len(trail) - 1 /\ alevel \in [Atoms -> 0..dl]
  BY Basics DEF IInv, AssignInv
<1>2. LevelOf(val)[Abs(l)] \in 0..dl
  BY <1>1 DEF LevelOf
<1>3. LevelOf(val)[Abs(l)] < Len(trail)
  BY <1>1, <1>2
<1> QED BY <1>3 DEF TrueIn, FalseIn

\* Literals are integers.
LEMMA LiteralsAreInts ==
    ASSUME NEW A, A \subseteq Nat
    PROVE  \A x \in LiteralsOf(A) : x \in Int
BY DEF LiteralsOf

\* The levels once l has been propagated: the bounds are b, the assignment is val.
LEMMA DequeueLevels ==
    ASSUME Assumptions, IInv, dl > 0, NEW l \in queue, NEW val \in Values, MoreValues(assign, val, used),
           NEW b \in Bounds, Top.lo <= b.lo, b.up <= Top.up,
           b.lo # Top.lo => b.lo - 1 \in DOMAIN om.lits /\ Truth(val, om.lits[b.lo - 1]) = -1,
           b.up # Top.up => b.up \in DOMAIN om.lits /\ Truth(val, om.lits[b.up]) = 1,
           \A k \in DOMAIN om.lits : om.lits[k] = l =>
             b.up <= k /\ \A j \in DOMAIN om.lits : k < j => SomeTrue(val, om, k, j),
           \A k \in DOMAIN om.lits : om.lits[k] = -l =>
             k < b.lo /\ \A j \in DOMAIN om.lits : j < k => SomeFalse(val, om, k, j)
    PROVE  LevelsOk(Atoms, om, val, LevelOf(val), (queue \ {l}) \union NewLits(val), [trail EXCEPT ![Len(trail)] = b])
<1>1. /\ Atoms \subseteq Nat \ {0, 1} /\ Len(trail) \in Nat /\ Len(trail) >= 2 /\ dl = Len(trail) - 1
      /\ om.factmap = <<>> /\ trail \in Seq(Bounds) /\ HasLiterals(om)
  <2>1. HasLiterals(om)
    BY MapLiterals DEF IInv, Assumptions
  <2>2. Len(trail) \in Nat /\ dl = Len(trail) - 1 /\ om.factmap = <<>>
    <3>1. Len(trail) \in Nat /\ dl = Len(trail) - 1 /\ dl \in Nat /\ (om.factmap # <<>> => dl = 0)
      BY PhaseFacts
    <3>2. dl # 0
      OBVIOUS
    <3> QED BY <3>1, <3>2
  <2>3. Len(trail) >= 2
    BY <2>2
  <2> QED BY <2>1, <2>2, <2>3, Basics DEF IInv, TrailInv
<1>2. /\ \A k \in DOMAIN om.lits : k \in Int /\ om.lits[k] \in Int /\ Abs(om.lits[k]) \in Atoms
      /\ \A k, m \in DOMAIN om.lits : Abs(om.lits[k]) = Abs(om.lits[m]) => k = m
  BY <1>1, OwnAtoms
<1>3. /\ l \in Literals /\ l \in Int /\ Truth(assign, l) = 1 /\ assign \in [Atoms -> {-1, 0, 1}]
      /\ \A a \in Atoms : assign[a] # 0 => val[a] = assign[a]
      /\ \A x \in queue : x \in Literals /\ Truth(assign, x) = 1
  <2>1. /\ \A x \in queue : x \in Literals /\ Truth(assign, x) = 1
        /\ assign \in [Atoms -> {-1, 0, 1}]
    BY DEF IInv, AssignInv, IsTrue
  <2>2. l \in Int
    BY <1>1, <2>1, LiteralsAreInts DEF Literals
  <2> QED BY <2>1, <2>2 DEF MoreValues
<1>4. PICK n : n = Len(trail)
  OBVIOUS
<1>5. PICK q : q = queue \union NewLits(val)
  OBVIOUS
<1>6. PICK lev : lev = LevelOf(val)
  OBVIOUS
<1>7. PICK tr2 : tr2 = [trail EXCEPT ![n] = b]
  OBVIOUS
<1>8. LevelsOk(Atoms, om, val, lev, q, trail)
  <2>1. LevelsOk(Atoms, om, assign, alevel, queue, trail)
    BY DEF IInv, LevelsInv
  <2> QED BY <1>1, <1>3, <1>5, <1>6, <2>1, GrowLevels
<1>9. /\ n \in Nat /\ n >= 2 /\ Len(tr2) = n /\ DOMAIN trail = 1..n
      /\ \A i \in 1..n : tr2[i] = IF i = n THEN b ELSE trail[i]
      /\ trail[n] = Top /\ n \in 1..n
  BY <1>1, <1>4, <1>7 DEF Top
<1>10. \A x \in Bounds : x.lo \in Int /\ x.up \in Int
  BY DEF Bounds
<1>11. \A i \in 1..n : /\ trail[i].lo \in Int /\ trail[i].up \in Int /\ tr2[i].lo \in Int /\ tr2[i].up \in Int
                       /\ trail[i].lo <= tr2[i].lo /\ tr2[i].up <= trail[i].up
                       /\ i < n => tr2[i] = trail[i]
  <2>1. \A i \in 1..n : trail[i] \in Bounds
    BY <1>1, <1>9
  <2>2. ASSUME NEW i \in 1..n
        PROVE  /\ trail[i].lo \in Int /\ trail[i].up \in Int /\ tr2[i].lo \in Int /\ tr2[i].up \in Int
               /\ trail[i].lo <= tr2[i].lo /\ tr2[i].up <= trail[i].up
               /\ i < n => tr2[i] = trail[i]
    <3>1. trail[i].lo \in Int /\ trail[i].up \in Int /\ b.lo \in Int /\ b.up \in Int
      BY <1>10, <2>1
    <3>2. CASE i = n
      <4>1. tr2[i] = b /\ trail[i] = Top
        BY <1>9, <3>2
      <4> QED BY <3>1, <3>2, <4>1
    <3>3. CASE i # n
      <4>1. tr2[i] = trail[i]
        BY <1>9, <3>3
      <4> QED BY <3>1, <4>1
    <3> QED BY <3>2, <3>3
  <2> QED BY <2>2
<1>12. \A x : Abs(x) \in Atoms =>
         /\ TrueIn(Atoms, val, lev, x, n) <=> Truth(val, x) = 1
         /\ FalseIn(Atoms, val, lev, x, n) <=> Truth(val, x) = -1
  BY <1>4, <1>6, OnCurrent
<1>13. tr2[n] = b
  BY <1>9
<1>14. tr2[n].lo # trail[n].lo => /\ tr2[n].lo - 1 \in DOMAIN om.lits
                                  /\ FalseIn(Atoms, val, lev, om.lits[tr2[n].lo - 1], n)
  BY <1>2, <1>9, <1>12, <1>13
<1>15. tr2[n].up # trail[n].up => /\ tr2[n].up \in DOMAIN om.lits
                                  /\ TrueIn(Atoms, val, lev, om.lits[tr2[n].up], n)
  BY <1>2, <1>9, <1>12, <1>13
<1>16. \A k, m \in DOMAIN om.lits : om.lits[k] \in {l, -l} /\ om.lits[m] = om.lits[k] => m = k
  BY <1>2
<1>17. \A k \in DOMAIN om.lits : om.lits[k] = l => b.up <= k /\ AboveDone(Atoms, om, val, lev, q, n, k)
  <2> SUFFICES ASSUME NEW k \in DOMAIN om.lits, om.lits[k] = l
               PROVE  AboveDone(Atoms, om, val, lev, q, n, k)
    OBVIOUS
  <2>2. PICK A, o, tr : A = Atoms /\ o = om /\ tr = trail
    OBVIOUS
  <2>3. /\ LevelsOk(A, o, val, lev, q, tr) /\ n = Len(tr) /\ DOMAIN o.lits \subseteq Int /\ k \in Int
        /\ \A j \in DOMAIN o.lits : k < j => SomeTrue(val, o, k, j)
        /\ \A x : Truth(val, x) = 1 /\ Abs(x) \in A => TrueIn(A, val, lev, x, n)
        /\ \A m \in DOMAIN o.lits : Abs(o.lits[m]) \in A
    BY <1>2, <1>4, <1>8, <1>12, <2>2
  <2>4. n \in Nat /\ n >= 2
    BY <1>9
  <2>5. AboveDone(A, o, val, lev, q, n, k)
    BY ONLY <2>3, <2>4, ClosedAbove
  <2> QED BY <2>2, <2>5
<1>18. \A k \in DOMAIN om.lits : om.lits[k] = -l => k < b.lo /\ BelowDone(Atoms, om, val, lev, q, n, k)
  <2> SUFFICES ASSUME NEW k \in DOMAIN om.lits, om.lits[k] = -l
               PROVE  BelowDone(Atoms, om, val, lev, q, n, k)
    OBVIOUS
  <2>2. PICK A, o, tr : A = Atoms /\ o = om /\ tr = trail
    OBVIOUS
  <2>3. /\ LevelsOk(A, o, val, lev, q, tr) /\ n = Len(tr) /\ DOMAIN o.lits \subseteq Int /\ k \in Int
        /\ \A j \in DOMAIN o.lits : j < k => SomeFalse(val, o, k, j)
        /\ \A x : Truth(val, x) = -1 /\ Abs(x) \in A => FalseIn(A, val, lev, x, n)
        /\ \A m \in DOMAIN o.lits : Abs(o.lits[m]) \in A
    BY <1>2, <1>4, <1>8, <1>12, <2>2
  <2>4. n \in Nat /\ n >= 2
    BY <1>9
  <2>5. BelowDone(A, o, val, lev, q, n, k)
    BY ONLY <2>3, <2>4, ClosedBelow
  <2> QED BY <2>2, <2>5
<1>19. LevelsOk(Atoms, om, val, lev, q \ {l}, tr2)
  <2>1. PICK A, o, tr : A = Atoms /\ o = om /\ tr = trail
    OBVIOUS
  <2>2. HasLiterals(o) /\ LevelsOk(A, o, val, lev, q, tr) /\ l \in Int /\ Len(tr) = n
    BY <1>1, <1>3, <1>4, <1>8, <2>1
  <2>3. BoundsBy(A, o, val, lev, tr, tr2)
    BY <1>4, <1>14, <1>15, <2>1 DEF BoundsBy
  <2>4. BoundsShrink(tr, tr2) /\ Len(tr) \in Nat /\ Len(tr) >= 2
    BY <1>4, <1>9, <1>11, <2>1 DEF BoundsShrink
  <2>5. OneValue(o, l)
    BY <1>16, <2>1 DEF OneValue
  <2>6. Propagated(A, o, val, lev, q, l, Len(tr), tr2[Len(tr)])
    BY <1>4, <1>13, <1>17, <1>18, <2>1 DEF Propagated
  <2>7. LevelsOk(A, o, val, lev, q \ {l}, tr2)
    BY ONLY <2>2, <2>3, <2>4, <2>5, <2>6, LevelsDequeue
  <2> QED BY <2>1, <2>7
<1>20. q \ {l} = (queue \ {l}) \union NewLits(val)
  <2>1. l \notin NewLits(val)
    <3> SUFFICES ASSUME l \in NewLits(val) PROVE FALSE
      OBVIOUS
    <3>1. PICK a \in Atoms : val[a] # assign[a] /\ l = IF val[a] = 1 THEN a ELSE -a
      BY DEF NewLits
    <3>2. Abs(l) = a
      <4>1. a \in Nat
        BY <1>1
      <4>2. Abs(a) = a /\ Abs(-a) = a
        BY <4>1 DEF Abs
      <4> QED BY <3>1, <4>2
    <3>3. assign[a] = 0
      BY <1>3, <3>1
    <3>4. Truth(assign, l) = 0
      <4>1. Atoms \subseteq Nat \ {0, 1} /\ assign \in [Atoms -> {-1, 0, 1}] /\ l \in LiteralsOf(Atoms) /\ Abs(l) \in Atoms
        BY <1>1, <1>3, <3>2 DEF Literals
      <4>2. Truth(assign, l) = 0 <=> assign[Abs(l)] = 0
        BY ONLY <4>1, TruthZero
      <4> QED BY <3>2, <3>3, <4>2
    <3> QED BY <1>3, <3>4
  <2> QED BY <1>5, <2>1
<1> QED BY <1>4, <1>6, <1>7, <1>19, <1>20

\* The entry of an order literal.
LEMMA ValidIs ==
    ASSUME Assumptions, IInv, om.factmap = <<>>, NEW l \in Int
    PROVE  /\ Valid(om, l) => /\ om.litmap[Abs(l)].value \in DOMAIN om.lits
                              /\ om.litmap[Abs(l)].value \in Int
                              /\ om.lits[om.litmap[Abs(l)].value] = l
                              /\ om.litmap[Abs(l)].prev = LitPrev(om, om.litmap[Abs(l)].value)
                              /\ om.litmap[Abs(l)].succ = LitSucc(om, om.litmap[Abs(l)].value)
                              /\ Abs(l) \in Atoms /\ l \in LiteralsOf(Atoms)
           /\ \A k \in DOMAIN om.lits : om.lits[k] = l => Valid(om, l) /\ om.litmap[Abs(l)].value = k
<1>1. /\ \A k \in DOMAIN om.lits : /\ k \in Int /\ Abs(om.lits[k]) \in DOMAIN om.litmap /\ Abs(om.lits[k]) \in Atoms
                                   /\ om.lits[k] \in LiteralsOf(Atoms)
                                   /\ om.litmap[Abs(om.lits[k])].value = k
  BY OwnAtoms
<1>2. EntriesLinked(om)
  BY DEF IInv, MapOk
<1>3. \A k \in DOMAIN om.lits : om.lits[k] = l => Valid(om, l) /\ om.litmap[Abs(l)].value = k
  BY <1>1, <1>2 DEF EntriesLinked, Valid
<1>4. ASSUME Valid(om, l)
      PROVE  /\ om.litmap[Abs(l)].value \in DOMAIN om.lits
             /\ om.lits[om.litmap[Abs(l)].value] = l
             /\ om.litmap[Abs(l)].prev = LitPrev(om, om.litmap[Abs(l)].value)
             /\ om.litmap[Abs(l)].succ = LitSucc(om, om.litmap[Abs(l)].value)
  BY <1>2, <1>4 DEF EntriesLinked, Valid
<1> QED BY <1>1, <1>3, <1>4

\* What remains is in order once l has been propagated to t.
After(t, l) ==
    /\ GoodState(t, used) /\ t.om = om
    /\ LevelsOk(Atoms, om, t.val, LevelOf(t.val), (queue \ {l}) \union NewLits(t.val), [trail EXCEPT ![Len(trail)] = t.b])

\* A queued literal is true and stays so.
LEMMA QueuedLiteral ==
    ASSUME Assumptions, IInv, NEW l \in queue
    PROVE  /\ l \in Int /\ l \in LiteralsOf(Atoms) /\ Truth(assign, l) = 1 /\ l # 0
           /\ \A val \in Values : MoreValues(assign, val, used) => Truth(val, l) = 1
<1>1. Atoms \subseteq Nat \ {0, 1} /\ assign \in [Atoms -> {-1, 0, 1}]
  BY Basics DEF IInv, AssignInv
<1>2. l \in LiteralsOf(Atoms) /\ Truth(assign, l) = 1
  BY DEF IInv, AssignInv, IsTrue, Literals
<1>3. l \in Int /\ (l \in FactLits \/ Abs(l) \in Atoms)
  BY ONLY <1>1, <1>2, TruthIs
<1>4. l # 0
  <2>1. l = 0 => l \notin FactLits /\ Abs(l) = 0
    BY DEF FactLits, T, Abs
  <2> QED BY <1>1, <1>3, <2>1
<1>5. ASSUME NEW val \in Values, MoreValues(assign, val, used) PROVE Truth(val, l) = 1
  <2>1. \A a \in Atoms : assign[a] # 0 => val[a] = assign[a]
    BY <1>5 DEF MoreValues
  <2>2. Truth(assign, l) # 0
    BY <1>2
  <2>3. Truth(val, l) = Truth(assign, l)
    BY <1>1, <1>2, <2>1, <2>2, TruthKept
  <2> QED BY <1>2, <2>3
<1> QED BY <1>2, <1>3, <1>4, <1>5

\* l is x <= k for a value k.
LEMMA PropagateUpper ==
    ASSUME Assumptions, IInv, dl > 0, NEW l \in queue, Valid(om, l)
    PROVE  LET t == UpdateUpper(State, om.litmap[Abs(l)].value, om.litmap[Abs(l)].succ) IN
           t.ok => After(t, l)
<1>1. PICK s : s = State
  OBVIOUS
<1>2. PICK k, succ : k = om.litmap[Abs(l)].value /\ succ = om.litmap[Abs(l)].succ
  OBVIOUS
<1>3. om.factmap = <<>> /\ ~Preparing
  <2>1. dl # 0
    OBVIOUS
  <2> QED BY <2>1, PhaseFacts
<1>4. /\ l \in Int /\ l # 0 /\ Truth(assign, l) = 1
      /\ \A val \in Values : MoreValues(assign, val, used) => Truth(val, l) = 1
  BY QueuedLiteral
<1>5. k \in DOMAIN om.lits /\ k \in Int /\ om.lits[k] = l /\ succ = LitSucc(om, k)
  BY <1>2, <1>3, <1>4, ValidIs
<1>6. \A j \in DOMAIN om.lits : om.lits[j] = l => j = k
  BY <1>2, <1>3, <1>4, ValidIs
<1>7. \A j \in DOMAIN om.lits : om.lits[j] # -l
  <2> SUFFICES ASSUME NEW j \in DOMAIN om.lits, om.lits[j] = -l PROVE FALSE
    OBVIOUS
  <2>1. Abs(om.lits[j]) = Abs(om.lits[k])
    BY <1>4, <1>5, AbsIs
  <2>2. j = k
    BY <1>3, <1>5, <2>1, OwnAtoms
  <2>3. l = -l
    BY <1>5, <2>2
  <2> QED BY <1>4, <2>3
<1>8. s.om = om /\ s.b = Top /\ s.val = assign /\ GoodState(s, used) /\ MapOk(s.om, used, 0) /\ used \subseteq Atoms
  BY <1>1, StateIs, Basics
<1>9. PICK t : t = UpdateUpper(s, k, succ)
  OBVIOUS
<1> SUFFICES ASSUME t.ok PROVE After(t, l)
  BY <1>1, <1>2, <1>9
<1>10. /\ GoodState(t, used) /\ t.om = om
       /\ t.b.lo = Top.lo /\ (t.b.up = Top.up \/ t.b.up = k) /\ t.b.up <= k
       /\ \/ t.val = assign /\ Truth(assign, succ) = 1
          \/ /\ t.val = Assigned(assign, ImpliedAbove(s, k))
             /\ NoneFalse(assign, ImpliedAbove(s, k))
  <2>1. PICK U, m : U = used /\ m = 0
    OBVIOUS
  <2>2. U \subseteq Atoms /\ GoodState(s, U) /\ MapOk(s.om, U, m)
    BY <1>8, <2>1
  <2>3. /\ t.ok => GoodState(t, U) /\ s.ok
        /\ IsState(t) /\ t.om = s.om
        /\ t.ok => t.b.lo = s.b.lo /\ (t.b.up = s.b.up \/ t.b.up = k) /\ t.b.up <= k
        /\ t.ok /\ ~Preparing =>
             \/ t.val = s.val /\ Truth(s.val, succ) = 1
             \/ /\ t.val = Assigned(s.val, ImpliedAbove(s, k))
                /\ \A x \in ImpliedAbove(s, k) : Truth(s.val, x) # -1
    BY <1>5, <1>9, <2>2, UpdateUpperOk
  <2> QED BY <1>3, <1>8, <2>1, <2>3 DEF NoneFalse
<1>11. PICK val, b : val = t.val /\ b = t.b
  OBVIOUS
<1>12. val \in Values /\ MoreValues(assign, val, used) /\ b \in Bounds /\ Top.lo <= b.lo /\ b.up <= Top.up
  BY <1>10, <1>11 DEF GoodState, Values, MoreValues
<1>13. \A j \in DOMAIN om.lits : k < j => SomeTrue(val, om, k, j)
  <2>1. CASE val = assign /\ Truth(assign, succ) = 1
    <3>1. IsSucc(om.lits, k, succ)
      <4>1. PICK o : o = om
        OBVIOUS
      <4>2. OrderAssumption /\ DOMAIN o.lits \subseteq Lo..(Hi - 1)
        BY <4>1 DEF Assumptions, IInv, MapOk
      <4>3. IsSucc(o.lits, k, LitSucc(o, k))
        BY <1>5, <4>2, PrevAndSucc
      <4> QED BY <1>5, <4>1, <4>3
    <3>2. ASSUME NEW j \in DOMAIN om.lits, k < j PROVE SomeTrue(val, om, k, j)
      <4>1. j \in Int
        BY <1>3, OwnAtoms
      <4>2. ~(j <= k)
        BY <1>5, <3>2, <4>1
      <4>3. PICK m \in DOMAIN om.lits : m > k /\ succ = om.lits[m] /\ \A i \in DOMAIN om.lits : i > k => i >= m
        BY <3>1, <4>2 DEF IsSucc
      <4>4. m \in Int /\ k < m /\ m <= j
        <5>1. m \in Int /\ j > k
          BY <1>3, <1>5, <3>2, <4>1, OwnAtoms
        <5>2. j >= m
          BY <4>3, <5>1
        <5> QED BY <1>5, <4>1, <4>3, <5>1, <5>2
      <4> QED BY <2>1, <4>3, <4>4 DEF SomeTrue
    <3> QED BY <3>2
  <2>2. CASE val = Assigned(assign, ImpliedAbove(s, k)) /\ NoneFalse(assign, ImpliedAbove(s, k))
    BY <1>3, <1>5, <1>8, <2>2, AboveTrue
  <2> QED BY <1>10, <1>11, <2>1, <2>2
<1>14. b.up # Top.up => b.up \in DOMAIN om.lits /\ Truth(val, om.lits[b.up]) = 1
  BY <1>4, <1>5, <1>10, <1>11, <1>12
<1>15. \A j \in DOMAIN om.lits : om.lits[j] = l =>
         b.up <= j /\ \A i \in DOMAIN om.lits : j < i => SomeTrue(val, om, j, i)
  BY <1>6, <1>10, <1>11, <1>13
<1>16. b.lo = Top.lo
  BY <1>10, <1>11
<1>17. LevelsOk(Atoms, om, val, LevelOf(val), (queue \ {l}) \union NewLits(val), [trail EXCEPT ![Len(trail)] = b])
  BY <1>7, <1>12, <1>14, <1>15, <1>16, DequeueLevels
<1> QED BY <1>10, <1>11, <1>17 DEF After

\* What update_lower_ yields.
OrderedLower(s, k, prev, t, U) ==
    /\ t.ok => GoodState(t, U)
    /\ t.om = s.om
    /\ t.ok => t.b.up = s.b.up /\ (t.b.lo = s.b.lo \/ t.b.lo = k + 1) /\ k + 1 <= t.b.lo
    /\ t.ok /\ ~Preparing =>
         \/ t.val = s.val /\ Truth(s.val, prev) = -1
         \/ t.val = Assigned(s.val, ImpliedBelow(s, k)) /\ NoneFalse(s.val, ImpliedBelow(s, k))

\* UpdateLowerOk under a name.
LEMMA LowerOrdered ==
    ASSUME Assumptions, IInv, NEW U, U \subseteq Atoms, NEW s, GoodState(s, U), NEW m, MapOk(s.om, U, m),
           NEW k \in Int, NEW prev, NEW t, t = UpdateLower(s, k, prev)
    PROVE  OrderedLower(s, k, prev, t, U)
  BY UpdateLowerOk DEF OrderedLower, NoneFalse

\* -l is x <= k for a value k.
LEMMA PropagateLower ==
    ASSUME Assumptions, IInv, dl > 0, NEW l \in queue, Valid(om, -l)
    PROVE  LET t == UpdateLower(State, om.litmap[Abs(l)].value, om.litmap[Abs(l)].prev) IN
           t.ok => After(t, l)
<1>1. PICK s : s = State
  OBVIOUS
<1>2. PICK k, prev : k = om.litmap[Abs(l)].value /\ prev = om.litmap[Abs(l)].prev
  OBVIOUS
<1>3. om.factmap = <<>> /\ ~Preparing
  <2>1. dl # 0
    OBVIOUS
  <2> QED BY <2>1, PhaseFacts
<1>4. /\ l \in Int /\ l # 0 /\ Truth(assign, l) = 1 /\ l \in LiteralsOf(Atoms)
      /\ \A val \in Values : MoreValues(assign, val, used) => Truth(val, l) = 1
  BY QueuedLiteral
<1>20. PICK y : y = -l
  OBVIOUS
<1>21. y \in Int /\ Abs(y) = Abs(l) /\ -y = l /\ Valid(om, y) /\ y # l
  BY <1>4, <1>20, AbsIs
<1>5. k \in DOMAIN om.lits /\ k \in Int /\ om.lits[k] = y /\ prev = LitPrev(om, k)
  BY <1>2, <1>3, <1>21, ValidIs
<1>6. \A j \in DOMAIN om.lits : om.lits[j] = y => j = k
  BY <1>2, <1>3, <1>21, ValidIs
<1>7. \A j \in DOMAIN om.lits : om.lits[j] # l
  <2> SUFFICES ASSUME NEW j \in DOMAIN om.lits, om.lits[j] = l PROVE FALSE
    OBVIOUS
  <2>1. Abs(om.lits[j]) = Abs(om.lits[k])
    BY <1>5, <1>21
  <2>2. j = k
    BY <1>3, <1>5, <2>1, OwnAtoms
  <2> QED BY <1>5, <1>21, <2>2
<1>8. s.om = om /\ s.b = Top /\ s.val = assign /\ GoodState(s, used) /\ MapOk(s.om, used, 0) /\ used \subseteq Atoms
  BY <1>1, StateIs, Basics
<1>9. PICK t : t = UpdateLower(s, k, prev)
  OBVIOUS
<1> SUFFICES ASSUME t.ok PROVE After(t, l)
  BY <1>1, <1>2, <1>9
<1>10. /\ GoodState(t, used) /\ t.om = om
       /\ t.b.up = Top.up /\ (t.b.lo = Top.lo \/ t.b.lo = k + 1) /\ k + 1 <= t.b.lo
       /\ \/ t.val = assign /\ Truth(assign, prev) = -1
          \/ /\ t.val = Assigned(assign, ImpliedBelow(s, k))
             /\ NoneFalse(assign, ImpliedBelow(s, k))
  <2>1. PICK U, m : U = used /\ m = 0
    OBVIOUS
  <2>2. U \subseteq Atoms /\ GoodState(s, U) /\ MapOk(s.om, U, m)
    BY <1>8, <2>1
  <2>3. OrderedLower(s, k, prev, t, U)
    BY <1>5, <1>9, <2>2, LowerOrdered
  <2>4. t.ok => GoodState(t, U)
    BY <2>3 DEF OrderedLower
  <2>5. t.om = s.om
    BY <2>3 DEF OrderedLower
  <2>6. t.ok => t.b.up = s.b.up /\ (t.b.lo = s.b.lo \/ t.b.lo = k + 1) /\ k + 1 <= t.b.lo
    BY <2>3 DEF OrderedLower
  <2>7. t.ok => \/ t.val = s.val /\ Truth(s.val, prev) = -1
                \/ t.val = Assigned(s.val, ImpliedBelow(s, k)) /\ NoneFalse(s.val, ImpliedBelow(s, k))
    BY <1>3, <2>3 DEF OrderedLower
  <2> QED BY <1>8, <2>1, <2>4, <2>5, <2>6, <2>7
<1>11. PICK val, b : val = t.val /\ b = t.b
  OBVIOUS
<1>12. val \in Values /\ MoreValues(assign, val, used) /\ b \in Bounds /\ Top.lo <= b.lo /\ b.up <= Top.up
  BY <1>10, <1>11 DEF GoodState, Values, MoreValues
<1>13. \A j \in DOMAIN om.lits : j < k => SomeFalse(val, om, k, j)
  <2>1. CASE val = assign /\ Truth(assign, prev) = -1
    <3>1. IsPrev(om.lits, k, prev)
      <4>1. PICK o : o = om
        OBVIOUS
      <4>2. OrderAssumption /\ DOMAIN o.lits \subseteq Lo..(Hi - 1)
        BY <4>1 DEF Assumptions, IInv, MapOk
      <4>3. IsPrev(o.lits, k, LitPrev(o, k))
        BY <1>5, <4>2, PrevAndSucc
      <4> QED BY <1>5, <4>1, <4>3
    <3>2. ASSUME NEW j \in DOMAIN om.lits, j < k PROVE SomeFalse(val, om, k, j)
      <4>1. j \in Int
        BY <1>3, OwnAtoms
      <4>2. ~(j >= k)
        BY <1>5, <3>2, <4>1
      <4>3. PICK m \in DOMAIN om.lits : m < k /\ prev = om.lits[m] /\ \A i \in DOMAIN om.lits : i < k => i <= m
        BY <3>1, <4>2 DEF IsPrev
      <4>4. m \in Int /\ m < k /\ j <= m
        BY <1>3, <3>2, <4>3, OwnAtoms
      <4> QED BY <2>1, <4>3, <4>4 DEF SomeFalse
    <3> QED BY <3>2
  <2>2. CASE val = Assigned(assign, ImpliedBelow(s, k)) /\ NoneFalse(assign, ImpliedBelow(s, k))
    BY <1>3, <1>5, <1>8, <2>2, BelowFalse
  <2> QED BY <1>10, <1>11, <2>1, <2>2
<1>22. Truth(val, y) = -1
  <2>1. Atoms \subseteq Nat \ {0, 1} /\ val \in [Atoms -> {-1, 0, 1}]
    BY <1>12, Basics DEF Values
  <2>2. Truth(val, l) = 1
    BY <1>4, <1>12
  <2>3. l \in LiteralsOf(Atoms)
    BY <1>4
  <2>4. Opposite(y, l)
    BY <1>20 DEF Opposite
  <2>5. Truth(val, y) = -1 <=> Truth(val, l) = 1
    <3>1. PICK A : A = Atoms
      OBVIOUS
    <3>2. A \subseteq Nat \ {0, 1} /\ val \in [A -> {-1, 0, 1}] /\ l \in LiteralsOf(A)
      BY <2>1, <2>3, <3>1
    <3> QED BY ONLY <3>2, <2>4, OppositeTruth
  <2> QED BY <2>2, <2>5
<1>14. b.lo # Top.lo => b.lo - 1 \in DOMAIN om.lits /\ Truth(val, om.lits[b.lo - 1]) = -1
  <2> SUFFICES ASSUME b.lo # Top.lo PROVE b.lo - 1 = k
    BY <1>5, <1>22
  <2> QED BY <1>5, <1>10, <1>11
<1>15. \A j \in DOMAIN om.lits : om.lits[j] = -l =>
         j < b.lo /\ \A i \in DOMAIN om.lits : i < j => SomeFalse(val, om, j, i)
  <2>1. k < b.lo
    <3>1. b.lo \in Int
      BY <1>12 DEF Bounds
    <3> QED BY <1>5, <1>10, <1>11, <3>1
  <2> QED BY <1>6, <1>13, <1>20, <2>1
<1>16. b.up = Top.up
  BY <1>10, <1>11
<1>17. LevelsOk(Atoms, om, val, LevelOf(val), (queue \ {l}) \union NewLits(val), [trail EXCEPT ![Len(trail)] = b])
  BY <1>7, <1>12, <1>14, <1>15, <1>16, DequeueLevels
<1> QED BY <1>10, <1>11, <1>17 DEF After

\* l is not an order literal.
LEMMA PropagateOther ==
    ASSUME Assumptions, IInv, dl > 0, NEW l \in queue, ~Valid(om, l), ~Valid(om, -l)
    PROVE  After(State, l)
<1>1. PICK t : t = State
  OBVIOUS
<1>2. t.om = om /\ t.b = Top /\ t.val = assign /\ GoodState(t, used)
  BY <1>1, StateIs
<1>3. om.factmap = <<>>
  <2>1. dl # 0
    OBVIOUS
  <2> QED BY <2>1, PhaseFacts
<1>4. l \in Int /\ -l \in Int
  BY QueuedLiteral
<1>5. \A j \in DOMAIN om.lits : om.lits[j] # l /\ om.lits[j] # -l
  BY <1>3, <1>4, ValidIs
<1>6. PICK val, b : val = t.val /\ b = t.b
  OBVIOUS
<1>7. /\ val \in Values /\ MoreValues(assign, val, used) /\ b \in Bounds /\ Top.lo <= b.lo /\ b.up <= Top.up
      /\ b.lo = Top.lo /\ b.up = Top.up
  BY <1>2, <1>6 DEF GoodState, Values, MoreValues
<1>8. LevelsOk(Atoms, om, val, LevelOf(val), (queue \ {l}) \union NewLits(val), [trail EXCEPT ![Len(trail)] = b])
  BY <1>5, <1>7, DequeueLevels
<1> QED BY <1>1, <1>2, <1>6, <1>8 DEF After

\* Propagating a queued literal keeps the invariant.
LEMMA PropagateKeeps ==
    ASSUME Assumptions, IInv, Propagate, UNCHANGED program
    PROVE  IInv'
<1>1. PICK l \in queue : Become(UpdateDomain(State, l), queue \ {l}, pc)
  BY DEF Propagate
<1>2. pc \in {"deliver", "propagate"} /\ UNCHANGED <<used, static, program>>
  BY DEF Propagate
<1>3. PICK t : t = UpdateDomain(State, l)
  OBVIOUS
<1>4. PICK U, rest, next : U = used /\ rest = queue \ {l} /\ next = pc
  OBVIOUS
<1>5. /\ used \subseteq U /\ U \subseteq Atoms /\ used' = U /\ rest \subseteq queue /\ Become(t, rest, next)
      /\ next \in Building \union Searching /\ (dl > 0 => next \in Searching)
      /\ (next \in Searching => pc \in Searching) /\ next # "fixpoint"
  BY <1>1, <1>2, <1>3, <1>4, Basics, PhaseFacts
<1>6. CASE dl = 0
  <2>1. l \in Int /\ l # 0
    BY QueuedLiteral
  <2>2. PICK y : y = Simplified(om, l)
    OBVIOUS
  <2>3. MapOk(y, U, 0) /\ DOMAIN y.litmap \subseteq DOMAIN om.litmap \ {Abs(l)}
    <3>1. PICK o : o = om
      OBVIOUS
    <3>2. OrderAssumption /\ MapOk(o, U, 0) /\ U \subseteq Atoms /\ Atoms \subseteq Nat
      BY <1>4, <1>5, <3>1, Basics DEF IInv, Assumptions
    <3> QED BY <2>1, <2>2, <3>1, <3>2, SimplifiedOk
  <2>4. PICK s : s = SetOm(State, y)
    OBVIOUS
  <2>5. GoodState(s, U) /\ s.om = y /\ s.ok
    BY <1>5, <2>4, StateWithMap
  <2>6. t = IntegrateFacts(s)
    <3>1. State.om = om
      BY StateIs
    <3> QED BY <1>3, <1>6, <2>2, <2>4, <3>1 DEF UpdateDomain, SetOm
  <2>7. t.ok => GoodState(t, U) /\ MapOk(t.om, U, 0) /\ DOMAIN t.om.litmap = DOMAIN y.litmap
    BY <1>5, <2>3, <2>5, <2>6, IntegrateFactsOk
  <2>8. t.ok => \A a \in DOMAIN t.om.litmap : assign[a] # 0 /\ alevel[a] = 0 => assign[a] * a \in rest
    <3> SUFFICES ASSUME t.ok, NEW a \in DOMAIN t.om.litmap, assign[a] # 0, alevel[a] = 0
                 PROVE  assign[a] * a \in rest
      OBVIOUS
    <3>1. a \in DOMAIN om.litmap /\ a # Abs(l)
      BY <2>3, <2>7
    <3>2. assign[a] * a \in queue
      BY <3>1 DEF IInv, TopInv
    <3>3. a \in Nat /\ assign[a] \in {-1, 0, 1}
      BY <3>1, Basics DEF IInv, AssignInv, MapOk
    <3>4. Abs(assign[a] * a) = a
      BY <3>3, EnteredAtom
    <3> QED BY <1>4, <3>1, <3>2, <3>4
  <2> QED BY <1>2, <1>5, <1>6, <2>7, <2>8, BecomeTop
<1>7. CASE dl > 0
  <2>1. t.ok => After(t, l)
    <3>1. PICK s : s = State
      OBVIOUS
    <3>2. s.om = om /\ dl # 0
      BY <1>7, <3>1, StateIs
    <3>3. CASE Valid(om, l)
      <4>1. t = UpdateUpper(s, om.litmap[Abs(l)].value, om.litmap[Abs(l)].succ)
        BY <1>3, <3>1, <3>2, <3>3 DEF UpdateDomain
      <4> QED BY <1>7, <3>1, <3>3, <4>1, PropagateUpper
    <3>4. CASE ~Valid(om, l) /\ Valid(om, -l)
      <4>1. t = UpdateLower(s, om.litmap[Abs(l)].value, om.litmap[Abs(l)].prev)
        BY <1>3, <3>1, <3>2, <3>4 DEF UpdateDomain
      <4> QED BY <1>7, <3>1, <3>4, <4>1, PropagateLower
    <3>5. CASE ~Valid(om, l) /\ ~Valid(om, -l)
      <4>1. t = s
        BY <1>3, <3>1, <3>2, <3>5 DEF UpdateDomain
      <4> QED BY <1>7, <3>1, <3>5, <4>1, PropagateOther
    <3> QED BY <3>3, <3>4, <3>5
  <2>2. CASE ~t.ok
    BY <1>2, <1>5, <2>2, BecomeFails
  <2>3. CASE t.ok
    <3>1. GoodState(t, U) /\ t.om = om /\ MapOk(t.om, U, 0) /\ After(t, l)
      BY <1>4, <2>1, <2>3 DEF After, IInv
    <3>2. t.om.factmap # <<>> => dl = 0
      BY <3>1, PhaseFacts
    <3>3. \A a \in DOMAIN t.om.litmap : assign[a] # 0 /\ alevel[a] = 0 => dl = 0 /\ assign[a] * a \in rest
      <4>1. dl # 0
        BY <1>7
      <4> QED BY <3>1, <4>1 DEF IInv, TopInv
    <3>4. LevelsOk(Atoms, t.om, t.val, alevel', rest \union NewLits(t.val), trail')
      <4>1. alevel' = LevelOf(t.val) /\ trail' = [trail EXCEPT ![Len(trail)] = t.b]
        BY <1>5, <2>3 DEF Become, AssignAt, LevelOf
      <4> QED BY <1>4, <3>1, <4>1 DEF After
    <3> QED BY <1>2, <1>5, <2>3, <3>1, <3>2, <3>3, <3>4, BecomeKeeps
  <2> QED BY <2>2, <2>3
<1>8. dl \in Nat
  BY PhaseFacts
<1> QED BY <1>6, <1>7, <1>8

\* A new literal that is free, for a value between the bounds of every
\* level, fits between the literals there are.
LEMMA FreeFits ==
    ASSUME NEW A, NEW o, HasLiterals(o), NEW val, NEW lev, NEW q, NEW tr, Len(tr) \in Nat,
           LevelsOk(A, o, val, lev, q, tr), NEW v \in Int, NEW lit,
           \A i : ~TrueIn(A, val, lev, lit, i) /\ ~FalseIn(A, val, lev, lit, i),
           \A i \in 2..Len(tr) : tr[i].lo \in Int /\ tr[i].up \in Int /\ tr[i].lo <= v /\ v < tr[i].up
    PROVE  Fitting(A, o, val, lev, q, tr, v, lit)
<1> SUFFICES ASSUME NEW i \in 2..Len(tr), NEW k \in DOMAIN o.lits
             PROVE  /\ k < v /\ TrueIn(A, val, lev, o.lits[k], i) => i = Len(tr) /\ o.lits[k] \in q
                    /\ k > v /\ FalseIn(A, val, lev, o.lits[k], i) => i = Len(tr) /\ -o.lits[k] \in q
  BY DEF Fitting
<1>1. k \in Int /\ tr[i].lo \in Int /\ tr[i].up \in Int /\ tr[i].lo <= v /\ v < tr[i].up
  BY DEF HasLiterals
<1>2. /\ FalseIn(A, val, lev, o.lits[k], i) => k < tr[i].lo \/ (i = Len(tr) /\ -o.lits[k] \in q)
      /\ TrueIn(A, val, lev, o.lits[k], i) => tr[i].up <= k \/ (i = Len(tr) /\ o.lits[k] \in q)
  BY DEF LevelsOk, LevelsIn
<1>3. (k < v => ~(tr[i].up <= k)) /\ (k > v => ~(k < tr[i].lo))
  BY <1>1
<1> QED BY <1>2, <1>3

\* The bounds of a level enclose those of the levels after it.
LEMMA BoundsNested ==
    ASSUME Assumptions, IInv
    PROVE  \A i \in 1..Len(trail) : /\ trail[i].lo \in Int /\ trail[i].up \in Int
                                    /\ trail[i].lo <= Top.lo /\ Top.up <= trail[i].up
<1>1. PICK tr, n : tr = trail /\ n = Len(trail)
  OBVIOUS
<1>2. /\ tr \in Seq(Bounds) /\ n \in Nat /\ n >= 1 /\ n = Len(tr)
      /\ \A i, j \in 1..n : i <= j => tr[i].lo <= tr[j].lo /\ tr[j].up <= tr[i].up
  BY <1>1, Basics DEF IInv, TrailInv
<1>3. ASSUME NEW i \in 1..n
      PROVE  tr[i].lo \in Int /\ tr[i].up \in Int /\ tr[i].lo <= tr[n].lo /\ tr[n].up <= tr[i].up
  <2>1. tr[i] \in Bounds
    BY <1>2
  <2>2. n \in 1..n /\ i <= n
    BY <1>2
  <2> QED BY <1>2, <2>1, <2>2 DEF Bounds
<1> QED BY <1>1, <1>3 DEF Top

\* Atoms that do not exist in clasp are free.
LEMMA NewAtomFree ==
    ASSUME Assumptions, IInv, NEW lit \in Int, Abs(lit) \in Atoms, Abs(lit) \notin used
    PROVE  /\ assign[Abs(lit)] = 0 /\ Truth(assign, lit) = 0 /\ lit \in LiteralsOf(Atoms)
           /\ \A l \in LiteralsOf(used) : Abs(l) # Abs(lit)
           /\ \A i : ~TrueIn(Atoms, assign, alevel, lit, i) /\ ~FalseIn(Atoms, assign, alevel, lit, i)
<1>1. Atoms \subseteq Nat \ {0, 1} /\ assign \in [Atoms -> {-1, 0, 1}] /\ used \subseteq Atoms /\ Atoms \subseteq Nat
      /\ used \subseteq Nat
  BY Basics DEF Assignment
<1>2. assign[Abs(lit)] = 0
  BY DEF IInv, AssignInv
<1>3. lit \in LiteralsOf(Atoms)
  BY <1>1, LiteralIs
<1>4. Truth(assign, lit) = 0
  <2>1. PICK A, val : A = Atoms /\ val = assign
    OBVIOUS
  <2>2. A \subseteq Nat \ {0, 1} /\ val \in [A -> {-1, 0, 1}] /\ lit \in LiteralsOf(A) /\ Abs(lit) \in A
    BY <1>1, <1>3, <2>1
  <2>3. Truth(val, lit) = 0 <=> val[Abs(lit)] = 0
    BY ONLY <2>2, TruthZero
  <2> QED BY <1>2, <2>1, <2>3
<1>5. ASSUME NEW l \in LiteralsOf(used) PROVE Abs(l) # Abs(lit)
  <2>1. l \in Int
    BY <1>1, LiteralsAreInts
  <2>2. l \in FactLits \/ Abs(l) \in used
    BY <1>1, <2>1, LiteralIs
  <2>3. l \in FactLits => Abs(l) = 1
    BY DEF FactLits, T, Abs
  <2>4. Abs(lit) # 1
    BY <1>1
  <2> QED BY <2>2, <2>3, <2>4
<1> QED BY <1>2, <1>3, <1>4, <1>5 DEF TrueIn, FalseIn

\* What get_literal does to the map when it creates a literal.
LEMMA GetLiteralInserts ==
    ASSUME Assumptions, IInv, NEW n \in Nat, GoodBuilder(Builder, n), n + 1 <= program.atoms, NEW v \in Int
    PROVE  LET t == GetLiteral(Builder, v) IN
           /\ GoodBuilder(t, n + 1) /\ t.om.factmap = om.factmap
           /\ LitOf(t, v) \in LiteralsOf(t.used)
           /\ OutOfBounds(v) \/ v \in DOMAIN om.lits => t.om = om
           /\ ~OutOfBounds(v) /\ v \notin DOMAIN om.lits =>
                /\ Inserted(om, t.om, v, t.om.lits[v])
                /\ t.om.lits[v] \in Int /\ Abs(t.om.lits[v]) \in Atoms /\ Abs(t.om.lits[v]) \notin used
                /\ LitOf(t, v) = t.om.lits[v]
<1>1. PICK s : s = Builder
  OBVIOUS
<1>2. s.om = om /\ s.used = used /\ GoodBuilder(s, n)
  BY <1>1 DEF Builder
<1>3. PICK t : t = GetLiteral(s, v)
  OBVIOUS
<1>4. /\ GoodBuilder(t, n + 1) /\ HasLiteral(t, v)
      /\ Extends(s.om, t.om) /\ t.om.factmap = s.om.factmap
      /\ OutOfBounds(v) \/ v \in DOMAIN s.om.lits => t = s
      /\ ~OutOfBounds(v) /\ v \notin DOMAIN s.om.lits =>
                /\ DOMAIN t.om.lits = DOMAIN s.om.lits \union {v}
                /\ Abs(t.om.lits[v]) = Fresh(s) /\ Fresh(s) \in Atoms /\ Fresh(s) \notin s.used
                /\ t.om.lits[v] \in Int
  BY <1>2, <1>3, GetLiteralOk
<1>5. ASSUME ~OutOfBounds(v), v \notin DOMAIN om.lits
      PROVE  /\ Inserted(om, t.om, v, t.om.lits[v])
             /\ t.om.lits[v] \in Int /\ Abs(t.om.lits[v]) \in Atoms /\ Abs(t.om.lits[v]) \notin used
             /\ LitOf(t, v) = t.om.lits[v]
  <2>1. Inserted(om, t.om, v, t.om.lits[v])
    BY <1>2, <1>4, <1>5 DEF Inserted, Extends
  <2>2. LitOf(t, v) = t.om.lits[v]
    BY <1>5 DEF LitOf, OutOfBounds
  <2> QED BY <1>2, <1>4, <1>5, <2>1, <2>2
<1>6. OutOfBounds(v) \/ v \in DOMAIN om.lits => t.om = om
  BY <1>2, <1>4
<1> QED BY <1>1, <1>2, <1>3, <1>4, <1>5, <1>6 DEF HasLiteral

\* Above level 0 the new literal of an open value is free and fits.
LEMMA NewLiteralLevels ==
    ASSUME Assumptions, IInv, dl > 0, NEW n \in Nat, GoodBuilder(Builder, n), n + 1 <= program.atoms,
           NEW v \in Int, Top.lo <= v, v < Top.up
    PROVE  LET t == GetLiteral(Builder, v) IN
           LevelsOk(Atoms, t.om, assign, alevel, queue, trail) /\ t.om.factmap = <<>>
<1>1. PICK t : t = GetLiteral(Builder, v)
  OBVIOUS
<1>2. /\ t.om.factmap = om.factmap
      /\ OutOfBounds(v) \/ v \in DOMAIN om.lits => t.om = om
      /\ ~OutOfBounds(v) /\ v \notin DOMAIN om.lits =>
           /\ Inserted(om, t.om, v, t.om.lits[v])
           /\ t.om.lits[v] \in Int /\ Abs(t.om.lits[v]) \in Atoms /\ Abs(t.om.lits[v]) \notin used
  BY <1>1, GetLiteralInserts
<1>3. om.factmap = <<>>
  <2>1. dl # 0
    OBVIOUS
  <2> QED BY <2>1, PhaseFacts
<1>4. LevelsOk(Atoms, om, assign, alevel, queue, trail)
  BY DEF IInv, LevelsInv
<1>5. ASSUME ~OutOfBounds(v), v \notin DOMAIN om.lits
      PROVE  LevelsOk(Atoms, t.om, assign, alevel, queue, trail)
  <2>1. PICK lit : lit = t.om.lits[v]
    OBVIOUS
  <2>2. Inserted(om, t.om, v, lit) /\ lit \in Int /\ Abs(lit) \in Atoms /\ Abs(lit) \notin used
    BY <1>2, <1>5, <2>1
  <2>3. \A i : ~TrueIn(Atoms, assign, alevel, lit, i) /\ ~FalseIn(Atoms, assign, alevel, lit, i)
    BY <2>2, NewAtomFree
  <2>4. HasLiterals(om)
    <3>1. OrderAssumption /\ MapOk(om, used, 0)
      BY DEF Assumptions, IInv
    <3> QED BY <3>1, MapLiterals
  <2>5. \A i \in 2..Len(trail) : trail[i].lo \in Int /\ trail[i].up \in Int /\ trail[i].lo <= v /\ v < trail[i].up
    <3> SUFFICES ASSUME NEW i \in 2..Len(trail)
                 PROVE  trail[i].lo \in Int /\ trail[i].up \in Int /\ trail[i].lo <= v /\ v < trail[i].up
      OBVIOUS
    <3>1. Len(trail) \in Nat /\ Top.lo \in Int /\ Top.up \in Int
      BY Basics
    <3>2. i \in 1..Len(trail)
      BY <3>1
    <3>3. trail[i].lo \in Int /\ trail[i].up \in Int /\ trail[i].lo <= Top.lo /\ Top.up <= trail[i].up
      BY <3>2, BoundsNested
    <3> QED BY <3>1, <3>3
  <2>6. Len(trail) \in Nat
    BY Basics
  <2>7. Fitting(Atoms, om, assign, alevel, queue, trail, v, lit)
    BY <1>4, <2>3, <2>4, <2>5, <2>6, FreeFits
  <2> QED BY <1>4, <2>2, <2>4, <2>6, <2>7, LevelsInsert
<1> QED BY <1>1, <1>2, <1>3, <1>4, <1>5

\* The literals ls are implied after literals have been added to the map.
LEMMA ImpliedKeeps ==
    ASSUME Assumptions, IInv, NEW s, NEW n, GoodBuilder(s, n), s.om.factmap # <<>> => dl = 0,
           NEW ls, ls \subseteq LiteralsOf(s.used), pc \in {"examine", "check"},
           Become(Imply(SetOm(State, s.om), ls), queue, pc),
           used' = s.used, UNCHANGED <<static, program>>,
           dl > 0 /\ NoneFalse(assign, ls) =>
             LET val == Assigned(assign, ls) IN
             LevelsOk(Atoms, s.om, val, LevelOf(val), queue \union NewLits(val), trail)
    PROVE  IInv'
<1>1. PICK U, o : U = s.used /\ o = s.om
  OBVIOUS
<1>2. /\ U \subseteq Atoms /\ used \subseteq U /\ MapOk(o, U, 0)
      /\ \A a \in DOMAIN o.litmap : a \in DOMAIN om.litmap \/ assign[a] = 0
  BY <1>1, BuilderFacts DEF GoodBuilder
<1>3. PICK z : z = SetOm(State, o)
  OBVIOUS
<1>4. GoodState(z, U) /\ IsState(z) /\ z.om = o /\ z.b = Top /\ z.val = assign /\ z.units = units /\ z.ok
  BY <1>2, <1>3, StateWithMap
<1>5. PICK t : t = Imply(z, ls)
  OBVIOUS
<1>6. ls \subseteq LiteralsOf(U)
  BY <1>1
<1>13. U \subseteq Atoms /\ GoodState(z, U)
  BY <1>2, <1>4
<1>7. /\ t.ok => GoodState(t, U)
      /\ t.om = z.om /\ t.b = z.b
      /\ ~Preparing /\ t.ok => /\ t.val = Assigned(z.val, ls)
                               /\ \A l \in ls : Truth(z.val, l) # -1
  BY ONLY Assumptions, IInv, <1>5, <1>6, <1>13, ImplyOk
<1>8. Become(t, queue, pc) /\ used' = U /\ static' = static /\ program' = program
  BY <1>1, <1>3, <1>5
<1>9. pc \in Building \union Searching /\ pc # "fixpoint"
  BY DEF Building, Searching
<1>10. CASE dl = 0
  <2>1. t.ok => GoodState(t, U) /\ MapOk(t.om, U, 0)
    BY <1>2, <1>4, <1>7
  <2>2. t.ok => \A a \in DOMAIN t.om.litmap : assign[a] # 0 /\ alevel[a] = 0 => assign[a] * a \in queue
    BY <1>2, <1>4, <1>7 DEF IInv, TopInv
  <2> QED BY <1>2, <1>8, <1>9, <1>10, <2>1, <2>2, BecomeTop
<1>11. CASE dl > 0
  <2>1. CASE ~t.ok
    BY <1>2, <1>8, <2>1, BecomeFails
  <2>2. CASE t.ok
    <3>1. pc \in Searching /\ ~Preparing /\ dl # 0
      <4>1. pc \in Searching
        BY <1>11, PhaseFacts
      <4>2. ~Preparing
        BY <4>1, PhaseFacts
      <4>3. dl # 0
        BY <1>11
      <4> QED BY <4>1, <4>2, <4>3
    <3>2. GoodState(t, U) /\ t.om = o /\ MapOk(t.om, U, 0) /\ t.b = Top
      BY <1>2, <1>4, <1>7, <2>2
    <3>3. t.val = Assigned(assign, ls) /\ NoneFalse(assign, ls)
      BY <1>4, <1>7, <2>2, <3>1 DEF NoneFalse
    <3>4. t.om.factmap # <<>> => dl = 0
      BY <1>1, <3>2
    <3>5. \A a \in DOMAIN t.om.litmap : assign[a] # 0 /\ alevel[a] = 0 => dl = 0 /\ assign[a] * a \in queue
      BY <1>2, <3>1, <3>2 DEF IInv, TopInv
    <3>6. LevelsOk(Atoms, t.om, t.val, alevel', queue \union NewLits(t.val), trail')
      <4>1. alevel' = LevelOf(t.val) /\ trail' = [trail EXCEPT ![Len(trail)] = t.b]
        BY <1>8, <2>2 DEF Become, AssignAt, LevelOf
      <4>2. trail' = trail
        BY <3>2, <4>1 DEF IInv, TrailInv, Top
      <4>3. PICK val : val = t.val
        OBVIOUS
      <4>4. LevelsOk(Atoms, o, val, LevelOf(val), queue \union NewLits(val), trail)
        BY <1>1, <1>11, <3>3, <4>3
      <4> QED BY <3>2, <4>1, <4>2, <4>3, <4>4
    <3> QED BY <1>2, <1>8, <1>9, <2>2, <3>1, <3>2, <3>4, <3>5, <3>6, BecomeKeeps
  <2> QED BY <2>1, <2>2
<1>12. dl \in Nat
  BY PhaseFacts
<1> QED BY <1>10, <1>11, <1>12

\* A clause needs the literal of an open value.
LEMMA IntroduceKeeps ==
    ASSUME Assumptions, IInv, Introduce, UNCHANGED program
    PROVE  IInv'
<1>1. PICK v \in Top.lo..(Top.up - 1) : om' = GetLiteral(Builder, v).om /\ used' = GetLiteral(Builder, v).used
  BY DEF Introduce
<1>2. /\ pc = "check" /\ dl > 0 /\ EnoughAtoms(1)
      /\ UNCHANGED <<trail, static, assign, alevel, units, queue, pc>>
  BY DEF Introduce
<1>3. v \in Int /\ Top.lo <= v /\ v < Top.up
  BY Basics
<1>4. PICK n \in Nat : n + 1 <= program.atoms /\ GoodBuilder(Builder, n)
  BY <1>2, BuilderOk
<1>5. PICK s : s = GetLiteral(Builder, v)
  OBVIOUS
<1>6. GoodBuilder(s, n + 1) /\ s.om.factmap = <<>> /\ LevelsOk(Atoms, s.om, assign, alevel, queue, trail)
  BY <1>2, <1>3, <1>4, <1>5, NewLiteralLevels, GetLiteralInserts
<1>7. LiteralsOf(used) \subseteq LiteralsOf(s.used)
  BY <1>6, BuilderFacts
<1>8. units' \subseteq LiteralsOf(s.used) /\ units' = units
  BY <1>2, <1>7 DEF IInv, PhaseInv
<1>9. pc' \in Searching /\ pc \in Searching /\ pc' # "fixpoint" /\ pc' \in Building \union Searching
  BY <1>2 DEF Searching
<1>10. /\ om' = s.om /\ used' = s.used /\ UNCHANGED <<program, trail, static, assign, alevel, queue>>
  BY <1>1, <1>2, <1>5
<1> QED BY <1>6, <1>8, <1>9, <1>10, BuiltKeeps

\* check_full creates the literal of the value in the middle.
LEMMA CheckFullKeeps ==
    ASSUME Assumptions, IInv, CheckFull, UNCHANGED program
    PROVE  IInv'
<1>1. PICK v : v = (Top.lo + Top.up) \div 2
  OBVIOUS
<1>2. /\ pc = "fixpoint" /\ Top.lo < Top.up /\ EnoughAtoms(1) /\ pc' = "propagate"
      /\ om' = GetLiteral(Builder, v).om /\ used' = GetLiteral(Builder, v).used
      /\ UNCHANGED <<trail, static, assign, alevel, units, queue>>
  BY <1>1 DEF CheckFull
<1>3. v \in Int /\ Top.lo <= v /\ v < Top.up
  <2>1. PICK lo, up : lo = Top.lo /\ up = Top.up
    OBVIOUS
  <2>2. lo \in Int /\ up \in Int /\ lo < up
    BY <1>2, <2>1, Basics
  <2>3. v = (lo + up) \div 2
    BY <1>1, <2>1
  <2> QED BY <2>1, <2>2, <2>3
<1>4. PICK n \in Nat : n + 1 <= program.atoms /\ GoodBuilder(Builder, n)
  BY <1>2, BuilderOk
<1>5. PICK s : s = GetLiteral(Builder, v)
  OBVIOUS
<1>6. GoodBuilder(s, n + 1) /\ s.om.factmap = om.factmap
  BY <1>3, <1>4, <1>5, GetLiteralInserts
<1>7. dl > 0 => LevelsOk(Atoms, s.om, assign, alevel, queue, trail)
  BY <1>3, <1>4, <1>5, NewLiteralLevels
<1>8. s.om.factmap # <<>> => dl = 0
  BY <1>6, PhaseFacts
<1>9. LiteralsOf(used) \subseteq LiteralsOf(s.used)
  BY <1>6, BuilderFacts
<1>11. units' \subseteq LiteralsOf(s.used) /\ units' = units
  BY <1>2, <1>9 DEF IInv, PhaseInv
<1>12. pc' \in Searching /\ pc \in Searching /\ pc' # "fixpoint" /\ pc' \in Building \union Searching
  BY <1>2 DEF Searching
<1>10. /\ om' = s.om /\ used' = s.used /\ UNCHANGED <<program, trail, static, assign, alevel, queue>>
  BY <1>2, <1>5
<1> QED BY <1>6, <1>7, <1>8, <1>11, <1>12, <1>10, BuiltKeeps

\* Implied literals are queued, so the levels stay in order.
LEMMA AssignedGrows ==
    ASSUME Assumptions, IInv, NEW U, U \subseteq Atoms, NEW ls, ls \subseteq LiteralsOf(U), NoneFalse(assign, ls),
           NEW o, HasLiterals(o), LevelsOk(Atoms, o, assign, alevel, queue, trail)
    PROVE  LET val == Assigned(assign, ls) IN
           LevelsOk(Atoms, o, val, LevelOf(val), queue \union NewLits(val), trail)
<1>1. PICK val : val = Assigned(assign, ls)
  OBVIOUS
<1>2. Atoms \subseteq Nat \ {0, 1} /\ assign \in Values
  BY Basics DEF Assignment, Values
<1>3. val \in Values /\ MoreValues(assign, val, U)
  BY <1>1, <1>2, AssignedIs
<1>4. \A a \in Atoms : assign[a] # 0 => val[a] = assign[a]
  BY <1>3 DEF MoreValues
<1> QED BY <1>1, <1>3, <1>4, GrowLevels

\* A constraint tightens a bound.
LEMMA TightenKeeps ==
    ASSUME Assumptions, IInv, Tighten, UNCHANGED program
    PROVE  IInv'
<1>1. PICK v \in Top.lo..(Top.up - 1), t \in {1, -1}, fact \in BOOLEAN :
        LET s == UpdateLiteral(Builder, v, IF fact THEN t ELSE 0) IN
        /\ Become(Imply([State EXCEPT !.om = s.om], {t * LitOf(s, v)} \ {T}), queue, pc)
        /\ used' = s.used
  BY DEF Tighten
<1>2. pc \in {"examine", "check"} /\ EnoughAtoms(1) /\ UNCHANGED static
  BY DEF Tighten
<1>3. v \in Int /\ Top.lo <= v /\ v < Top.up
  BY Basics
<1>4. PICK n \in Nat : n + 1 <= program.atoms /\ GoodBuilder(Builder, n)
  BY <1>2, BuilderOk
<1>5. PICK truth : truth = IF fact THEN t ELSE 0
  OBVIOUS
<1>6. truth \in {-1, 0, 1}
  BY <1>5
<1>7. PICK s : s = UpdateLiteral(Builder, v, truth)
  OBVIOUS
<1>8. /\ GoodBuilder(s, n + 1) /\ LitOf(s, v) \in LiteralsOf(s.used)
      /\ dl > 0 => s = GetLiteral(Builder, v)
  BY <1>3, <1>4, <1>6, <1>7, UpdateLiteralOk DEF HasLiteral
<1>9. PICK l, ls : l = t * LitOf(s, v) /\ ls = {l} \ {T}
  OBVIOUS
<1>10. /\ s.used \subseteq Atoms /\ s.used \subseteq Nat \ {0, 1} /\ s.used \subseteq Nat /\ MapOk(s.om, s.used, 0)
  BY <1>8, BuilderFacts
<1>11. l \in LiteralsOf(s.used)
  <2>1. PICK x : x = LitOf(s, v)
    OBVIOUS
  <2>2. x \in LiteralsOf(s.used)
    BY <1>8, <2>1
  <2>3. x \in Int
    BY <1>10, <2>2, LiteralsAreInts
  <2>4. -x \in LiteralsOf(s.used)
    BY <1>10, <2>2, NegatedLiteral
  <2>5. CASE t = 1
    BY <1>9, <2>1, <2>2, <2>3, <2>5
  <2>6. CASE t = -1
    <3>1. l = t * x
      BY <1>9, <2>1
    <3>3. t * x = -x
      BY ONLY <2>3, <2>6
    <3>2. l = -x
      BY <3>1, <3>3
    <3> QED BY <2>4, <3>2
  <2> QED BY <2>5, <2>6
<1>12. ls \subseteq LiteralsOf(s.used)
  BY <1>9, <1>11
<1>13. Become(Imply(SetOm(State, s.om), ls), queue, pc) /\ used' = s.used
  BY <1>1, <1>5, <1>7, <1>9 DEF SetOm
<1>14. dl > 0 => LevelsOk(Atoms, s.om, assign, alevel, queue, trail) /\ s.om.factmap = <<>>
  BY <1>3, <1>4, <1>8, NewLiteralLevels
<1>15. s.om.factmap # <<>> => dl = 0
  <2>1. dl \in Nat
    BY PhaseFacts
  <2>2. dl > 0 \/ dl = 0
    BY <2>1
  <2> QED BY <1>14, <2>2
<1>16. HasLiterals(s.om)
  <2>1. OrderAssumption
    BY DEF Assumptions
  <2> QED BY <1>10, <2>1, MapLiterals
<1>17. dl > 0 /\ NoneFalse(assign, ls) =>
             LET val == Assigned(assign, ls) IN
             LevelsOk(Atoms, s.om, val, LevelOf(val), queue \union NewLits(val), trail)
  BY <1>10, <1>12, <1>14, <1>16, AssignedGrows
<1> QED BY <1>2, <1>8, <1>12, <1>13, <1>15, <1>17, ImpliedKeeps

\* A new literal that has just become false fits if the literal of the next
\* greater value was assigned on the current level.
LEMMA FalseFits ==
    ASSUME NEW A, NEW o, HasLiterals(o), NEW val, NEW lev, NEW q, NEW tr, NEW n \in Nat, n = Len(tr),
           LevelsOk(A, o, val, lev, q, tr), NEW v \in Int, NEW lit, -lit \in q,
           \A i \in 2..n : ~TrueIn(A, val, lev, lit, i) /\ (FalseIn(A, val, lev, lit, i) <=> i = n),
           \A i \in 2..n : tr[i].up \in Int /\ v < tr[i].up,
           NEW m \in DOMAIN o.lits, m > v, \A j \in DOMAIN o.lits : j > v => j >= m,
           \A i \in 2..n : i < n => ~FalseIn(A, val, lev, o.lits[m], i)
    PROVE  Fitting(A, o, val, lev, q, tr, v, lit)
<1> SUFFICES ASSUME NEW i \in 2..n, NEW k \in DOMAIN o.lits
             PROVE  /\ k < v /\ TrueIn(A, val, lev, o.lits[k], i) => i = n /\ o.lits[k] \in q
                    /\ k > v /\ FalseIn(A, val, lev, o.lits[k], i) => i = n
  BY DEF Fitting
<1>1. k \in Int /\ m \in Int /\ tr[i].up \in Int /\ v < tr[i].up
  BY DEF HasLiterals
<1>2. TrueIn(A, val, lev, o.lits[k], i) => tr[i].up <= k \/ (i = n /\ o.lits[k] \in q)
  BY DEF LevelsOk, LevelsIn
<1>3. k < v => ~(tr[i].up <= k)
  BY <1>1
<1>4. ASSUME k > v, FalseIn(A, val, lev, o.lits[k], i), i # n PROVE FALSE
  <2>1. i < n
    BY <1>4
  <2>2. k # m
    BY <1>4, <2>1
  <2>3. m < k
    BY <1>1, <1>4, <2>2
  <2>4. FalseIn(A, val, lev, o.lits[m], i) \/ i = n
    BY <1>4, <2>3 DEF LevelsOk, ClosedIn
  <2> QED BY <2>1, <2>4
<1> QED BY <1>2, <1>3, <1>4

\* The same for a literal that has become true.
LEMMA TrueFits ==
    ASSUME NEW A, NEW o, HasLiterals(o), NEW val, NEW lev, NEW q, NEW tr, NEW n \in Nat, n = Len(tr),
           LevelsOk(A, o, val, lev, q, tr), NEW v \in Int, NEW lit, lit \in q,
           \A i \in 2..n : ~FalseIn(A, val, lev, lit, i) /\ (TrueIn(A, val, lev, lit, i) <=> i = n),
           \A i \in 2..n : tr[i].lo \in Int /\ tr[i].lo <= v,
           NEW m \in DOMAIN o.lits, m < v, \A j \in DOMAIN o.lits : j < v => j <= m,
           \A i \in 2..n : i < n => ~TrueIn(A, val, lev, o.lits[m], i)
    PROVE  Fitting(A, o, val, lev, q, tr, v, lit)
<1> SUFFICES ASSUME NEW i \in 2..n, NEW k \in DOMAIN o.lits
             PROVE  /\ k < v /\ TrueIn(A, val, lev, o.lits[k], i) => i = n
                    /\ k > v /\ FalseIn(A, val, lev, o.lits[k], i) => i = n /\ -o.lits[k] \in q
  BY DEF Fitting
<1>1. k \in Int /\ m \in Int /\ tr[i].lo \in Int /\ tr[i].lo <= v
  BY DEF HasLiterals
<1>2. FalseIn(A, val, lev, o.lits[k], i) => k < tr[i].lo \/ (i = n /\ -o.lits[k] \in q)
  BY DEF LevelsOk, LevelsIn
<1>3. k > v => ~(k < tr[i].lo)
  BY <1>1
<1>4. ASSUME k < v, TrueIn(A, val, lev, o.lits[k], i), i # n PROVE FALSE
  <2>1. i < n
    BY <1>4
  <2>2. k # m
    BY <1>4, <2>1
  <2>3. k < m
    BY <1>1, <1>4, <2>2
  <2>4. TrueIn(A, val, lev, o.lits[m], i) \/ i = n
    BY <1>4, <2>3 DEF LevelsOk, ClosedIn
  <2> QED BY <2>1, <2>4
<1> QED BY <1>2, <1>3, <1>4

\* A literal assigned on the current level, as the levels see it.
LEMMA AssignedNow ==
    ASSUME Assumptions, IInv, NEW val \in Values, NEW x, Abs(x) \in Atoms, val[Abs(x)] # assign[Abs(x)]
    PROVE  \A i \in 2..Len(trail) : /\ TrueIn(Atoms, val, LevelOf(val), x, i) <=> Truth(val, x) = 1 /\ i = Len(trail)
                                    /\ FalseIn(Atoms, val, LevelOf(val), x, i) <=> Truth(val, x) = -1 /\ i = Len(trail)
<1> SUFFICES ASSUME NEW i \in 2..Len(trail)
             PROVE  /\ TrueIn(Atoms, val, LevelOf(val), x, i) <=> Truth(val, x) = 1 /\ i = Len(trail)
                    /\ FalseIn(Atoms, val, LevelOf(val), x, i) <=> Truth(val, x) = -1 /\ i = Len(trail)
  OBVIOUS
<1>1. LevelOf(val)[Abs(x)] = dl
  BY DEF LevelOf
<1>2. dl < i <=> i = Len(trail)
  BY PhaseFacts
<1> QED BY <1>1, <1>2 DEF TrueIn, FalseIn

\* A literal assigned on the current level is in no level before it.
LEMMA NotBefore ==
    ASSUME Assumptions, IInv, NEW val \in Values, NEW x, OnThisLevel(x)
    PROVE  \A i \in 2..Len(trail) : i < Len(trail) =>
             ~TrueIn(Atoms, val, LevelOf(val), x, i) /\ ~FalseIn(Atoms, val, LevelOf(val), x, i)
<1> SUFFICES ASSUME NEW i \in 2..Len(trail), i < Len(trail), Abs(x) \in Atoms
             PROVE  ~(LevelOf(val)[Abs(x)] < i)
  BY DEF TrueIn, FalseIn
<1>1. LevelOf(val)[Abs(x)] = dl
  BY DEF LevelOf, OnThisLevel
<1>2. ~(dl < i)
  BY PhaseFacts
<1> QED BY <1>1, <1>2

\* The levels after a new literal has been assigned, with it still left out
\* of the map.
LEMMA ReasonGrows ==
    ASSUME Assumptions, IInv, NEW l \in Int, Abs(l) \in Atoms, Abs(l) \notin used
    PROVE  LET val == Assigned(assign, {l}) IN
           /\ val \in Values /\ Truth(val, l) = 1 /\ val[Abs(l)] # assign[Abs(l)] /\ NewLits(val) = {l}
           /\ LevelsOk(Atoms, om, val, LevelOf(val), queue \union NewLits(val), trail)
<1>1. PICK val : val = Assigned(assign, {l})
  OBVIOUS
<1>2. Atoms \subseteq Nat \ {0, 1} /\ assign \in Values /\ Atoms \subseteq Nat
  BY Basics DEF Assignment, Values
<1>3. assign[Abs(l)] = 0 /\ Truth(assign, l) = 0 /\ l \in LiteralsOf(Atoms)
  BY NewAtomFree
<1>4. /\ val \in Values /\ val[Abs(l)] # 0 /\ NewLits(val) = {l}
  BY <1>1, <1>2, <1>3, OneAssigned
<1>5. Truth(val, l) = 1
  <2>1. l \notin FactLits /\ l # 0
    BY <1>2 DEF FactLits, T, Abs
  <2>2. -l # l
    BY <2>1
  <2>3. -l \notin {l}
    BY <2>2
  <2> QED BY <1>1, <1>2, <1>3, <2>1, <2>3, AssignedTrue
<1>6. HasLiterals(om) /\ LevelsOk(Atoms, om, assign, alevel, queue, trail)
  <2>1. OrderAssumption /\ MapOk(om, used, 0)
    BY DEF Assumptions, IInv
  <2>2. HasLiterals(om)
    BY <2>1, MapLiterals
  <2> QED BY <2>2 DEF IInv, LevelsInv
<1>7. NoneFalse(assign, {l})
  BY <1>3 DEF NoneFalse
<1>8. {l} \subseteq LiteralsOf(Atoms)
  BY <1>3
<1>9. LevelsOk(Atoms, om, val, LevelOf(val), queue \union NewLits(val), trail)
  BY <1>1, <1>6, <1>7, <1>8, AssignedGrows
<1> QED BY <1>1, <1>3, <1>4, <1>5, <1>9

\* The neighbour of a value that is assigned on this level is an order
\* literal.
LEMMA NeighbourValue ==
    ASSUME Assumptions, IInv, NEW v \in Int
    PROVE  /\ OnThisLevel(LitSucc(om, v)) =>
                \E m \in DOMAIN om.lits : m > v /\ OnThisLevel(om.lits[m]) /\ \A j \in DOMAIN om.lits : j > v => j >= m
           /\ OnThisLevel(LitPrev(om, v)) =>
                \E m \in DOMAIN om.lits : m < v /\ OnThisLevel(om.lits[m]) /\ \A j \in DOMAIN om.lits : j < v => j <= m
<1>1. PICK o : o = om
  OBVIOUS
<1>2. OrderAssumption /\ DOMAIN o.lits \subseteq Lo..(Hi - 1)
  BY <1>1 DEF Assumptions, IInv, MapOk
<1>3. IsPrev(o.lits, v, LitPrev(o, v)) /\ IsSucc(o.lits, v, LitSucc(o, v))
  BY <1>2, PrevAndSucc
<1>4. ~OnThisLevel(T) /\ ~OnThisLevel(-T)
  <2>1. Abs(1) = 1 /\ Abs(-1) = 1
    <3>1. \A x : x = 1 \/ x = -1 => Abs(x) = 1
      BY ONLY DEF Abs
    <3> QED BY ONLY <3>1
  <2>2. T = 1 /\ -T = -1
    BY DEF T
  <2> QED BY <2>1, <2>2 DEF OnThisLevel
<1> QED BY <1>1, <1>3, <1>4 DEF IsPrev, IsSucc

\* A new literal below the bounds is false, and fits.
LEMMA ReasonBelow ==
    ASSUME Assumptions, IInv, dl > 0, NEW v \in Int, v < Top.lo, OnThisLevel(LitSucc(om, v)),
           NEW lit \in Int, Abs(lit) \in Atoms, Abs(lit) \notin used,
           NEW o, Inserted(om, o, v, lit)
    PROVE  LET val == Assigned(assign, {-lit}) IN
           LevelsOk(Atoms, o, val, LevelOf(val), queue \union NewLits(val), trail)
<1>1. PICK l : l = -lit
  OBVIOUS
<1>2. l \in Int /\ lit = -l /\ Abs(l) = Abs(lit)
  BY <1>1, AbsIs
<1>3. PICK val, q, n, lev : val = Assigned(assign, {l}) /\ q = queue \union NewLits(val) /\ n = Len(trail) /\ lev = LevelOf(val)
  OBVIOUS
<1>4. /\ val \in Values /\ Truth(val, l) = 1 /\ val[Abs(l)] # assign[Abs(l)] /\ l \in q
      /\ LevelsOk(Atoms, om, val, lev, q, trail)
  BY <1>2, <1>3, ReasonGrows
<1>5. Truth(val, lit) = -1
  <2>1. Opposite(lit, l)
    BY <1>2 DEF Opposite
  <2>2. PICK A : A = Atoms
    OBVIOUS
  <2>3. A \subseteq Nat \ {0, 1} /\ A \subseteq Nat /\ val \in [A -> {-1, 0, 1}] /\ Abs(l) \in A
    BY <1>2, <1>4, <2>2, Basics DEF Values
  <2>4. l \in LiteralsOf(A)
    BY <1>2, <2>3, LiteralIs
  <2>5. Truth(val, lit) = -1 <=> Truth(val, l) = 1
    BY ONLY <2>1, <2>3, <2>4, OppositeTruth
  <2> QED BY <1>4, <2>5
<1>6. \A i \in 2..n : ~TrueIn(Atoms, val, lev, lit, i) /\ (FalseIn(Atoms, val, lev, lit, i) <=> i = n)
  <2>1. Abs(lit) \in Atoms /\ val[Abs(lit)] # assign[Abs(lit)]
    BY <1>2, <1>4
  <2>2. Truth(val, lit) # 1
    BY <1>5
  <2> QED BY <1>3, <1>4, <1>5, <2>1, <2>2, AssignedNow
<1>7. PICK m \in DOMAIN om.lits : m > v /\ OnThisLevel(om.lits[m]) /\ \A j \in DOMAIN om.lits : j > v => j >= m
  BY NeighbourValue
<1>8. \A i \in 2..n : i < n => ~FalseIn(Atoms, val, lev, om.lits[m], i)
  BY <1>3, <1>4, <1>7, NotBefore
<1>9. n \in Nat /\ \A i \in 2..n : trail[i].up \in Int /\ v < trail[i].up
  <2>1. n \in Nat /\ Top.lo \in Int /\ Top.up \in Int /\ Top.lo <= Top.up
    BY <1>3, Basics
  <2>2. ASSUME NEW i \in 2..n PROVE trail[i].up \in Int /\ v < trail[i].up
    <3>1. i \in 1..Len(trail)
      BY <1>3, <2>1
    <3>2. trail[i].up \in Int /\ Top.up <= trail[i].up
      BY <3>1, BoundsNested
    <3> QED BY <2>1, <3>2
  <2> QED BY <2>1, <2>2
<1>10. HasLiterals(om)
  <2>1. OrderAssumption /\ MapOk(om, used, 0)
    BY DEF Assumptions, IInv
  <2> QED BY <2>1, MapLiterals
<1>11. -lit \in q
  BY <1>1, <1>4
<1>12. Fitting(Atoms, om, val, lev, q, trail, v, lit)
  BY <1>3, <1>4, <1>6, <1>7, <1>8, <1>9, <1>10, <1>11, FalseFits
<1>13. LevelsOk(Atoms, o, val, lev, q, trail)
  BY <1>3, <1>4, <1>9, <1>10, <1>12, LevelsInsert
<1> QED BY <1>1, <1>3, <1>13

\* A new literal above the bounds is true, and fits.
LEMMA ReasonAbove ==
    ASSUME Assumptions, IInv, dl > 0, NEW v \in Int, v >= Top.up, OnThisLevel(LitPrev(om, v)),
           NEW lit \in Int, Abs(lit) \in Atoms, Abs(lit) \notin used,
           NEW o, Inserted(om, o, v, lit)
    PROVE  LET val == Assigned(assign, {lit}) IN
           LevelsOk(Atoms, o, val, LevelOf(val), queue \union NewLits(val), trail)
<1>3. PICK val, q, n, lev : val = Assigned(assign, {lit}) /\ q = queue \union NewLits(val) /\ n = Len(trail) /\ lev = LevelOf(val)
  OBVIOUS
<1>4. /\ val \in Values /\ Truth(val, lit) = 1 /\ val[Abs(lit)] # assign[Abs(lit)] /\ lit \in q
      /\ LevelsOk(Atoms, om, val, lev, q, trail)
  BY <1>3, ReasonGrows
<1>6. \A i \in 2..n : ~FalseIn(Atoms, val, lev, lit, i) /\ (TrueIn(Atoms, val, lev, lit, i) <=> i = n)
  <2>2. Truth(val, lit) # -1
    BY <1>4
  <2> QED BY <1>3, <1>4, <2>2, AssignedNow
<1>7. PICK m \in DOMAIN om.lits : m < v /\ OnThisLevel(om.lits[m]) /\ \A j \in DOMAIN om.lits : j < v => j <= m
  BY NeighbourValue
<1>8. \A i \in 2..n : i < n => ~TrueIn(Atoms, val, lev, om.lits[m], i)
  BY <1>3, <1>4, <1>7, NotBefore
<1>9. n \in Nat /\ \A i \in 2..n : trail[i].lo \in Int /\ trail[i].lo <= v
  <2>1. n \in Nat /\ Top.lo \in Int /\ Top.up \in Int /\ Top.lo <= Top.up
    BY <1>3, Basics
  <2>2. ASSUME NEW i \in 2..n PROVE trail[i].lo \in Int /\ trail[i].lo <= v
    <3>1. i \in 1..Len(trail)
      BY <1>3, <2>1
    <3>2. trail[i].lo \in Int /\ trail[i].lo <= Top.lo
      BY <3>1, BoundsNested
    <3> QED BY <2>1, <3>2
  <2> QED BY <2>1, <2>2
<1>10. HasLiterals(om)
  <2>1. OrderAssumption /\ MapOk(om, used, 0)
    BY DEF Assumptions, IInv
  <2> QED BY <2>1, MapLiterals
<1>12. Fitting(Atoms, om, val, lev, q, trail, v, lit)
  BY <1>3, <1>4, <1>6, <1>7, <1>8, <1>9, <1>10, TrueFits
<1>13. LevelsOk(Atoms, o, val, lev, q, trail)
  BY <1>3, <1>4, <1>9, <1>10, <1>12, LevelsInsert
<1> QED BY <1>3, <1>13

\* calculate_reason_ adds an implied literal for a weaker bound.
LEMMA IntroduceReasonKeeps ==
    ASSUME Assumptions, IInv, IntroduceReason, UNCHANGED program
    PROVE  IInv'
<1>1. PICK v \in (MinBound..(MaxBound - 1)) \ DOMAIN om.lits :
        LET s == GetLiteral(Builder, v)
            l == IF v < Top.lo THEN -LitOf(s, v) ELSE LitOf(s, v) IN
         /\ \/ v < Top.lo /\ OnThisLevel(LitSucc(om, v))
            \/ v >= Top.up /\ OnThisLevel(LitPrev(om, v))
         /\ Become(Imply([State EXCEPT !.om = s.om], {l}), queue, pc)
         /\ used' = s.used
  BY DEF IntroduceReason
<1>2. pc = "check" /\ dl > 0 /\ EnoughAtoms(1) /\ UNCHANGED static
  BY DEF IntroduceReason
<1>3. v \in Int /\ ~OutOfBounds(v) /\ v \notin DOMAIN om.lits
  BY Basics DEF OutOfBounds
<1>4. PICK n \in Nat : n + 1 <= program.atoms /\ GoodBuilder(Builder, n)
  BY <1>2, BuilderOk
<1>5. PICK s : s = GetLiteral(Builder, v)
  OBVIOUS
<1>6. PICK lit : lit = LitOf(s, v)
  OBVIOUS
<1>7. /\ GoodBuilder(s, n + 1) /\ s.om.factmap = om.factmap /\ lit \in LiteralsOf(s.used)
      /\ Inserted(om, s.om, v, lit)
      /\ lit \in Int /\ Abs(lit) \in Atoms /\ Abs(lit) \notin used
  BY <1>3, <1>4, <1>5, <1>6, GetLiteralInserts
<1>8. PICK l, ls : l = (IF v < Top.lo THEN -lit ELSE lit) /\ ls = {l}
  OBVIOUS
<1>9. Become(Imply(SetOm(State, s.om), ls), queue, pc) /\ used' = s.used
  BY <1>1, <1>5, <1>6, <1>8 DEF SetOm
<1>10. ls \subseteq LiteralsOf(s.used)
  <2>1. s.used \subseteq Nat \ {0, 1}
    BY <1>7, BuilderFacts
  <2>2. -lit \in LiteralsOf(s.used)
    BY <1>7, <2>1, NegatedLiteral
  <2> QED BY <1>7, <1>8, <2>2
<1>11. LET val == Assigned(assign, ls) IN
       LevelsOk(Atoms, s.om, val, LevelOf(val), queue \union NewLits(val), trail)
  <2>1. CASE v < Top.lo
    <3>1. OnThisLevel(LitSucc(om, v)) /\ ls = {-lit}
      <4>1. ~(v >= Top.up)
        BY <1>3, <2>1, Basics
      <4> QED BY <1>1, <1>8, <2>1, <4>1
    <3> QED BY <1>2, <1>3, <1>7, <2>1, <3>1, ReasonBelow
  <2>2. CASE ~(v < Top.lo)
    <3>1. OnThisLevel(LitPrev(om, v)) /\ v >= Top.up /\ ls = {lit}
      BY <1>1, <1>8, <2>2
    <3> QED BY <1>2, <1>3, <1>7, <3>1, ReasonAbove
  <2> QED BY <2>1, <2>2
<1>12. s.om.factmap # <<>> => dl = 0
  BY <1>7, PhaseFacts
<1> QED BY <1>2, <1>7, <1>9, <1>10, <1>11, <1>12, ImpliedKeeps

\* At a fixpoint no literal contradicts a bound, and on level 0 all are free.
LEMMA NoneOpposed ==
    ASSUME Assumptions, IInv, pc = "fixpoint", NEW k \in DOMAIN om.lits
    PROVE  /\ Top.lo <= k => Truth(assign, om.lits[k]) # -1
           /\ k < Top.up => Truth(assign, om.lits[k]) # 1
           /\ Truth(assign, om.lits[k]) \in {-1, 0, 1}
           /\ dl = 0 => Truth(assign, om.lits[k]) = 0
<1>1. om.factmap = <<>> /\ queue = {}
  BY DEF IInv, PhaseInv
<1>2. PICK x : x = om.lits[k]
  OBVIOUS
<1>3. k \in Int /\ x \in Int /\ x \in LiteralsOf(Atoms) /\ Abs(x) \in DOMAIN om.litmap /\ Abs(x) \in Atoms
  BY <1>1, <1>2, OwnAtoms
<1>4. Atoms \subseteq Nat \ {0, 1} /\ assign \in [Atoms -> {-1, 0, 1}] /\ alevel \in [Atoms -> Nat]
      /\ Len(trail) \in Nat /\ Top.lo \in Int /\ Top.up \in Int /\ dl = Len(trail) - 1 /\ dl \in Nat
  BY Basics DEF Assignment
<1>5. Truth(assign, x) = 0 <=> assign[Abs(x)] = 0
  <2>1. PICK A, val : A = Atoms /\ val = assign
    OBVIOUS
  <2>2. A \subseteq Nat \ {0, 1} /\ val \in [A -> {-1, 0, 1}] /\ x \in LiteralsOf(A) /\ Abs(x) \in A
    BY <1>3, <1>4, <2>1
  <2>3. Truth(val, x) = 0 <=> val[Abs(x)] = 0
    BY ONLY <2>2, TruthZero
  <2> QED BY <2>1, <2>3
<1>6. alevel[Abs(x)] \in 0..dl
  BY <1>3 DEF IInv, AssignInv
<1>9. Truth(assign, x) \in {-1, 0, 1}
  BY <1>3, <1>4, TruthIs
<1>7. CASE dl = 0
  <2>1. alevel[Abs(x)] = 0
    BY <1>6, <1>7
  <2>2. assign[Abs(x)] = 0
    BY <1>1, <1>3, <2>1 DEF IInv, TopInv
  <2> QED BY <1>2, <1>5, <1>9, <2>2
<1>8. CASE dl # 0
  <2>1. PICK i : i = Len(trail)
    OBVIOUS
  <2>2. i \in 2..Len(trail) /\ alevel[Abs(x)] < i
    BY <1>4, <1>6, <1>8, <2>1
  <2>3. /\ FalseIn(Atoms, assign, alevel, x, i) => k < Top.lo
        /\ TrueIn(Atoms, assign, alevel, x, i) => Top.up <= k
    BY <1>1, <1>2, <2>1, <2>2 DEF IInv, LevelsInv, LevelsOk, LevelsIn, Top
  <2>4. (Top.lo <= k => ~(k < Top.lo)) /\ (k < Top.up => ~(Top.up <= k))
    BY <1>3, <1>4
  <2>5. (Top.lo <= k => Truth(assign, x) # -1) /\ (k < Top.up => Truth(assign, x) # 1)
    BY <1>3, <2>2, <2>3, <2>4 DEF TrueIn, FalseIn
  <2> QED BY <1>2, <1>8, <1>9, <2>5
<1> QED BY <1>7, <1>8

\* The bounds of the levels are nested, see TrailInv.
Nested(tr) ==
    /\ tr \in Seq(Bounds) /\ Len(tr) > 0
    /\ \A i \in 1..Len(tr) : tr[i].lo <= tr[i].up
    /\ \A i, j \in 1..Len(tr) : i <= j => tr[i].lo <= tr[j].lo /\ tr[j].up <= tr[i].up
    /\ Lo <= tr[1].lo /\ tr[1].up <= Hi

\* The assignment val with the levels lev is one AssignInv allows.
Sound(U, val, lev, q, n) ==
    /\ val \in [Atoms -> {-1, 0, 1}] /\ lev \in [Atoms -> 0..n]
    /\ \A a \in Atoms : /\ val[a] # 0 => a \in U
                        /\ val[a] = 0 => lev[a] = 0
    /\ q \subseteq Literals /\ \A l \in q : Truth(val, l) = 1

\* The invariant after a step, from what the variables become.
LEMMA StepKeeps ==
    ASSUME Assumptions, IInv, UNCHANGED <<program, static, units>>,
           NEW o, om' = o, NEW U, used' = U, NEW val, assign' = val, NEW lev, alevel' = lev,
           NEW q, queue' = q, NEW tr, trail' = tr, NEW n \in Nat, n = Len(tr) - 1, Nested(tr),
           MapOk(o, U, 0), Sound(U, val, lev, q, n),
           Clits \subseteq U, static \subseteq U, U \subseteq Atoms, units \subseteq LiteralsOf(U),
           pc' \in Building \union Searching, pc' # "fixpoint",
           n > 0 => pc' \in Searching, pc' \in Searching => pc \in Searching,
           o.factmap # <<>> => n = 0,
           \A a \in DOMAIN o.litmap : val[a] # 0 /\ lev[a] = 0 => n = 0 /\ val[a] * a \in q,
           n > 0 => LevelsOk(Atoms, o, val, lev, q, tr)
    PROVE  IInv'
<1>1. Atoms' = Atoms /\ Literals' = Literals /\ Clits' = Clits /\ dl' = n
  BY DEF Literals, LiteralsOf, Atoms, Clits, dl
<1>2. PhaseInv'
  <2>1. program \in Programs /\ (pc \in Searching => Clits \subseteq static /\ units = {})
    BY DEF IInv, PhaseInv
  <2>2. LiteralsOf(used)' = LiteralsOf(U)
    BY DEF LiteralsOf
  <2>3. program' \in Programs /\ Clits' \subseteq used' /\ static' \subseteq used' /\ used' \subseteq Atoms'
    BY <1>1, <2>1
  <2>4. pc' \in Searching => Clits' \subseteq static' /\ units' = {}
    BY <1>1, <2>1
  <2>5. units' \subseteq LiteralsOf(used)'
    BY <2>2
  <2>6. (om'.factmap # <<>> => dl' = 0) /\ (dl' > 0 => pc' \in Searching)
    BY <1>1
  <2> QED BY <2>3, <2>4, <2>5, <2>6 DEF PhaseInv, Building, Searching
<1>3. AssignInv'
  <2>1. assign' \in [Atoms' -> {-1, 0, 1}] /\ alevel' \in [Atoms' -> 0..dl']
    BY <1>1 DEF Sound
  <2>2. \A a \in Atoms' : /\ assign'[a] # 0 => a \in used'
                          /\ assign'[a] = 0 => alevel'[a] = 0
    BY <1>1 DEF Sound
  <2>3. queue' \subseteq Literals' /\ \A l \in queue' : Truth(assign', l) = 1
    BY <1>1 DEF Sound
  <2>4. \A l : IsTrue(l)' <=> Truth(assign', l) = 1
    BY DEF IsTrue, Truth, T
  <2> QED BY <2>1, <2>2, <2>3, <2>4 DEF AssignInv
<1>4. TrailInv'
  BY DEF Nested, TrailInv, MinBound, MaxBound
<1>5. MapOk(om, used, 0)'
  BY MapPrimed
<1>6. TopInv'
  <2>1. om' = o /\ assign' = val /\ alevel' = lev /\ queue' = q
    OBVIOUS
  <2>2. \A a \in DOMAIN o.litmap : val[a] # 0 /\ lev[a] = 0 => n = 0 /\ val[a] * a \in q
    OBVIOUS
  <2> QED BY ONLY <1>1, <2>1, <2>2 DEF TopInv
<1>7. LevelsInv'
  <2>1. LevelsOk(Atoms, o, val, lev, q, tr)
    <3>1. CASE n > 0
      BY <3>1
    <3>2. CASE ~(n > 0)
      <4>1. Len(tr) \in Nat
        BY DEF Nested
      <4>0. \A x \in Nat : ~(x > 0) => x = 0
        OBVIOUS
      <4>3. n = 0
        BY ONLY n \in Nat, <3>2, <4>0
      <4>2. Len(tr) = 1
        BY <4>1, <4>3
      <4> QED BY <4>2, LevelsTrivial
    <3> QED BY <3>1, <3>2
  <2>2. LevelsOk(Atoms', om', assign', alevel', queue', trail')
    BY <1>1, <2>1
  <2> QED BY ONLY <2>2, Zenon DEF LevelsInv, LevelsOk, BoundsIn, LevelsIn, ClosedIn, TrueIn, FalseIn, Truth, Abs, T
<1> QED BY <1>2, <1>3, <1>4, <1>5, <1>6, <1>7 DEF IInv

\* Pushing the current bounds again, and popping them.
LEMMA NestedPushPop ==
    ASSUME OrderAssumption, NEW tr, Nested(tr), NEW n \in Nat, n = Len(tr)
    PROVE  /\ Nested(Append(tr, tr[n])) /\ Len(Append(tr, tr[n])) = n + 1
           /\ n > 1 => Nested(SubSeq(tr, 1, n - 1)) /\ Len(SubSeq(tr, 1, n - 1)) = n - 1
<1>1. /\ tr \in Seq(Bounds) /\ n > 0 /\ n \in 1..n /\ tr[n] \in Bounds
      /\ \A i \in 1..n : tr[i].lo <= tr[i].up
      /\ \A i, j \in 1..n : i <= j => tr[i].lo <= tr[j].lo /\ tr[j].up <= tr[i].up
      /\ Lo <= tr[1].lo /\ tr[1].up <= Hi
  BY DEF Nested
<1>2. PICK t, m : t = Append(tr, tr[n]) /\ m = n + 1
  OBVIOUS
<1>3. /\ t \in Seq(Bounds) /\ Len(t) = m /\ m \in Nat /\ m > 0
      /\ \A i \in 1..n : t[i] = tr[i]
      /\ t[m] = tr[n]
  BY <1>1, <1>2
<1>4. \A i \in 1..m : i \in 1..n \/ i = m
  BY <1>2
<1>5. Nested(t)
  <2>1. \A i \in 1..m : t[i].lo <= t[i].up
    BY <1>1, <1>3, <1>4
  <2>2. ASSUME NEW i \in 1..m, NEW j \in 1..m, i <= j
        PROVE  t[i].lo <= t[j].lo /\ t[j].up <= t[i].up
    <3>1. CASE i \in 1..n /\ j \in 1..n
      BY <1>1, <1>3, <2>2, <3>1
    <3>2. CASE i \in 1..n /\ j = m
      <4>1. i <= n
        BY <3>2
      <4> QED BY <1>1, <1>3, <3>2, <4>1
    <3>3. CASE i = m
      <4>1. j = m
        BY <2>2, <3>3
      <4>2. t[m].lo \in Int /\ t[m].up \in Int
        BY <1>1, <1>3 DEF Bounds
      <4> QED BY <3>3, <4>1, <4>2
    <3> QED BY <1>4, <3>1, <3>2, <3>3
  <2>3. Lo <= t[1].lo /\ t[1].up <= Hi
    BY <1>1, <1>3
  <2> QED BY <1>3, <2>1, <2>2, <2>3 DEF Nested
<1>6. ASSUME n > 1 PROVE Nested(SubSeq(tr, 1, n - 1)) /\ Len(SubSeq(tr, 1, n - 1)) = n - 1
  <2>1. PICK u, k : u = SubSeq(tr, 1, n - 1) /\ k = n - 1
    OBVIOUS
  <2>2. u \in Seq(Bounds) /\ Len(u) = k /\ k \in Nat /\ k > 0 /\ \A i \in 1..k : u[i] = tr[i] /\ i \in 1..n
    BY <1>1, <1>6, <2>1
  <2>3. 1 \in 1..k
    BY <2>2
  <2>4. /\ \A i \in 1..k : u[i].lo <= u[i].up
        /\ \A i, j \in 1..k : i <= j => u[i].lo <= u[j].lo /\ u[j].up <= u[i].up
        /\ Lo <= u[1].lo /\ u[1].up <= Hi
    BY <1>1, <2>2, <2>3
  <2> QED BY <2>1, <2>2, <2>4 DEF Nested
<1> QED BY <1>2, <1>3, <1>5, <1>6

\* The trail of a state of the invariant.
LEMMA TrailNested ==
    ASSUME Assumptions, IInv
    PROVE  /\ Nested(trail) /\ OrderAssumption /\ MapOk(om, used, 0) /\ HasLiterals(om)
           /\ Assignment(Atoms, assign, alevel) /\ alevel \in [Atoms -> 0..dl] /\ Len(trail) \in Nat
           /\ Clits \subseteq used /\ static \subseteq used /\ used \subseteq Atoms /\ units \subseteq LiteralsOf(used)
           /\ Top = trail[Len(trail)]
<1>1. Nested(trail) /\ OrderAssumption /\ MapOk(om, used, 0)
  BY DEF IInv, TrailInv, MinBound, MaxBound, Nested, Assumptions
<1>2. HasLiterals(om)
  BY <1>1, MapLiterals
<1>3. Assignment(Atoms, assign, alevel) /\ Len(trail) \in Nat
  BY Basics
<1> QED BY <1>1, <1>2, <1>3 DEF IInv, AssignInv, PhaseInv, Top

\* Backtracking one level.
LEMMA UndoKeeps ==
    ASSUME Assumptions, IInv, Undo, UNCHANGED program
    PROVE  IInv'
<1>1. /\ pc \in {"propagate", "fixpoint", "conflict"} /\ dl > 0 /\ pc' = "propagate"
      /\ UNCHANGED <<om, used, static, units>> /\ queue' = {}
      /\ trail' = SubSeq(trail, 1, Len(trail) - 1)
      /\ assign' = [a \in Atoms |-> IF assign[a] # 0 /\ alevel[a] = dl THEN 0 ELSE assign[a]]
      /\ alevel' = [a \in Atoms |-> IF alevel[a] = dl THEN 0 ELSE alevel[a]]
  BY DEF Undo
<1>2. PICK val, lev, tr, n, k : /\ val = [a \in Atoms |-> IF assign[a] # 0 /\ alevel[a] = dl THEN 0 ELSE assign[a]]
                                /\ lev = [a \in Atoms |-> IF alevel[a] = dl THEN 0 ELSE alevel[a]]
                                /\ tr = trail /\ n = Len(trail) /\ k = dl
  OBVIOUS
<1>3. /\ n \in Nat /\ k \in Nat /\ k > 0 /\ k = n - 1 /\ n >= 2 /\ n > 1
  BY <1>1, <1>2, PhaseFacts
<1>4. PICK old, olev : old = assign /\ olev = alevel
  OBVIOUS
<1>5. /\ old \in [Atoms -> {-1, 0, 1}] /\ olev \in [Atoms -> 0..k]
      /\ \A a \in Atoms : /\ old[a] # 0 => a \in used
                          /\ old[a] = 0 => olev[a] = 0
  BY <1>2, <1>4 DEF IInv, AssignInv
<1>6. \A a \in Atoms : /\ val[a] = IF old[a] # 0 /\ olev[a] = k THEN 0 ELSE old[a]
                       /\ lev[a] = IF olev[a] = k THEN 0 ELSE olev[a]
  BY <1>2, <1>4
<1>7. val \in [Atoms -> {-1, 0, 1}] /\ lev \in [Atoms -> 0..(k - 1)]
  <2>1. ASSUME NEW a \in Atoms PROVE lev[a] \in 0..(k - 1)
    BY <1>3, <1>5, <1>6
  <2>2. ASSUME NEW a \in Atoms PROVE val[a] \in {-1, 0, 1}
    BY <1>5, <1>6
  <2>3. val = [a \in Atoms |-> val[a]] /\ lev = [a \in Atoms |-> lev[a]]
    BY <1>2
  <2> QED BY <2>1, <2>2, <2>3
<1>8. Sound(used, val, lev, {}, k - 1)
  <2>1. ASSUME NEW a \in Atoms PROVE (val[a] # 0 => a \in used) /\ (val[a] = 0 => lev[a] = 0)
    BY <1>5, <1>6
  <2> QED BY <1>7, <2>1 DEF Sound
<1>9. PICK u : u = SubSeq(tr, 1, n - 1)
  OBVIOUS
<1>10. Nested(tr) /\ Nested(u) /\ Len(u) = n - 1
  BY <1>2, <1>3, <1>9, TrailNested, NestedPushPop
<1>11. LevelsOk(Atoms, om, val, lev, {}, u)
  <2>1. LevelsOk(Atoms, om, old, olev, queue, tr)
    BY <1>2, <1>4 DEF IInv, LevelsInv
  <2>2. Assignment(Atoms, old, olev) /\ HasLiterals(om)
    BY <1>4, TrailNested
  <2>3. tr \in Seq(Bounds) /\ Len(tr) >= 2 /\ Len(tr) = n
    BY <1>2, <1>3, <1>10 DEF Nested
  <2>4. \A a \in Atoms : IF olev[a] = Len(tr) - 1 THEN val[a] = 0 ELSE val[a] = old[a] /\ lev[a] = olev[a]
    BY <1>3, <1>5, <1>6, <2>3
  <2>5. LevelsOk(Atoms, om, val, lev, {}, SubSeq(tr, 1, Len(tr) - 1))
    BY <2>1, <2>2, <2>3, <2>4, LevelsPop
  <2> QED BY <1>9, <2>3, <2>5
<1>12. pc' \in Searching /\ pc \in Searching /\ pc' # "fixpoint" /\ pc' \in Building \union Searching
  BY <1>1 DEF Searching
<1>13. om.factmap = <<>>
  <2>1. dl # 0
    BY <1>1
  <2> QED BY <2>1, PhaseFacts
<1>14. ASSUME NEW a \in DOMAIN om.litmap, val[a] # 0, lev[a] = 0 PROVE FALSE
  <2>1. a \in Atoms
    BY TrailNested DEF MapOk
  <2>2. old[a] # 0 /\ olev[a] = 0
    BY <1>3, <1>6, <1>14, <2>1
  <2>3. k = 0
    BY <1>2, <1>4, <2>2 DEF IInv, TopInv
  <2> QED BY <1>3, <2>3
<1>15. MapOk(om, used, 0) /\ Clits \subseteq used /\ static \subseteq used /\ used \subseteq Atoms /\ units \subseteq LiteralsOf(used)
  BY TrailNested
<1>16. PICK o, U, m : o = om /\ U = used /\ m = k - 1
  OBVIOUS
<1>17. om' = o /\ used' = U /\ assign' = val /\ alevel' = lev /\ queue' = {} /\ trail' = u
  BY <1>1, <1>2, <1>9, <1>16
<1>18. m \in Nat /\ m = Len(u) - 1
  BY <1>3, <1>10, <1>16
<1>19. \A a \in DOMAIN o.litmap : val[a] # 0 /\ lev[a] = 0 => m = 0 /\ val[a] * a \in {}
  BY <1>14, <1>16
<1>20. /\ MapOk(o, U, 0) /\ Sound(U, val, lev, {}, m) /\ LevelsOk(Atoms, o, val, lev, {}, u) /\ o.factmap = <<>>
       /\ Clits \subseteq U /\ static \subseteq U /\ U \subseteq Atoms /\ units \subseteq LiteralsOf(U)
  BY <1>8, <1>11, <1>13, <1>15, <1>16
<1> QED BY <1>1, <1>10, <1>12, <1>17, <1>18, <1>19, <1>20, StepKeeps

\* The literals decide can choose: of an atom of clasp, and not false.
Choosable(l) == l \in LiteralsOf(used) /\ l \in Int /\ Abs(l) \in Atoms /\ Truth(assign, l) \in {0, 1}

\* clasp's own choice is free.
LEMMA FallbackIs ==
    ASSUME Assumptions, IInv, NEW f \in Fallbacks
    PROVE  Choosable(f) /\ Truth(assign, f) = 0
<1>1. PICK sign \in {1, -1}, a \in {b \in used : assign[b] = 0} : f = sign * a
  BY DEF Fallbacks
<1>2. Atoms \subseteq Nat \ {0, 1} /\ assign \in [Atoms -> {-1, 0, 1}] /\ used \subseteq Atoms /\ used \subseteq Nat
  BY Basics DEF Assignment
<1>3. a \in Atoms /\ a \in Nat /\ a # 0 /\ a \in used /\ assign[a] = 0
  BY <1>1, <1>2
<1>4. f \in Int /\ Abs(f) = a
  BY <1>1, <1>3, EnteredAtom
<1>5. f \in LiteralsOf(used) /\ f \in LiteralsOf(Atoms)
  <2>1. Atoms \subseteq Nat
    BY <1>2
  <2> QED BY <1>2, <1>3, <1>4, <2>1, LiteralIs
<1>6. Truth(assign, f) = 0
  <2>1. PICK A, val : A = Atoms /\ val = assign
    OBVIOUS
  <2>2. A \subseteq Nat \ {0, 1} /\ val \in [A -> {-1, 0, 1}] /\ f \in LiteralsOf(A) /\ Abs(f) \in A
    BY <1>2, <1>3, <1>4, <1>5, <2>1
  <2>3. Truth(val, f) = 0 <=> val[Abs(f)] = 0
    BY ONLY <2>2, TruthZero
  <2> QED BY <1>3, <1>4, <2>1, <2>3
<1> QED BY <1>3, <1>4, <1>5, <1>6 DEF Choosable

\* The least value from a bound upwards, the greatest below one.
LEMMA NextValues ==
    ASSUME Assumptions, IInv, NEW v \in Int
    PROVE  /\ LET from == {k \in DOMAIN om.lits : k >= v} IN
              from # {} => Min(from) \in from /\ \A k \in from : Min(from) <= k
           /\ LET below == {k \in DOMAIN om.lits : k < v} IN
              below # {} => Max(below) \in below /\ \A k \in below : k <= Max(below)
<1>1. PICK D : D = DOMAIN om.lits
  OBVIOUS
<1>2. D \subseteq Lo..(Hi - 1) /\ Lo \in Int /\ Hi - 1 \in Int
  BY <1>1, Basics DEF IInv, MapOk
<1>3. PICK from, below : from = {k \in D : k >= v} /\ below = {k \in D : k < v}
  OBVIOUS
<1>4. from \subseteq Lo..(Hi - 1) /\ below \subseteq Lo..(Hi - 1)
  BY <1>2, <1>3
<1>5. from # {} => Min(from) \in from /\ \A k \in from : Min(from) <= k
  BY <1>2, <1>4, LeastAndGreatest
<1>6. below # {} => Max(below) \in below /\ \A k \in below : k <= Max(below)
  BY <1>2, <1>4, LeastAndGreatest
<1> QED BY <1>1, <1>3, <1>5, <1>6

\* What the heuristic finds is the literal of a value.
LEMMA DecisionIs ==
    ASSUME Assumptions, IInv, NEW f
    PROVE  \/ Decision(f) = f
           \/ /\ Decision(f) = 0
              /\ \/ MaxChain /\ Valid(om, f) /\ \A j \in DOMAIN om.lits : ~(j >= Top.lo)
                 \/ MaxChain /\ Valid(om, -f) /\ \A j \in DOMAIN om.lits : ~(j < Top.up)
           \/ /\ MaxChain /\ Valid(om, f)
              /\ \E k \in DOMAIN om.lits : Decision(f) = om.lits[k] /\ k >= Top.lo
                                           /\ \A j \in DOMAIN om.lits : j >= Top.lo => k <= j
           \/ /\ MaxChain /\ Valid(om, -f)
              /\ \E k \in DOMAIN om.lits : Decision(f) = -om.lits[k] /\ k < Top.up
                                           /\ \A j \in DOMAIN om.lits : j < Top.up => j <= k
<1>1. PICK lo, up : lo = Top.lo /\ up = Top.up /\ lo \in Int /\ up \in Int
  BY Basics
<1>2. CASE MaxChain /\ Valid(om, f)
  <2>1. Decision(f) = LitGe(lo)
    BY <1>1, <1>2 DEF Decision
  <2>2. PICK from : from = {k \in DOMAIN om.lits : k >= lo}
    OBVIOUS
  <2>3. LitGe(lo) = IF from = {} THEN 0 ELSE om.lits[Min(from)]
    BY <2>2 DEF LitGe
  <2>4. from # {} => Min(from) \in from /\ \A k \in from : Min(from) <= k
    BY <1>1, <2>2, NextValues
  <2>5. CASE from = {}
    BY <1>1, <1>2, <2>1, <2>2, <2>3, <2>5
  <2>6. CASE from # {}
    <3>1. PICK k : k = Min(from)
      OBVIOUS
    <3>2. k \in DOMAIN om.lits /\ k >= lo /\ \A j \in DOMAIN om.lits : j >= lo => k <= j
      BY <2>2, <2>4, <2>6, <3>1
    <3>3. Decision(f) = om.lits[k]
      BY <2>1, <2>3, <2>6, <3>1
    <3> QED BY <1>1, <1>2, <3>2, <3>3
  <2> QED BY <2>5, <2>6
<1>3. CASE ~(MaxChain /\ Valid(om, f)) /\ MaxChain /\ Valid(om, -f)
  <2>1. Decision(f) = -LitLt(up)
    BY <1>1, <1>3 DEF Decision
  <2>2. PICK below : below = {k \in DOMAIN om.lits : k < up}
    OBVIOUS
  <2>3. LitLt(up) = IF below = {} THEN 0 ELSE om.lits[Max(below)]
    BY <2>2 DEF LitLt
  <2>4. below # {} => Max(below) \in below /\ \A k \in below : k <= Max(below)
    BY <1>1, <2>2, NextValues
  <2>5. CASE below = {}
    <3>1. LitLt(up) = 0
      BY <2>3, <2>5
    <3>3. \A x : x = 0 => -x = 0
      BY NegatedTruth
    <3>2. Decision(f) = 0
      BY <2>1, <3>1, <3>3
    <3> QED BY <1>1, <1>3, <2>2, <2>5, <3>2
  <2>6. CASE below # {}
    <3>1. PICK k : k = Max(below)
      OBVIOUS
    <3>2. k \in DOMAIN om.lits /\ k < up /\ \A j \in DOMAIN om.lits : j < up => j <= k
      BY <2>2, <2>4, <2>6, <3>1
    <3>3. Decision(f) = -om.lits[k]
      BY <2>1, <2>3, <2>6, <3>1
    <3> QED BY <1>1, <1>3, <3>2, <3>3
  <2> QED BY <2>5, <2>6
<1>4. CASE ~(MaxChain /\ Valid(om, f)) /\ ~(MaxChain /\ Valid(om, -f))
  BY <1>4 DEF Decision
<1> QED BY <1>2, <1>3, <1>4

\* decide never assigns against the assignment.
LEMMA DecisionChoosable ==
    ASSUME Assumptions, IInv, pc = "fixpoint", NEW f \in Fallbacks
    PROVE  Choosable(IF Decision(f) = 0 THEN f ELSE Decision(f))
<1>1. PICK l : l = Decision(f)
  OBVIOUS
<1>2. Choosable(f)
  BY FallbackIs
<1>3. om.factmap = <<>>
  BY DEF IInv, PhaseInv
<1>4. ASSUME NEW k \in DOMAIN om.lits, l = om.lits[k], k >= Top.lo PROVE Choosable(l)
  <2>1. l \in LiteralsOf(used) /\ l \in Int /\ Abs(l) \in Atoms /\ k \in Int
    BY <1>3, <1>4, OwnAtoms
  <2>2. Top.lo <= k
    BY <1>4, <2>1, Basics
  <2>3. Truth(assign, l) # -1 /\ Truth(assign, l) \in {-1, 0, 1}
    BY <1>4, <2>2, NoneOpposed
  <2> QED BY <2>1, <2>3 DEF Choosable
<1>5. ASSUME NEW k \in DOMAIN om.lits, l = -om.lits[k], k < Top.up PROVE Choosable(l)
  <2>1. PICK x : x = om.lits[k]
    OBVIOUS
  <2>2. x \in LiteralsOf(used) /\ x \in LiteralsOf(Atoms) /\ x \in Int /\ Abs(x) \in Atoms
    BY <1>3, <2>1, OwnAtoms
  <2>3. Truth(assign, x) # 1 /\ Truth(assign, x) \in {-1, 0, 1}
    BY <1>5, <2>1, NoneOpposed
  <2>4. Atoms \subseteq Nat \ {0, 1} /\ assign \in [Atoms -> {-1, 0, 1}] /\ used \subseteq Nat \ {0, 1}
    BY Basics DEF Assignment
  <2>5. l = -x /\ l \in Int /\ Abs(l) = Abs(x)
    BY <1>5, <2>1, <2>2, AbsIs
  <2>6. l \in LiteralsOf(used) /\ l \in LiteralsOf(Atoms)
    BY <2>2, <2>4, <2>5, NegatedLiteral
  <2>7. Truth(assign, l) \in {-1, 0, 1}
    BY <2>4, <2>6, TruthIs
  <2>8. Truth(assign, l) # -1
    <3>1. Opposite(l, x)
      BY <2>5 DEF Opposite
    <3>2. PICK A, val : A = Atoms /\ val = assign
      OBVIOUS
    <3>3. A \subseteq Nat \ {0, 1} /\ val \in [A -> {-1, 0, 1}] /\ x \in LiteralsOf(A)
      BY <2>2, <2>4, <3>2
    <3>4. Truth(val, l) = -1 <=> Truth(val, x) = 1
      BY ONLY <3>1, <3>3, OppositeTruth
    <3> QED BY <2>3, <3>2, <3>4
  <2> QED BY <2>2, <2>5, <2>6, <2>7, <2>8 DEF Choosable
<1>6. CASE l = f \/ l = 0
  BY <1>1, <1>2, <1>6
<1>7. CASE l # f /\ l # 0
  <2>1. Choosable(l)
    BY <1>1, <1>4, <1>5, <1>7, DecisionIs
  <2> QED BY <1>1, <1>7, <2>1
<1> QED BY <1>6, <1>7

\* A decision opens a level with the bounds of the one before it.
LEMMA DecideKeeps ==
    ASSUME Assumptions, IInv, Decide, UNCHANGED program
    PROVE  IInv'
<1>1. PICK l : /\ Choosable(l) /\ queue' = {l}
               /\ AssignAt(dl + 1, Assigned(assign, {l}))
  <2>1. pc = "fixpoint"
    BY DEF Decide
  <2>2. PICK f \in Fallbacks :
           LET l == IF Decision(f) = 0 THEN f ELSE Decision(f) IN
           AssignAt(dl + 1, Assigned(assign, {l})) /\ queue' = {l}
    BY DEF Decide
  <2>3. Choosable(IF Decision(f) = 0 THEN f ELSE Decision(f))
    BY <2>1, DecisionChoosable
  <2> QED BY <2>2, <2>3
<1>2. /\ pc = "fixpoint" /\ pc' = "propagate" /\ trail' = Append(trail, Top)
      /\ UNCHANGED <<om, used, static, units>>
  BY DEF Decide
<1>3. PICK val, lev, n, k : /\ val = Assigned(assign, {l}) /\ n = Len(trail) /\ k = dl
                            /\ lev = [a \in Atoms |-> IF val[a] # assign[a] THEN n ELSE alevel[a]]
  OBVIOUS
<1>4. n \in Nat /\ k \in Nat /\ k = n - 1 /\ n >= 1 /\ dl + 1 = n
  BY <1>3, PhaseFacts
<1>5. assign' = val /\ alevel' = lev
  BY <1>1, <1>3, <1>4 DEF AssignAt
<1>6. PICK old, olev : old = assign /\ olev = alevel
  OBVIOUS
<1>7. /\ old \in [Atoms -> {-1, 0, 1}] /\ olev \in [Atoms -> 0..k]
      /\ \A a \in Atoms : /\ old[a] # 0 => a \in used
                          /\ old[a] = 0 => olev[a] = 0
      /\ queue = {} /\ om.factmap = <<>>
  BY <1>2, <1>3, <1>6 DEF IInv, AssignInv, PhaseInv
<1>8. Atoms \subseteq Nat \ {0, 1} /\ used \subseteq Atoms /\ Atoms \subseteq Nat /\ assign \in Values
  BY <1>6, <1>7, Basics DEF Values
<1>9. /\ l \in LiteralsOf(used) /\ l \in LiteralsOf(Atoms) /\ l \in Int /\ Abs(l) \in Atoms /\ Truth(assign, l) # -1
  <2>1. LiteralsOf(used) \subseteq LiteralsOf(Atoms)
    BY <1>8, MoreLiterals
  <2> QED BY <1>1, <2>1 DEF Choosable
<1>10. /\ val \in Values
       /\ \A a \in Atoms : assign[a] # 0 => val[a] = assign[a]
       /\ \A a \in Atoms : val[a] # assign[a] => a \in used
       /\ \A a \in Atoms : val[a] # assign[a] => Entered(val, a) \in {l}
  <2>1. NoneFalse(assign, {l})
    BY <1>9 DEF NoneFalse
  <2>2. {l} \subseteq LiteralsOf(used)
    BY <1>9
  <2>3. val \in Values /\ MoreValues(assign, val, used) /\ NewIn(assign, val, {l})
    BY <1>3, <1>8, <2>1, <2>2, AssignedIs
  <2> QED BY <2>3 DEF MoreValues, NewIn
<1>11. Truth(val, l) = 1
  <2>1. l \notin FactLits /\ l # 0
    BY <1>8, <1>9 DEF FactLits, T, Abs
  <2>2. -l # l
    BY <1>9, <2>1
  <2>3. -l \notin {l}
    BY <2>2
  <2> QED BY <1>3, <1>8, <1>9, <2>1, <2>3, AssignedTrue
<1>12. \A a \in Atoms : lev[a] = IF val[a] # old[a] THEN n ELSE olev[a]
  BY <1>3, <1>6
<1>13. val \in [Atoms -> {-1, 0, 1}] /\ lev \in [Atoms -> 0..n] /\ lev \in [Atoms -> Nat]
  <2>1. ASSUME NEW a \in Atoms PROVE lev[a] \in 0..n /\ lev[a] \in Nat
    BY <1>4, <1>7, <1>12
  <2>2. lev = [a \in Atoms |-> lev[a]]
    BY <1>3
  <2> QED BY <1>10, <2>1, <2>2 DEF Values
<1>14. Sound(used, val, lev, {l}, n)
  <2>1. ASSUME NEW a \in Atoms PROVE (val[a] # 0 => a \in used) /\ (val[a] = 0 => lev[a] = 0)
    BY <1>6, <1>7, <1>10, <1>12
  <2>2. {l} \subseteq Literals
    BY <1>9 DEF Literals
  <2> QED BY <1>11, <1>13, <2>1, <2>2 DEF Sound
<1>15. PICK tr, u : tr = trail /\ u = Append(tr, tr[n])
  OBVIOUS
<1>16. Nested(tr) /\ Nested(u) /\ Len(u) = n + 1 /\ trail' = u
  <2>1. Nested(tr) /\ OrderAssumption /\ Top = tr[n] /\ n = Len(tr)
    BY <1>3, <1>15, TrailNested
  <2>2. Nested(u) /\ Len(u) = n + 1
    BY <1>4, <1>15, <2>1, NestedPushPop
  <2> QED BY <1>2, <1>15, <2>1, <2>2
<1>17. LevelsOk(Atoms, om, val, lev, {l}, u)
  <2>1. LevelsOk(Atoms, om, old, olev, {}, tr)
    BY <1>6, <1>7, <1>15 DEF IInv, LevelsInv
  <2>2. Assignment(Atoms, old, olev) /\ HasLiterals(om)
    BY <1>6, TrailNested
  <2>3. tr \in Seq(Bounds) /\ Len(tr) >= 1 /\ Len(tr) = n
    BY <1>3, <1>4, <1>15, <1>16 DEF Nested
  <2>4. \A a \in Atoms : olev[a] < Len(tr)
    <3> SUFFICES ASSUME NEW a \in Atoms PROVE olev[a] < n
      BY <2>3
    <3> QED BY <1>4, <1>7
  <2>5. Len(tr) = 1 => \A j \in DOMAIN om.lits : /\ ~TrueIn(Atoms, old, olev, om.lits[j], 2)
                                                /\ ~FalseIn(Atoms, old, olev, om.lits[j], 2)
    <3> SUFFICES ASSUME Len(tr) = 1, NEW j \in DOMAIN om.lits PROVE Truth(old, om.lits[j]) = 0
      BY DEF TrueIn, FalseIn
    <3>1. dl = 0
      <4>1. n = 1
        BY <2>3
      <4>2. k = 0
        BY <1>4, <4>1
      <4> QED BY <1>3, <4>2
    <3> QED BY <1>2, <1>6, <3>1, NoneOpposed
  <2>6. LevelsOk(Atoms, om, old, olev, {}, Append(tr, tr[Len(tr)]))
    BY <2>1, <2>2, <2>3, <2>4, <2>5, LevelsPush
  <2>7. LevelsOk(Atoms, om, old, olev, {}, u)
    BY <1>15, <2>3, <2>6
  <2>8. Assignment(Atoms, val, lev)
    BY <1>8, <1>13 DEF Assignment
  <2>9. Grown(Atoms, old, olev, val, lev, {l}, Len(u) - 1)
    <3>1. Len(u) - 1 = n
      BY <1>4, <1>16
    <3>2. ASSUME NEW a \in Atoms
          PROVE  /\ old[a] # 0 => val[a] = old[a] /\ lev[a] = olev[a]
                 /\ old[a] = 0 /\ val[a] # 0 => lev[a] = n /\ (IF val[a] = 1 THEN a \in {l} ELSE -a \in {l})
      <4>1. val[a] # old[a] => Entered(val, a) \in {l}
        BY <1>6, <1>10
      <4>2. old[a] # 0 => val[a] = old[a]
        BY <1>6, <1>10
      <4>3. val[a] # old[a] => (IF val[a] = 1 THEN a \in {l} ELSE -a \in {l})
        BY <4>1 DEF Entered
      <4> QED BY <1>12, <4>2, <4>3
    <3> QED BY <3>1, <3>2 DEF Grown
  <2>10. Len(u) \in Nat /\ {} \subseteq {l}
    BY <1>4, <1>16
  <2> QED BY <2>2, <2>7, <2>8, <2>9, <2>10, LevelsGrow
<1>18. pc' \in Searching /\ pc \in Searching /\ pc' # "fixpoint" /\ pc' \in Building \union Searching
  BY <1>2 DEF Searching
<1>19. ASSUME NEW a \in DOMAIN om.litmap, val[a] # 0, lev[a] = 0 PROVE FALSE
  <2>1. a \in Atoms
    BY <1>8, TrailNested DEF MapOk
  <2>2. old[a] # 0 /\ olev[a] = 0
    BY <1>4, <1>12, <1>19, <2>1
  <2> QED BY <1>6, <1>7, <2>2 DEF IInv, TopInv
<1>20. MapOk(om, used, 0) /\ Clits \subseteq used /\ static \subseteq used /\ used \subseteq Atoms /\ units \subseteq LiteralsOf(used)
  BY TrailNested
<1>21. PICK o, U, q : o = om /\ U = used /\ q = {l}
  OBVIOUS
<1>22. om' = o /\ used' = U /\ queue' = q
  BY <1>1, <1>2, <1>21
<1>23. n = Len(u) - 1 /\ n > 0
  BY <1>4, <1>16
<1>24. \A a \in DOMAIN o.litmap : val[a] # 0 /\ lev[a] = 0 => n = 0 /\ val[a] * a \in q
  BY <1>19, <1>21
<1>25. /\ MapOk(o, U, 0) /\ Sound(U, val, lev, q, n) /\ LevelsOk(Atoms, o, val, lev, q, u) /\ o.factmap = <<>>
       /\ Clits \subseteq U /\ static \subseteq U /\ U \subseteq Atoms /\ units \subseteq LiteralsOf(U)
  BY <1>7, <1>14, <1>17, <1>20, <1>21
<1> QED BY <1>2, <1>4, <1>5, <1>16, <1>18, <1>22, <1>23, <1>24, <1>25, StepKeeps

\* The maps after the steps of RemoveLocals.
IsRemoval(o, k, g) ==
    g = [a \in 1..k |-> IF a = 1 THEN o
                        ELSE IF a \in DOMAIN o.litmap \ static THEN RemoveLocal(g[a - 1], a) ELSE g[a - 1]]

\* The loop of remove_literals_ runs to its end.
LEMMA RemovalExists ==
    ASSUME NEW o, NEW N \in Nat, N >= 1
    PROVE  \E g : IsRemoval(o, N, g)
<1> DEFINE Good(k) == \E g : IsRemoval(o, k + 1, g)
           Bad == {k \in 0..(N - 1) : ~Good(k)}
           Next1(x, a) == IF a \in DOMAIN o.litmap \ static THEN RemoveLocal(x, a) ELSE x
<1>1. Good(0)
  <2> DEFINE g == [a \in 1..1 |-> o]
  <2>1. IsRemoval(o, 1, g)
    BY DEF IsRemoval
  <2>2. IsRemoval(o, 0 + 1, g)
    BY <2>1
  <2> QED BY <2>2
<1>2. ASSUME NEW k \in 1..(N - 1), Good(k - 1)
      PROVE  Good(k)
  <2>1. PICK g : IsRemoval(o, k, g)
    BY <1>2
  <2> DEFINE last == Next1(g[k], k + 1)
             h == [a \in 1..(k + 1) |-> IF a = k + 1 THEN last ELSE g[a]]
  <2>2. \A a \in 1..k : g[a] = IF a = 1 THEN o ELSE Next1(g[a - 1], a)
    BY <2>1 DEF IsRemoval
  <2> HIDE DEF Next1
  <2>3. ASSUME NEW a \in 1..(k + 1)
        PROVE  h[a] = IF a = 1 THEN o ELSE Next1(h[a - 1], a)
    <3>1. CASE a = k + 1
      <4>1. h[a] = last /\ a # 1 /\ h[a - 1] = g[k] /\ a - 1 = k
        BY <3>1
      <4> QED BY <3>1, <4>1
    <3>2. CASE a # k + 1
      <4>1. a \in 1..k
        BY <3>2
      <4>2. a # 1 => h[a - 1] = g[a - 1]
        BY <4>1
      <4>3. h[a] = g[a]
        BY <3>2
      <4> HIDE DEF h
      <4> QED BY <4>1, <4>2, <4>3, <2>2
    <3> QED BY <3>1, <3>2
  <2>4. h = [a \in 1..(k + 1) |-> h[a]]
    OBVIOUS
  <2> HIDE DEF h
  <2>5. IsRemoval(o, k + 1, h)
    BY <2>3, <2>4 DEF IsRemoval, Next1
  <2> QED BY <2>5
<1>3. Bad = {}
  <2>1. 0 \notin Bad
    BY <1>1
  <2>2. \A k \in 1..(N - 1) : k - 1 \notin Bad => k \notin Bad
    <3> SUFFICES ASSUME NEW k \in 1..(N - 1), k - 1 \notin Bad PROVE k \notin Bad
      OBVIOUS
    <3>1. k - 1 \in 0..(N - 1)
      OBVIOUS
    <3> HIDE DEF Good
    <3>2. Good(k - 1)
      BY <3>1
    <3> QED BY <1>2, <3>2
  <2>3. Bad \subseteq 0..(N - 1) /\ N - 1 \in Nat
    OBVIOUS
  <2> HIDE DEF Bad
  <2> QED BY <2>1, <2>2, <2>3, CountUp
<1>4. N - 1 \in 0..(N - 1) /\ (N - 1) + 1 = N
  OBVIOUS
<1>5. Good(N - 1)
  <2> HIDE DEF Good
  <2> QED BY <1>3, <1>4
<1> QED BY <1>4, <1>5

\* The recursive function of RemoveLocals.
LEMMA RemovalRun ==
    ASSUME NEW o, program.atoms \in Nat, program.atoms >= 1
    PROVE  \E run :
             /\ RemoveLocals(o) = run[program.atoms]
             /\ \A a \in 1..program.atoms :
                  run[a] = IF a = 1 THEN o
                           ELSE IF a \in DOMAIN o.litmap \ static THEN RemoveLocal(run[a - 1], a) ELSE run[a - 1]
<1> DEFINE N == program.atoms
           Is(g) == g = [a \in 1..N |-> IF a = 1 THEN o
                          ELSE IF a \in DOMAIN o.litmap \ static THEN RemoveLocal(g[a - 1], a) ELSE g[a - 1]]
           run == CHOOSE g : Is(g)
<1>1. RemoveLocals(o) = run[N]
  BY DEF RemoveLocals
<1>2. \E g : Is(g)
  <2>1. PICK g : IsRemoval(o, N, g)
    BY RemovalExists
  <2>2. Is(g)
    BY <2>1 DEF IsRemoval
  <2> QED BY <2>2
<1>3. Is(run)
  <2> HIDE DEF Is
  <2> QED BY <1>2
<1>4. PICK g : g = run
  OBVIOUS
<1> HIDE DEF run
<1>5. Is(g)
  BY <1>3, <1>4
<1>6. \A a \in 1..N : g[a] = IF a = 1 THEN o
                          ELSE IF a \in DOMAIN o.litmap \ static THEN RemoveLocal(g[a - 1], a) ELSE g[a - 1]
  BY <1>5
<1> QED BY <1>1, <1>4, <1>6

\* After remove_literals_ the map has the static literals only.
LEMMA RemoveLocalsOk ==
    ASSUME Assumptions, IInv
    PROVE  LET q == RemoveLocals(om) IN
           /\ MapOk(q, static, 0) /\ q.factmap = om.factmap
           /\ DOMAIN q.litmap \subseteq DOMAIN om.litmap
<1>1. PICK N, o, St : N = program.atoms /\ o = om /\ St = static
  OBVIOUS
<1>2. N \in Nat /\ N >= 1 /\ MapOk(o, used, 0) /\ OrderAssumption
  BY <1>1, Basics, TrailNested
<1>3. PICK run : /\ RemoveLocals(om) = run[N]
                 /\ \A a \in 1..N :
                      run[a] = IF a = 1 THEN o
                               ELSE IF a \in DOMAIN o.litmap \ St THEN RemoveLocal(run[a - 1], a) ELSE run[a - 1]
  <2>1. program.atoms \in Nat /\ program.atoms >= 1
    BY <1>1, <1>2
  <2>2. PICK run : /\ RemoveLocals(om) = run[program.atoms]
                   /\ \A a \in 1..program.atoms :
                        run[a] = IF a = 1 THEN om
                           ELSE IF a \in DOMAIN om.litmap \ static THEN RemoveLocal(run[a - 1], a) ELSE run[a - 1]
    BY <2>1, RemovalRun
  <2> QED BY <1>1, <2>2
<1> DEFINE Left(a) == {b \in DOMAIN o.litmap : b \in St \/ b > a}
           Keeps(a) == MapOk(run[a], used, 0) /\ run[a].factmap = o.factmap /\ DOMAIN run[a].litmap = Left(a)
           Bad == {k \in 0..(N - 1) : ~Keeps(k + 1)}
<1>4. \A b \in DOMAIN o.litmap : b \in 2..N
  <2>1. DOMAIN o.litmap \subseteq used /\ used \subseteq Atoms
    BY <1>2, Basics DEF MapOk
  <2> QED BY <1>1, <2>1 DEF Atoms
<1>5. 0 \notin Bad
  <2>1. run[1] = o
    BY <1>2, <1>3
  <2>2. Left(1) = DOMAIN o.litmap
    BY <1>4
  <2>3. Keeps(1)
    BY <1>2, <2>1, <2>2
  <2> HIDE DEF Keeps
  <2> QED BY <2>3
<1>6. ASSUME NEW k \in 1..(N - 1), k - 1 \notin Bad
      PROVE  k \notin Bad
  <2>1. k - 1 \in 0..(N - 1) /\ (k - 1) + 1 = k /\ k \in 1..N /\ k + 1 \in 1..N /\ k + 1 # 1 /\ (k + 1) - 1 = k /\ k \in Int
    BY <1>2
  <2>2. Keeps(k)
    <3> HIDE DEF Keeps
    <3> QED BY <1>6, <2>1
  <2>3. PICK r, a : r = run[k] /\ a = k + 1
    OBVIOUS
  <2>4. MapOk(r, used, 0) /\ r.factmap = o.factmap /\ DOMAIN r.litmap = Left(k)
    BY <2>2, <2>3
  <2>5. run[a] = IF a \in DOMAIN o.litmap \ St THEN RemoveLocal(r, a) ELSE r
    BY <1>3, <2>1, <2>3
  <2>6. Keeps(a)
    <3>1. CASE a \in DOMAIN o.litmap \ St
      <4>1. a \in Left(k)
        BY <2>1, <2>3, <3>1
      <4>2. a \in DOMAIN r.litmap
        BY <2>4, <4>1
      <4>3. MapOk(RemoveLocal(r, a), used, 0) /\ DOMAIN RemoveLocal(r, a).litmap = DOMAIN r.litmap \ {a}
            /\ RemoveLocal(r, a).factmap = r.factmap
        BY <1>2, <2>4, <4>2, RemoveLocalOk
      <4>4. Left(a) = Left(k) \ {a}
        BY <1>4, <2>1, <2>3, <3>1
      <4> QED BY <2>4, <2>5, <3>1, <4>3, <4>4
    <3>2. CASE a \notin DOMAIN o.litmap \ St
      <4>1. Left(a) = Left(k)
        BY <1>4, <2>1, <2>3, <3>2
      <4> QED BY <2>4, <2>5, <3>2, <4>1
    <3> QED BY <3>1, <3>2
  <2> HIDE DEF Keeps
  <2> QED BY <2>3, <2>6
<1>7. Bad = {}
  <2>1. Bad \subseteq 0..(N - 1) /\ N - 1 \in Nat
    BY <1>2
  <2> HIDE DEF Bad
  <2> QED BY <1>5, <1>6, <2>1, CountUp
<1>8. Keeps(N)
  <2>1. N - 1 \in 0..(N - 1) /\ (N - 1) + 1 = N
    BY <1>2
  <2> HIDE DEF Keeps
  <2> QED BY <1>7, <2>1
<1>9. PICK q : q = RemoveLocals(om)
  OBVIOUS
<1>10. MapOk(q, used, 0) /\ q.factmap = om.factmap /\ DOMAIN q.litmap = Left(N)
  BY <1>1, <1>3, <1>8, <1>9
<1>11. DOMAIN q.litmap \subseteq static /\ DOMAIN q.litmap \subseteq DOMAIN om.litmap
  BY <1>1, <1>2, <1>4, <1>10
<1>12. MapOk(q, static, 0)
  BY <1>10, <1>11 DEF MapOk
<1> QED BY <1>9, <1>10, <1>11, <1>12

\* The literal an atom was assigned by is true.
LEMMA EnteredTrue ==
    ASSUME NEW val, NEW a \in Nat, a > 1, val[a] \in {-1, 1}
    PROVE  Truth(val, val[a] * a) = 1
<1>1. PICK v : v = val[a]
  OBVIOUS
<1>2. PICK x : x = v * a
  OBVIOUS
<1>3. v = 1 \/ v = -1
  BY <1>1
<1>4. CASE v = 1
  <2>1. x = a
    BY <1>2, <1>4
  <2>2. Abs(x) = a /\ Abs(x) # T /\ x > 0
    BY <2>1 DEF Abs, T
  <2> QED BY <1>1, <1>2, <1>4, <2>1, <2>2 DEF Truth
<1>5. CASE v = -1
  <2>1. x = -a /\ -x = a /\ x \in Int
    BY <1>2, <1>5
  <2>2. Abs(x) # T /\ ~(x > 0)
    BY <2>1 DEF Abs, T
  <2>3. Truth(val, x) = -v
    BY <1>1, <2>1, <2>2 DEF Truth
  <2>4. -v = 1
    BY ONLY <1>5, NegatedTruth
  <2> QED BY <1>1, <1>2, <2>3, <2>4
<1> QED BY <1>3, <1>4, <1>5

\* Between two solve steps the literals of the search are removed.
LEMMA NextStepKeeps ==
    ASSUME Assumptions, IInv, NextStep, UNCHANGED program
    PROVE  IInv'
<1>1. /\ pc \in {"propagate", "fixpoint"} /\ dl = 0 /\ pc' = "build"
      /\ om' = RemoveLocals(om) /\ used' = static
      /\ assign' = [a \in Atoms |-> IF a \in static THEN assign[a] ELSE 0]
      /\ queue' = {assign[a] * a : a \in {b \in static : assign[b] # 0}}
      /\ UNCHANGED <<trail, static, alevel, units>>
  BY DEF NextStep
<1>2. PICK o, St, old, lev, val, q, tr :
        /\ o = RemoveLocals(om) /\ St = static /\ old = assign /\ lev = alevel /\ tr = trail
        /\ val = [a \in Atoms |-> IF a \in static THEN assign[a] ELSE 0]
        /\ q = {assign[a] * a : a \in {b \in static : assign[b] # 0}}
  OBVIOUS
<1>3. /\ old \in [Atoms -> {-1, 0, 1}] /\ lev \in [Atoms -> 0..0]
      /\ \A a \in Atoms : old[a] = 0 => lev[a] = 0
  BY <1>1, <1>2 DEF IInv, AssignInv
<1>4. /\ Atoms \subseteq Nat \ {0, 1} /\ St \subseteq Atoms /\ Atoms \subseteq Nat
  BY <1>2, Basics, TrailNested
<1>5. pc \in Searching /\ Clits \subseteq St /\ units = {}
  BY <1>1, <1>2 DEF IInv, PhaseInv, Searching
<1>6. MapOk(o, St, 0) /\ DOMAIN o.litmap \subseteq St
  BY <1>2, RemoveLocalsOk DEF MapOk
<1>7. \A a \in Atoms : val[a] = IF a \in St THEN old[a] ELSE 0
  BY <1>2
<1>8. val \in [Atoms -> {-1, 0, 1}]
  <2>1. ASSUME NEW a \in Atoms PROVE val[a] \in {-1, 0, 1}
    BY <1>3, <1>7
  <2>2. val = [a \in Atoms |-> val[a]]
    BY <1>2
  <2> QED BY <2>1, <2>2
<1>9. ASSUME NEW a \in St, old[a] # 0
      PROVE  /\ old[a] * a \in q /\ old[a] * a \in Literals
             /\ Truth(val, old[a] * a) = 1
  <2>1. a \in Atoms /\ a \in Nat /\ a > 1 /\ val[a] = old[a] /\ old[a] \in {-1, 1} /\ old[a] \in {-1, 0, 1}
    BY <1>3, <1>4, <1>7, <1>9
  <2>2. old[a] * a \in q
    BY <1>2, <1>9
  <2>3. PICK v : v = old[a]
    OBVIOUS
  <2>4. v * a \in Int /\ Abs(v * a) = a
    BY <1>9, <2>1, <2>3, EnteredAtom
  <2>5. v * a \in LiteralsOf(Atoms)
    BY <1>4, <2>1, <2>4, LiteralIs
  <2>6. Truth(val, val[a] * a) = 1
    BY <2>1, EnteredTrue
  <2> QED BY <2>1, <2>2, <2>3, <2>5, <2>6 DEF Literals
<1>10. \A x \in q : x \in Literals /\ Truth(val, x) = 1
  BY <1>2, <1>9
<1>11. Sound(St, val, lev, q, 0)
  <2>1. ASSUME NEW a \in Atoms PROVE (val[a] # 0 => a \in St) /\ (val[a] = 0 => lev[a] = 0)
    BY <1>3, <1>7
  <2> QED BY <1>3, <1>8, <1>10, <2>1 DEF Sound
<1>12. \A a \in DOMAIN o.litmap : val[a] # 0 /\ lev[a] = 0 => 0 = 0 /\ val[a] * a \in q
  <2> SUFFICES ASSUME NEW a \in DOMAIN o.litmap, val[a] # 0 PROVE val[a] * a \in q
    OBVIOUS
  <2>1. a \in St /\ a \in Atoms
    BY <1>4, <1>6
  <2>2. val[a] = old[a]
    BY <1>7, <2>1
  <2> QED BY <1>9, <2>1, <2>2
<1>13. Nested(tr) /\ 0 = Len(tr) - 1
  <2>1. dl = Len(trail) - 1
    BY PhaseFacts
  <2> QED BY <1>1, <1>2, <2>1, TrailNested
<1>14. pc' \in Building \union Searching /\ pc' \notin Searching /\ pc' # "fixpoint"
  BY <1>1 DEF Building, Searching
<1>15. om' = o /\ used' = St /\ assign' = val /\ alevel' = lev /\ queue' = q /\ trail' = tr
  BY <1>1, <1>2
<1>16. UNCHANGED <<program, static, units>> /\ static \subseteq St /\ units \subseteq LiteralsOf(St) /\ 0 \in Nat /\ ~(0 > 0)
  BY <1>1, <1>2, <1>5
<1>17. PICK n : n = 0
  OBVIOUS
<1>18. /\ n \in Nat /\ n = Len(tr) - 1 /\ ~(n > 0) /\ Sound(St, val, lev, q, n)
       /\ \A a \in DOMAIN o.litmap : val[a] # 0 /\ lev[a] = 0 => n = 0 /\ val[a] * a \in q
  BY <1>11, <1>12, <1>13, <1>17
<1> QED BY <1>4, <1>5, <1>6, <1>13, <1>14, <1>15, <1>16, <1>17, <1>18, StepKeeps

\* The empty map of the initial states.
LEMMA EmptyMap ==
    ASSUME NEW o, o = [lits |-> <<>>, litmap |-> <<>>, factmap |-> <<>>], NEW U
    PROVE  MapOk(o, U, 0) /\ DOMAIN o.litmap = {} /\ DOMAIN o.lits = {}
<1>1. PICK e : e = <<>>
  OBVIOUS
<1>2. DOMAIN e = {} /\ e \in [{} -> Int] /\ e \in [{} -> EntrySet] /\ e \in Seq(FactSet) /\ Len(e) = 0
  BY <1>1
<1>3. o.lits = e /\ o.litmap = e /\ o.factmap = e /\ o = [lits |-> e, litmap |-> e, factmap |-> e]
  BY <1>1
<1>4. o \in MapSet
  <2>1. PICK f, g, h : f = e /\ g = e /\ h = e
    OBVIOUS
  <2>2. f \in [DOMAIN f -> Int] /\ DOMAIN f \subseteq Int
    BY <1>2, <2>1
  <2>3. g \in [DOMAIN g -> EntrySet] /\ DOMAIN g \subseteq Int /\ h \in Seq(FactSet)
    BY <1>2, <2>1
  <2>4. [lits |-> f, litmap |-> g, factmap |-> h] \in MapSet
    BY ONLY <2>2, <2>3, MapFrom
  <2> QED BY <1>3, <2>1, <2>4
<1> QED BY <1>2, <1>3, <1>4 DEF MapOk, EntriesLinked, ValuesIndexed, FactsListed

\* The invariant holds at the start.
LEMMA InitOk ==
    ASSUME Assumptions, Init
    PROVE  IInv
<1>1. /\ program \in Programs /\ used = Clits /\ static = {} /\ units = {} /\ queue = TrueClits /\ pc = "build"
      /\ om = [lits |-> <<>>, litmap |-> <<>>, factmap |-> <<>>]
      /\ trail = <<[lo |-> Lo, up |-> Hi]>>
      /\ assign = [a \in Atoms |-> IF a \in TrueClits THEN 1 ELSE 0] /\ alevel = [a \in Atoms |-> 0]
  BY DEF Init
<1>2. /\ program.atoms \in Nat /\ Clits \subseteq Atoms /\ TrueClits \subseteq Clits /\ Atoms \subseteq Nat
      /\ \A a \in Atoms : a > 1
  BY <1>1 DEF Assumptions, ProgramsAssumption, Clits, TrueClits, Atoms
<1>3. Lo \in Int /\ Hi \in Int /\ Lo <= Hi
  BY DEF Assumptions, OrderAssumption
<1>4. Len(trail) = 1 /\ trail[1] = [lo |-> Lo, up |-> Hi] /\ dl = 0 /\ trail \in Seq(Bounds)
  BY <1>1, <1>3 DEF dl, Bounds
<1>5. MapOk(om, used, 0) /\ DOMAIN om.litmap = {}
  BY <1>1, EmptyMap
<1>6. om.factmap = <<>>
  BY <1>1
<1>7. PhaseInv
  BY <1>1, <1>2, <1>4, <1>6 DEF PhaseInv, Building, Searching
<1>8. AssignInv
  <2>1. \A l \in queue : l \in Literals /\ IsTrue(l)
    <3> SUFFICES ASSUME NEW l \in TrueClits PROVE l \in Literals /\ Truth(assign, l) = 1
      BY <1>1 DEF IsTrue
    <3>1. l \in Atoms /\ l \in Nat /\ l > 1
      BY <1>2
    <3>2. Abs(l) # T
      BY <3>1 DEF Abs, T
    <3> QED BY <1>1, <3>1, <3>2 DEF Literals, LiteralsOf, Truth
  <2>2. assign \in [Atoms -> {-1, 0, 1}] /\ alevel \in [Atoms -> 0..dl]
    BY <1>1, <1>4
  <2>3. \A a \in Atoms : (assign[a] # 0 => a \in used) /\ (assign[a] = 0 => alevel[a] = 0)
    BY <1>1, <1>2
  <2> QED BY <2>1, <2>2, <2>3 DEF AssignInv
<1>9. TrailInv
  BY <1>3, <1>4 DEF TrailInv, MinBound, MaxBound
<1>10. TopInv
  BY <1>5 DEF TopInv
<1>11. LevelsInv
  BY <1>4, LevelsTrivial DEF LevelsInv
<1> QED BY <1>5, <1>7, <1>8, <1>9, <1>10, <1>11 DEF IInv

\* A step that changes nothing.
LEMMA StutterKeeps ==
    ASSUME Assumptions, IInv, UNCHANGED vars
    PROVE  IInv'
<1>1. UNCHANGED <<program, om, trail, used, static, assign, alevel, units, queue, pc>>
  BY DEF vars, clasp
<1>2. Atoms' = Atoms /\ Literals' = Literals /\ Clits' = Clits /\ dl' = dl
  BY <1>1 DEF Literals, LiteralsOf, Atoms, Clits, dl
<1>3. PhaseInv'
  <2>1. LiteralsOf(used)' = LiteralsOf(used)
    BY <1>1 DEF LiteralsOf
  <2> QED BY <1>1, <1>2, <2>1 DEF IInv, PhaseInv, Building, Searching
<1>4. AssignInv'
  <2>1. \A l : IsTrue(l)' <=> IsTrue(l)
    BY <1>1 DEF IsTrue, Truth, T
  <2> QED BY <1>1, <1>2, <2>1 DEF IInv, AssignInv
<1>5. TrailInv'
  BY <1>1 DEF IInv, TrailInv, MinBound, MaxBound
<1>6. MapOk(om, used, 0)'
  <2>1. PICK o, U : o = om /\ U = used
    OBVIOUS
  <2>2. MapOk(o, U, 0) /\ om' = o /\ used' = U /\ program' = program
    BY <1>1, <2>1 DEF IInv
  <2> QED BY <2>2, MapPrimed
<1>7. TopInv'
  <2>1. TopInv
    BY DEF IInv
  <2> QED BY ONLY <1>1, <1>2, <2>1 DEF TopInv
<1>8. LevelsInv'
  <2>1. LevelsOk(Atoms', om', assign', alevel', queue', trail')
    BY <1>1, <1>2 DEF IInv, LevelsInv
  <2> QED BY <2>1 DEF LevelsInv, LevelsOk, BoundsIn, LevelsIn, ClosedIn, TrueIn, FalseIn, Truth, Abs, T
<1> QED BY <1>3, <1>4, <1>5, <1>6, <1>7, <1>8 DEF IInv

\* Every step preserves the invariant.
LEMMA NextKeeps ==
    ASSUME Assumptions, IInv, [Next]_vars
    PROVE  IInv'
<1>1. CASE UNCHANGED vars
  BY <1>1, StutterKeeps
<1>2. CASE Next
  <2>1. UNCHANGED program /\ Step
    BY <1>2 DEF Next
  <2>2. CASE \E c \in Simples : AddSimple(c)
    BY <2>1, <2>2, AddSimpleKeeps
  <2>3. CASE \E d \in Doms : AddDom(d)
    BY <2>1, <2>3, AddDomKeeps
  <2>4. CASE \E b \in Shared : UpdateBounds(b)
    BY <2>1, <2>4, UpdateBoundsKeeps
  <2>5. CASE BeginSimplify \/ Commit \/ Committed
    BY <2>1, <2>5, BeginSimplifyKeeps, CommitKeeps, CommittedKeeps
  <2>6. CASE UnitPropagate \/ Propagate \/ Check
    BY <2>1, <2>6, UnitPropagateKeeps, PropagateKeeps, CheckKeeps
  <2>7. CASE Tighten \/ EndCheck
    BY <2>1, <2>7, TightenKeeps, EndCheckKeeps
  <2>8. CASE Introduce \/ IntroduceReason
    BY <2>1, <2>8, IntroduceKeeps, IntroduceReasonKeeps
  <2>9. CASE Decide \/ CheckFull \/ Undo \/ NextStep
    BY <2>1, <2>9, DecideKeeps, CheckFullKeeps, UndoKeeps, NextStepKeeps
  <2> QED BY <2>1, <2>2, <2>3, <2>4, <2>5, <2>6, <2>7, <2>8, <2>9 DEF Step
<1> QED BY <1>1, <1>2

\* The constants are as the specification assumes.
LEMMA ConstantsOk == Assumptions
BY OrderAssumption, ProgramsAssumption DEF Assumptions

\* The inductive invariant holds in every reachable state.
THEOREM OrderInvariance == Spec => []IInv
<1>1. Init => IInv
  BY ConstantsOk, InitOk
<1>2. IInv /\ [Next]_vars => IInv'
  BY ConstantsOk, NextKeeps
<1> QED BY <1>1, <1>2, PTL DEF Spec

-----------------------------------------------------------------------------
(* The properties.                                                         *)

\* The variables are of their types.
LEMMA TypesOk ==
    ASSUME Assumptions, IInv
    PROVE  TypeOK
<1>1. PICK o, U, A : o = om /\ U = used /\ A = Atoms
  OBVIOUS
<1>2. MapOk(o, U, 0) /\ OrderAssumption /\ U \subseteq A /\ A \subseteq Nat \ {0, 1} /\ U \subseteq Nat
  BY <1>1, TrailNested, Basics
<1>3. ASSUME NEW k \in DOMAIN o.lits PROVE Abs(o.lits[k]) \in U \union {T}
  <2>1. o.lits[k] \in LiteralsOf(U)
    BY <1>2, <1>3, PrevAndSucc, NeighboursAreLiterals, MapLiterals
  <2>2. o.lits[k] \in Int
    BY <1>2, <2>1, LiteralsAreInts
  <2>3. o.lits[k] \in FactLits \/ Abs(o.lits[k]) \in U
    BY <1>2, <2>1, <2>2, LiteralIs
  <2>4. o.lits[k] \in FactLits => Abs(o.lits[k]) = T
    BY <2>2, AbsIs DEF T
  <2> QED BY <2>3, <2>4
<1>4. ASSUME NEW a \in DOMAIN o.litmap
      PROVE  /\ a \in U
             /\ o.litmap[a] \in [lit : {a, -a}, value : DOMAIN o.lits, prev : Literals, succ : Literals]
  <2>1. o.litmap[a] \in EntrySet /\ a \in U
    BY <1>2, MapParts DEF MapOk
  <2>2. PICK e : e = o.litmap[a]
    OBVIOUS
  <2>3. /\ e.lit \in {a, -a} /\ e.value \in DOMAIN o.lits
        /\ e.prev = LitPrev(o, e.value) /\ e.succ = LitSucc(o, e.value)
    BY <1>2, <2>2 DEF MapOk, EntriesLinked
  <2>4. e.value \in Int
    BY <2>1, <2>2 DEF EntrySet
  <2>5. e.prev \in LiteralsOf(U) /\ e.succ \in LiteralsOf(U)
    BY <1>2, <2>3, <2>4, NeighboursAreLiterals
  <2>6. LiteralsOf(U) \subseteq Literals
    BY <1>1, <1>2, MoreLiterals DEF Literals
  <2> QED BY <2>1, <2>2, <2>3, <2>5, <2>6 DEF EntrySet
<1>5. ASSUME NEW i \in DOMAIN o.factmap
      PROVE  o.factmap[i] \in [lit : {T, -T}, value : DOMAIN o.lits, prec : Literals]
  <2>1. o.factmap \in Seq(FactSet)
    BY <1>2, MapParts DEF MapOk
  <2>2. i \in (0 + 1)..Len(o.factmap) /\ o.factmap[i] \in FactSet
    BY <2>1
  <2>3. /\ o.factmap[i].lit \in FactLits /\ o.factmap[i].prec \in Literals
        /\ o.factmap[i].value \in DOMAIN o.lits
    BY <1>2, <2>2 DEF MapOk, FactsListed
  <2> QED BY <2>2, <2>3 DEF FactSet, FactLits
<1>6. \A i \in DOMAIN trail : Lo <= trail[i].lo /\ trail[i].lo <= trail[i].up /\ trail[i].up <= Hi
  <2>1. PICK tr, n : tr = trail /\ n = Len(trail)
    OBVIOUS
  <2>2. /\ tr \in Seq(Bounds) /\ n = Len(tr) /\ n \in Nat /\ n > 0 /\ DOMAIN tr = 1..n
        /\ \A i \in 1..n : tr[i].lo <= tr[i].up
        /\ \A i, j \in 1..n : i <= j => tr[i].lo <= tr[j].lo /\ tr[j].up <= tr[i].up
        /\ Lo <= tr[1].lo /\ tr[1].up <= Hi /\ Lo \in Int /\ Hi \in Int
    BY <2>1, Basics, TrailNested DEF Nested
  <2>3. ASSUME NEW i \in 1..n PROVE Lo <= tr[i].lo /\ tr[i].lo <= tr[i].up /\ tr[i].up <= Hi
    <3>1. 1 \in 1..n /\ 1 <= i
      BY <2>2
    <3>2. tr[1] \in Bounds /\ tr[i] \in Bounds
      BY <2>2, <3>1
    <3>3. tr[1].lo \in Int /\ tr[1].up \in Int /\ tr[i].lo \in Int /\ tr[i].up \in Int
      BY <3>2 DEF Bounds
    <3>4. tr[1].lo <= tr[i].lo /\ tr[i].up <= tr[1].up /\ tr[i].lo <= tr[i].up
      BY <2>2, <3>1
    <3> QED BY <2>2, <3>3, <3>4
  <2> QED BY <2>1, <2>2, <2>3
<1>7. DOMAIN om.lits \subseteq Lo..(Hi - 1)
  BY <1>1, <1>2 DEF MapOk
<1> QED BY <1>1, <1>3, <1>4, <1>5, <1>6, <1>7 DEF TypeOK, IInv, PhaseInv, AssignInv

\* The links of the entries match the map.
LEMMA LinksOk ==
    ASSUME Assumptions, IInv
    PROVE  LinksMatchMap
<1>1. PICK o : o = om
  OBVIOUS
<1>2. EntriesLinked(o) /\ ValuesIndexed(o) /\ o \in MapSet
  BY <1>1 DEF IInv, MapOk
<1>3. \A a \in DOMAIN o.litmap :
         /\ o.lits[o.litmap[a].value] = o.litmap[a].lit
         /\ o.litmap[a].prev = LitPrev(o, o.litmap[a].value) /\ o.litmap[a].succ = LitSucc(o, o.litmap[a].value)
  BY <1>2 DEF EntriesLinked
<1>4. ASSUME NEW k \in DOMAIN o.lits PROVE Abs(o.lits[k]) = T \/ Valid(o, o.lits[k])
  <2>1. o.lits[k] \in FactLits \/ (Abs(o.lits[k]) \in DOMAIN o.litmap /\ o.litmap[Abs(o.lits[k])].value = k)
    BY <1>2 DEF ValuesIndexed
  <2>2. o.lits[k] \in FactLits => Abs(o.lits[k]) = T
    BY AbsIs, MapParts, <1>2 DEF T
  <2>3. Abs(o.lits[k]) \in DOMAIN o.litmap /\ o.litmap[Abs(o.lits[k])].value = k => Valid(o, o.lits[k])
    BY <1>3 DEF Valid
  <2> QED BY <2>1, <2>2, <2>3
<1> QED BY <1>1, <1>3, <1>4 DEF LinksMatchMap

\* The bounds of the current level and the literals that stand for them.
LEMMA BoundLiterals ==
    ASSUME Assumptions, IInv
    PROVE  /\ Top.lo > MinBound =>
                Top.lo - 1 \in DOMAIN om.lits /\ FalseIn(Atoms, assign, alevel, om.lits[Top.lo - 1], Len(trail))
           /\ Top.up < MaxBound =>
                Top.up \in DOMAIN om.lits /\ TrueIn(Atoms, assign, alevel, om.lits[Top.up], Len(trail))
           /\ Top.lo > MinBound \/ Top.up < MaxBound => Len(trail) \in 2..Len(trail)
<1>1. Len(trail) \in Nat /\ Len(trail) >= 1 /\ MinBound \in Int /\ MaxBound \in Int /\ Top = trail[Len(trail)]
  BY Basics DEF Top
<1>2. CASE Len(trail) = 1
  <2>1. Top.lo = MinBound /\ Top.up = MaxBound
    BY <1>1, <1>2 DEF MinBound, MaxBound
  <2> QED BY <1>1, <2>1
<1>3. CASE Len(trail) # 1
  <2>1. Len(trail) \in 2..Len(trail)
    <3>1. PICK n : n = Len(trail)
      OBVIOUS
    <3>2. n \in Nat /\ n >= 1 /\ n # 1
      BY <1>1, <1>3, <3>1
    <3>3. n \in 2..n
      BY <3>2
    <3> QED BY <3>1, <3>3
  <2> QED BY <1>1, <2>1 DEF IInv, LevelsInv, LevelsOk, BoundsIn, MinBound, MaxBound
<1> QED BY <1>2, <1>3

\* At a fixpoint the literals are those the bounds stand for.
LEMMA LiteralsMatch ==
    ASSUME Assumptions, IInv
    PROVE  BoundsMatchLiterals
<1> SUFFICES ASSUME pc = "fixpoint", NEW k \in DOMAIN om.lits
             PROVE  /\ IsTrue(om.lits[k]) => Top.up <= k
                    /\ IsFalse(om.lits[k]) => Top.lo > k
                    /\ Top.up < MaxBound /\ k >= Top.up => IsTrue(om.lits[k])
                    /\ Top.lo > MinBound /\ k < Top.lo => IsFalse(om.lits[k])
  BY DEF BoundsMatchLiterals, AtFixpoint
<1>1. om.factmap = <<>> /\ queue = {}
  BY DEF IInv, PhaseInv
<1>2. k \in Int /\ Top.lo \in Int /\ Top.up \in Int /\ MinBound \in Int /\ MaxBound \in Int
  BY <1>1, OwnAtoms, Basics
<1>3. /\ Top.lo <= k => Truth(assign, om.lits[k]) # -1
      /\ k < Top.up => Truth(assign, om.lits[k]) # 1
  BY NoneOpposed
<1>4. (k < Top.up \/ Top.up <= k) /\ (Top.lo <= k \/ Top.lo > k)
  BY <1>2
<1>5. IsTrue(om.lits[k]) => Top.up <= k
  BY <1>3, <1>4 DEF IsTrue
<1>6. IsFalse(om.lits[k]) => Top.lo > k
  BY <1>3, <1>4 DEF IsFalse
<1>7. ASSUME Top.up < MaxBound, k >= Top.up PROVE IsTrue(om.lits[k])
  <2>1. PICK m, n : m = Top.up /\ n = Len(trail)
    OBVIOUS
  <2>2. m \in DOMAIN om.lits /\ TrueIn(Atoms, assign, alevel, om.lits[m], n) /\ n \in 2..n
    BY <1>7, <2>1, BoundLiterals
  <2>3. CASE k = m
    BY <2>2, <2>3 DEF TrueIn, IsTrue
  <2>4. CASE k # m
    <3>1. m < k
      BY <1>2, <1>7, <2>1, <2>4
    <3>2. TrueIn(Atoms, assign, alevel, om.lits[k], n)
      BY <1>1, <2>1, <2>2, <3>1 DEF IInv, LevelsInv, LevelsOk, ClosedIn
    <3> QED BY <3>2 DEF TrueIn, IsTrue
  <2> QED BY <2>3, <2>4
<1>8. ASSUME Top.lo > MinBound, k < Top.lo PROVE IsFalse(om.lits[k])
  <2>1. PICK m, n : m = Top.lo - 1 /\ n = Len(trail)
    OBVIOUS
  <2>2. m \in DOMAIN om.lits /\ FalseIn(Atoms, assign, alevel, om.lits[m], n) /\ n \in 2..n
    BY <1>8, <2>1, BoundLiterals
  <2>3. CASE k = m
    BY <2>2, <2>3 DEF FalseIn, IsFalse
  <2>4. CASE k # m
    <3>1. k < m
      BY <1>2, <1>8, <2>1, <2>4
    <3>2. FalseIn(Atoms, assign, alevel, om.lits[k], n)
      BY <1>1, <2>1, <2>2, <3>1 DEF IInv, LevelsInv, LevelsOk, ClosedIn
    <3> QED BY <3>2 DEF FalseIn, IsFalse
  <2> QED BY <2>3, <2>4
<1> QED BY <1>5, <1>6, <1>7, <1>8

\* The map, the links, the facts and the bounds agree.
LEMMA MapsAgree ==
    ASSUME Assumptions, IInv
    PROVE  MapsConsistent
<1>1. BoundsHaveLiterals
  BY BoundLiterals DEF BoundsHaveLiterals, TrueIn, FalseIn, IsTrue, IsFalse
<1>2. FactsRemoved
  BY NoneOpposed DEF FactsRemoved, AtFixpoint
<1>3. FactsOnTop
  BY DEF IInv, PhaseInv, FactsOnTop
<1> QED BY <1>1, <1>2, <1>3, TypesOk, LinksOk DEF MapsConsistent

\* A literal the heuristic replaces, whose value k is between the bounds of
\* level 0, is between those of the current level.
LEMMA FreeInside ==
    ASSUME Assumptions, IInv, pc = "fixpoint", NEW k \in DOMAIN om.lits, ~OutOfBounds(k),
           Truth(assign, om.lits[k]) = 0
    PROVE  Top.lo <= k /\ k < Top.up
<1>1. om.factmap = <<>>
  BY DEF IInv, PhaseInv
<1>2. k \in Int /\ Top.lo \in Int /\ Top.up \in Int /\ MinBound \in Int /\ MaxBound \in Int
  BY <1>1, OwnAtoms, Basics
<1>3. MinBound <= k /\ k < MaxBound
  BY <1>2 DEF OutOfBounds
<1>4. /\ Top.up < MaxBound /\ k >= Top.up => IsTrue(om.lits[k])
      /\ Top.lo > MinBound /\ k < Top.lo => IsFalse(om.lits[k])
  BY LiteralsMatch DEF BoundsMatchLiterals, AtFixpoint
<1>5. ~IsTrue(om.lits[k]) /\ ~IsFalse(om.lits[k])
  BY DEF IsTrue, IsFalse
<1>6. PICK lo, up, min, max : lo = Top.lo /\ up = Top.up /\ min = MinBound /\ max = MaxBound
  OBVIOUS
<1>7. ~(up < max /\ k >= up) /\ ~(lo > min /\ k < lo)
  BY <1>4, <1>5, <1>6
<1>8. lo <= k /\ k < up
  BY <1>2, <1>3, <1>6, <1>7
<1> QED BY <1>6, <1>8

\* A literal of a value between the bounds is free.
LEMMA InsideFree ==
    ASSUME Assumptions, IInv, pc = "fixpoint", NEW k \in DOMAIN om.lits, Top.lo <= k, k < Top.up
    PROVE  Truth(assign, om.lits[k]) = 0 /\ om.lits[k] # 0 /\ -om.lits[k] # 0 /\ Truth(assign, -om.lits[k]) = 0
<1>1. om.factmap = <<>>
  BY DEF IInv, PhaseInv
<1>2. PICK x : x = om.lits[k]
  OBVIOUS
<1>3. x \in Int /\ x \in LiteralsOf(Atoms) /\ Abs(x) \in Atoms
  BY <1>1, <1>2, OwnAtoms
<1>4. Atoms \subseteq Nat \ {0, 1} /\ assign \in [Atoms -> {-1, 0, 1}]
  BY Basics DEF Assignment
<1>5. x # 0 /\ -x # 0
  <2>1. x # 0
    BY <1>3, <1>4 DEF Abs
  <2> QED BY <1>3, <2>1
<1>6. Truth(assign, x) = 0
  <2>1. /\ Truth(assign, x) # -1 /\ Truth(assign, x) # 1
        /\ Truth(assign, x) \in {-1, 0, 1}
    BY <1>2, NoneOpposed
  <2> QED BY <2>1
<1>7. Truth(assign, -x) = 0
  <2>1. Truth(assign, -x) \in {-1, 0, 1} /\ (Truth(assign, -x) = 1 <=> Truth(assign, x) = -1)
        /\ (Truth(assign, -x) = -1 <=> Truth(assign, x) = 1)
    BY <1>3, <1>4, TruthIs
  <2> QED BY <1>6, <2>1
<1> QED BY <1>2, <1>5, <1>6, <1>7

\* The heuristic chooses free literals.
LEMMA DecisionOk ==
    ASSUME Assumptions, IInv
    PROVE  DecisionIsFree
<1> SUFFICES ASSUME pc = "fixpoint", NEW f \in Fallbacks,
                    Abs(f) \in DOMAIN om.litmap => ~OutOfBounds(om.litmap[Abs(f)].value)
             PROVE  Decision(f) # 0 /\ Truth(assign, Decision(f)) = 0
  BY DEF DecisionIsFree, AtFixpoint
<1>1. f \in Int /\ Abs(f) \in Atoms /\ f \in LiteralsOf(Atoms) /\ Truth(assign, f) = 0
  <2>1. Choosable(f) /\ Truth(assign, f) = 0
    BY FallbackIs
  <2>2. LiteralsOf(used) \subseteq LiteralsOf(Atoms)
    BY Basics, MoreLiterals
  <2> QED BY <2>1, <2>2 DEF Choosable
<1>2. Atoms \subseteq Nat \ {0, 1} /\ assign \in [Atoms -> {-1, 0, 1}] /\ om.factmap = <<>>
  BY Basics DEF Assignment, IInv, PhaseInv
<1>3. f # 0
  BY <1>1, <1>2 DEF Abs
<1>4. Abs(-f) = Abs(f)
  BY <1>1, AbsIs
<1>5. Truth(assign, -f) = 0
  <2>1. PICK y, A, val : y = -f /\ A = Atoms /\ val = assign
    OBVIOUS
  <2>2. A \subseteq Nat \ {0, 1} /\ val \in [A -> {-1, 0, 1}] /\ f \in LiteralsOf(A)
    BY <1>1, <1>2, <2>1
  <2>3. Opposite(y, f)
    BY <2>1 DEF Opposite
  <2>4. (Truth(val, y) = 1 <=> Truth(val, f) = -1) /\ (Truth(val, y) = -1 <=> Truth(val, f) = 1)
    BY ONLY <2>2, <2>3, OppositeTruth
  <2>5. y \in LiteralsOf(A)
    BY <2>1, <2>2, NegatedLiteral
  <2>6. Truth(val, y) \in {-1, 0, 1}
    BY <2>2, <2>5, TruthIs
  <2>7. Truth(val, f) = 0
    BY <1>1, <2>1
  <2>8. Truth(val, y) = 0
    BY <2>4, <2>6, <2>7
  <2> QED BY <2>1, <2>8
<1>6. ASSUME Valid(om, f) \/ Valid(om, -f)
      PROVE  \E k \in DOMAIN om.lits : Top.lo <= k /\ k < Top.up
  <2>1. PICK k : k = om.litmap[Abs(f)].value
    OBVIOUS
  <2>2. Abs(f) \in DOMAIN om.litmap /\ om.litmap[Abs(f)].lit \in {f, -f}
    BY <1>4, <1>6 DEF Valid
  <2>3. k \in DOMAIN om.lits /\ om.lits[k] \in {f, -f}
    BY <2>1, <2>2 DEF IInv, MapOk, EntriesLinked
  <2>4. Truth(assign, om.lits[k]) = 0 /\ ~OutOfBounds(k)
    BY <1>1, <1>5, <2>1, <2>2, <2>3
  <2>5. Top.lo <= k /\ k < Top.up
    BY <2>3, <2>4, FreeInside
  <2> QED BY <2>3, <2>5
<1>7. \A k \in DOMAIN om.lits : k \in Int
  BY <1>2, OwnAtoms
<1>8. Top.lo \in Int /\ Top.up \in Int
  BY Basics
<1>9. CASE Decision(f) = f
  BY <1>1, <1>3, <1>9
<1>10. ASSUME MaxChain, Valid(om, f), NEW k \in DOMAIN om.lits, Decision(f) = om.lits[k], k >= Top.lo,
              \A j \in DOMAIN om.lits : j >= Top.lo => k <= j
       PROVE  Decision(f) # 0 /\ Truth(assign, Decision(f)) = 0
  <2>1. PICK j \in DOMAIN om.lits : Top.lo <= j /\ j < Top.up
    BY <1>6, <1>10
  <2>2. Top.lo <= k /\ k < Top.up
    BY <1>7, <1>8, <1>10, <2>1
  <2> QED BY <1>10, <2>2, InsideFree
<1>11. ASSUME MaxChain, Valid(om, -f), NEW k \in DOMAIN om.lits, Decision(f) = -om.lits[k], k < Top.up,
              \A j \in DOMAIN om.lits : j < Top.up => j <= k
       PROVE  Decision(f) # 0 /\ Truth(assign, Decision(f)) = 0
  <2>1. PICK j \in DOMAIN om.lits : Top.lo <= j /\ j < Top.up
    BY <1>6, <1>11
  <2>2. Top.lo <= k /\ k < Top.up
    BY <1>7, <1>8, <1>11, <2>1
  <2> QED BY <1>11, <2>2, InsideFree
<1>12. ~ \/ MaxChain /\ Valid(om, f) /\ \A j \in DOMAIN om.lits : ~(j >= Top.lo)
         \/ MaxChain /\ Valid(om, -f) /\ \A j \in DOMAIN om.lits : ~(j < Top.up)
  <2> SUFFICES ASSUME Valid(om, f) \/ Valid(om, -f)
               PROVE  (\E j \in DOMAIN om.lits : j >= Top.lo) /\ (\E j \in DOMAIN om.lits : j < Top.up)
    OBVIOUS
  <2>1. PICK j \in DOMAIN om.lits : Top.lo <= j /\ j < Top.up
    BY <1>6
  <2>2. j >= Top.lo
    BY <1>7, <1>8, <2>1
  <2> QED BY <2>1, <2>2
<1> QED BY <1>9, <1>10, <1>11, <1>12, DecisionIs

-----------------------------------------------------------------------------

\* The order map, the links between its literals, the facts and the bounds
\* agree in every reachable state (add_simple, add_dom, update_bounds,
\* propagate, check, decide, undo, update).
THEOREM MapsAlwaysConsistent == Spec => []MapsConsistent
<1>1. IInv => MapsConsistent
  BY ConstantsOk, MapsAgree
<1> QED BY <1>1, OrderInvariance, PTL

\* At every fixpoint the bounds are those the order literals stand for
\* (update_domain_, check).
THEOREM BoundsAlwaysMatch == Spec => []BoundsMatchLiterals
<1>1. IInv => BoundsMatchLiterals
  BY ConstantsOk, LiteralsMatch
<1> QED BY <1>1, OrderInvariance, PTL

\* The literals Solver::decide returns are free, as its assertions say.
THEOREM DecisionsAreFree == Spec => []DecisionIsFree
<1>1. IInv => DecisionIsFree
  BY ConstantsOk, DecisionOk
<1> QED BY <1>1, OrderInvariance, PTL
=============================================================================
