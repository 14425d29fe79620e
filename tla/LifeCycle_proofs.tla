-------------------------- MODULE LifeCycle_proofs --------------------------
(***************************************************************************)
(* The lists of states stay in order over solve steps, threads, decision   *)
(* levels and translation, for any number of them. The argument has two    *)
(* layers. A solver by itself is well-formed (WellFormed): its lists refer *)
(* to its own states, a mark tells the level on which the constraint was   *)
(* put into the inactive list, and what undo finds behind the offsets of a *)
(* level is just what was marked or unwatched on that level. Each          *)
(* operation of Solver and Level is shown to keep a solver well-formed.    *)
(* The set-up around the solvers then only has to say which constraints    *)
(* have states, what was propagated, where the objective is, and what the  *)
(* statistics have counted: IInv, which the actions of the specification   *)
(* preserve one by one.                                                    *)
(***************************************************************************)
EXTENDS LifeCycle, Sums_proofs, SequenceTheorems, FiniteSetTheorems, FunctionTheorems

-----------------------------------------------------------------------------
(* Types, and what a well-formed solver is.                                *)

\* The values of the variables.
Kinds == {"sum", "distinct", "minimize"}
Phases == {"init", "parse", "simplify", "minimize", "translate", "threads", "search", "unsat"}

StateSet == [thread : Nat, cons : Nat, since : Nat]
OffsetSet == [inactive : Nat, removed : Nat]
Marks == UNION {[S -> Nat] : S \in SUBSET StateSet}
SolverSet ==
    [states : SUBSET StateSet, lits : SUBSET StateSet, watches : SUBSET StateSet,
     removed : Seq(StateSet), todo : Seq(StateSet), flagged : SUBSET StateSet,
     inactive : Seq(StateSet), mark : Marks, levels : Seq(OffsetSet)]

\* No entry twice.
OneToOne(list) == \A m, n \in DOMAIN list : list[m] = list[n] => m = n

\* Entry n of the inactive list was added on level k.
AtLevel(s, n, k) ==
    k <= Len(s.levels) /\ \A l \in DOMAIN s.levels : s.levels[l].inactive < n <=> l <= k

\* The lists refer to states of the solver, one per constraint; every state hears of
\* its literal, and of its variables unless it is in the removed list.
Refers(s) ==
    /\ s.mark \in [s.states -> Nat]
    /\ Listed(s) \subseteq s.states
    /\ s.flagged \subseteq Elements(s.todo)
    /\ s.lits = s.states
    /\ s.watches = s.states \ Elements(s.removed)
    /\ \A x, y \in s.states : x.cons = y.cons => x = y

\* The offsets of the levels grow and are inside the lists.
OffsetsOrdered(s) ==
    /\ \A l \in DOMAIN s.levels : /\ s.levels[l].inactive <= Len(s.inactive)
                                  /\ s.levels[l].removed <= Len(s.removed)
    /\ \A k, l \in DOMAIN s.levels :
         k <= l => /\ s.levels[k].inactive <= s.levels[l].inactive
                   /\ s.levels[k].removed <= s.levels[l].removed

\* A marked constraint is in the part of the inactive list of the level of its mark.
MarkedListed(s) ==
    \A st \in s.states : s.mark[st] > 0 =>
        \E n \in DOMAIN s.inactive : s.inactive[n] = st /\ AtLevel(s, n, s.mark[st] - 1)

\* What undo finds behind the offset of a level was marked on this level or a higher
\* one, so that nothing that was marked below gets active again.
BehindMarked(s) ==
    \A n \in DOMAIN s.inactive, l \in DOMAIN s.levels :
        s.levels[l].inactive < n => s.mark[s.inactive[n]] > l

\* A constraint is at most once in the parts of the levels above 0. (It may be in the
\* part of level 0 as well, when its mark was cleared and it stayed in the list.)
BehindUnique(s) ==
    \A m, n \in DOMAIN s.inactive, l \in DOMAIN s.levels :
        /\ s.levels[l].inactive < m /\ s.levels[l].inactive < n
        /\ s.inactive[m] = s.inactive[n]
        => m = n

\* A constraint that is not watched is inactive since a level below the one on which
\* its watches were removed.
RemovedMarked(s) ==
    /\ OneToOne(s.removed)
    /\ \A n \in DOMAIN s.removed :
         /\ s.mark[s.removed[n]] \in 1..Len(s.levels)
         /\ \A l \in DOMAIN s.levels : n <= s.levels[l].removed => s.mark[s.removed[n]] < l

\* What holds for each solver by itself in all states.
WellFormed(s) ==
    /\ s \in SolverSet
    /\ Refers(s)
    /\ OffsetsOrdered(s)
    /\ MarkedListed(s)
    /\ BehindMarked(s)
    /\ BehindUnique(s)
    /\ RemovedMarked(s)

\* After a check, until constraints are translated, the flags are those of the todo list.
TodoExact(s) == s.flagged = Elements(s.todo) /\ OneToOne(s.todo)

\* The constraints that have states.
ConsOf(s) == {st.cons : st \in s.states}

\* Type correctness.
TypeInv ==
    /\ step \in Nat /\ pc \in Phases
    /\ kind \in Seq(Kinds) /\ constraints \in Seq(1..Len(kind))
    /\ minimize \in Nat /\ translateMinimize \in BOOLEAN
    /\ idx \in Nat /\ jdx \in Nat
    /\ solvers \in Seq(SolverSet) /\ turn \in 1..Len(solvers)
    /\ status \in {"fresh", "checked", "conflict"}
    /\ numStep \in Int /\ numAccu \in Int
    /\ seen \in Seq(SUBSET Nat) /\ Len(seen) = Len(solvers)

\* A well-formed solver, given the kinds of the constraints: those of objectives never
\* get inactive, which is why they can be removed from the lists of all solvers.
SolverOk(s, k) ==
    /\ WellFormed(s)
    /\ \A st \in s.states : st.cons \in 1..Len(k)
    /\ \A st \in Elements(s.inactive) : k[st.cons] # "minimize"

\* What is propagated or still has to be.
NothingMissed(s, props) ==
    \A st \in s.states : st.cons \in props \/ st \in Elements(s.todo)

\* All solvers are well-formed; levels are open in the one that searches only.
SolversInv ==
    \A t \in DOMAIN solvers :
        /\ SolverOk(solvers[t], kind)
        /\ solvers[t].levels # <<>> => pc \in {"search", "unsat"} /\ t = turn

\* Solvers that searched leave exact todo lists to the next step.
ExactInv ==
    \A t \in DOMAIN solvers :
        \/ pc = "init"
        \/ pc = "search" /\ (t < turn \/ (t = turn /\ status # "fresh"))
        => TodoExact(solvers[t])

\* The list of constraints holds each one once, and of the objectives only the current
\* one. The loop of translate is inside the list.
ListInv ==
    /\ OneToOne(constraints)
    /\ \A c \in Elements(constraints) : kind[c] = "minimize" => c = minimize
    /\ minimize # None /\ pc # "unsat" => minimize \in Elements(constraints) /\ kind[minimize] = "minimize"
    /\ pc = "translate" => 1 <= jdx /\ jdx <= idx /\ idx <= Len(constraints) + 1

\* The first m constraints.
FirstOf(list, m) == {list[n] : n \in 1..m}

\* All constraints have states, also in the solvers of other threads while these are in use.
StatesInv ==
    pc \notin {"translate", "unsat"} =>
        \A t \in DOMAIN solvers : t = 1 \/ pc \in {"init", "search"} =>
            ConsOf(solvers[t]) = Elements(constraints)

\* The statistics count the constraints.
CountInv ==
    pc \notin {"translate", "unsat"} => (numAccu + numStep) % Word = Len(constraints) % Word

\* While constraints are translated, the first m have states.
TranslateInv ==
    pc = "translate" =>
        \E m \in 0..Len(constraints) :
            /\ idx <= m + 1
            /\ ConsOf(solvers[1]) = FirstOf(constraints, m)
            /\ (numAccu + numStep) % Word = (jdx + m - idx) % Word

\* Where the objective is. In the loop of translate, its constraint is among the kept
\* ones, among those to be removed, or among those still to come.
ObjectiveInv ==
    /\ inClasp \union inMinimize = posted
    /\ inClasp # {} => translateMinimize
    /\ pc \in {"parse", "simplify", "minimize"} => minimize = None
    /\ pc \in {"init", "threads", "search"} =>
         /\ minimize # None <=> inMinimize # {}
         /\ translateMinimize => inMinimize = {}
    /\ pc = "translate" /\ minimize = None => inMinimize = {}
    /\ pc = "translate" =>
         \A n \in DOMAIN constraints : constraints[n] = minimize =>
            \/ n < jdx /\ ~ translateMinimize /\ inMinimize # {}
            \/ jdx <= n /\ n < idx /\ translateMinimize /\ inMinimize = {}
            \/ idx <= n /\ inMinimize # {}

\* What was not propagated is on the todo list; nothing is decided before.
SeenInv ==
    pc # "unsat" =>
        \A t \in DOMAIN solvers : t = 1 \/ pc = "search" =>
            /\ NothingMissed(solvers[t], seen[t])
            /\ solvers[t].levels # <<>> => Elements(constraints) \subseteq seen[t]

\* The inductive invariant.
IInv ==
    /\ TypeInv /\ SolversInv /\ ExactInv /\ ListInv /\ StatesInv
    /\ CountInv /\ TranslateInv /\ ObjectiveInv /\ SeenInv

-----------------------------------------------------------------------------
(* Lists.                                                                  *)

\* What a list holds.
LEMMA ElementsOf ==
    ASSUME NEW S, NEW list \in Seq(S)
    PROVE  /\ Len(list) \in Nat /\ DOMAIN list = 1..Len(list)
           /\ Elements(list) \subseteq S
           /\ \A n \in 1..Len(list) : list[n] \in S /\ list[n] \in Elements(list)
           /\ \A x \in Elements(list) : \E n \in 1..Len(list) : list[n] = x
<1>1. Len(list) \in Nat /\ DOMAIN list = 1..Len(list) /\ list \in [1..Len(list) -> S]
  BY LenProperties
<1> QED BY <1>1 DEF Elements

\* Adding at the end.
LEMMA Appended ==
    ASSUME NEW S, NEW list \in Seq(S), NEW x \in S
    PROVE  LET new == Append(list, x) IN
           /\ new \in Seq(S) /\ Len(new) = Len(list) + 1 /\ Len(list) \in Nat
           /\ DOMAIN new = 1..(Len(list) + 1) /\ DOMAIN list = 1..Len(list)
           /\ \A n \in 1..Len(list) : new[n] = list[n]
           /\ new[Len(list) + 1] = x
           /\ Elements(new) = Elements(list) \union {x}
           /\ OneToOne(list) /\ x \notin Elements(list) => OneToOne(new)
<1> DEFINE new == Append(list, x)
<1>1. /\ new \in Seq(S) /\ Len(new) = Len(list) + 1 /\ Len(list) \in Nat
      /\ \A n \in 1..Len(list) : new[n] = list[n]
      /\ new[Len(list) + 1] = x
  BY AppendProperties, LenProperties
<1>2. DOMAIN new = 1..(Len(list) + 1) /\ DOMAIN list = 1..Len(list)
  BY <1>1, LenProperties
<1> HIDE DEF new
<1>3. Elements(new) = Elements(list) \union {x}
  <2>1. \A y \in Elements(new) : y \in Elements(list) \union {x}
    <3> SUFFICES ASSUME NEW n \in 1..(Len(list) + 1)
                 PROVE  new[n] \in Elements(list) \union {x}
      BY <1>2 DEF Elements
    <3>1. CASE n \in 1..Len(list)
      BY <3>1, <1>1, <1>2 DEF Elements
    <3>2. CASE n = Len(list) + 1
      BY <3>2, <1>1
    <3> QED BY <3>1, <3>2, <1>1
  <2>2. \A n \in 1..Len(list) : list[n] \in Elements(new)
    <3> SUFFICES ASSUME NEW n \in 1..Len(list) PROVE list[n] \in Elements(new)
      OBVIOUS
    <3>1. n \in 1..(Len(list) + 1)
      BY <1>1
    <3> QED BY <3>1, <1>1, <1>2 DEF Elements
  <2>3. x \in Elements(new)
    <3>1. Len(list) + 1 \in 1..(Len(list) + 1)
      BY <1>1
    <3> QED BY <3>1, <1>1, <1>2 DEF Elements
  <2> QED BY <2>1, <2>2, <2>3, <1>2 DEF Elements
<1>4. ASSUME OneToOne(list), x \notin Elements(list)
      PROVE  OneToOne(new)
  <2> SUFFICES ASSUME NEW m \in 1..(Len(list) + 1), NEW n \in 1..(Len(list) + 1), new[m] = new[n]
               PROVE  m = n
    BY <1>2 DEF OneToOne
  <2>1. \A k \in 1..Len(list) : new[k] # x
    BY <1>4, <1>1, <1>2 DEF Elements
  <2>2. CASE m = Len(list) + 1 /\ n \in 1..Len(list)
    BY <2>1, <2>2, <1>1
  <2>3. CASE n = Len(list) + 1 /\ m \in 1..Len(list)
    BY <2>1, <2>3, <1>1
  <2>4. CASE m \in 1..Len(list) /\ n \in 1..Len(list)
    BY <2>4, <1>1, <1>2, <1>4 DEF OneToOne
  <2> QED BY <2>2, <2>3, <2>4, <1>1
<1> QED BY <1>1, <1>2, <1>3, <1>4 DEF new

\* Cutting a list to its first k entries.
LEMMA Prefix ==
    ASSUME NEW S, NEW list \in Seq(S), NEW k \in 0..Len(list)
    PROVE  LET new == SubSeq(list, 1, k) IN
           /\ new \in Seq(S) /\ Len(new) = k /\ DOMAIN new = 1..k
           /\ \A n \in 1..k : new[n] = list[n]
           /\ Elements(new) \subseteq Elements(list)
           /\ Elements(list) = Elements(new) \union Behind(list, k)
           /\ OneToOne(list) => OneToOne(new) /\ Elements(new) \intersect Behind(list, k) = {}
<1> DEFINE new == SubSeq(list, 1, k)
<1>1. Len(list) \in Nat /\ k \in Int /\ 0 <= k /\ k <= Len(list) /\ DOMAIN list = 1..Len(list)
  BY LenProperties
<1>2. \A n \in 1..k : list[n] \in S
  BY <1>1, LenProperties
<1>3. new \in Seq(S) /\ Len(new) = (IF 1 <= k THEN k - 1 + 1 ELSE 0) /\ \A n \in 1..(k - 1 + 1) : new[n] = list[1 + n - 1]
  BY <1>1, <1>2, SubSeqProperties
<1>4. Len(new) = k /\ \A n \in 1..k : new[n] = list[n]
  BY <1>1, <1>3
<1>5. DOMAIN new = 1..k
  BY <1>3, <1>4, LenProperties
<1> HIDE DEF new
<1>6. Elements(new) \subseteq Elements(list)
  BY <1>1, <1>4, <1>5 DEF Elements
<1>7. Elements(list) = Elements(new) \union Behind(list, k)
  BY <1>1, <1>4, <1>5 DEF Elements, Behind
<1>8. OneToOne(list) => OneToOne(new) /\ Elements(new) \intersect Behind(list, k) = {}
  BY <1>1, <1>4, <1>5 DEF Elements, Behind, OneToOne
<1> QED BY <1>3, <1>4, <1>5, <1>6, <1>7, <1>8 DEF new

\* The equations of Remaining.
IsRemaining(list, gone, n, g) ==
    g = [i \in 0..n |-> IF i = 0 THEN <<>>
                        ELSE IF list[i] \in gone THEN g[i - 1]
                        ELSE Append(g[i - 1], list[i])]

\* They have a solution with lists as values, by extension of one for n - 1.
LEMMA RemainingExists ==
    ASSUME NEW S, NEW list \in Seq(S), NEW gone
    PROVE  \E g \in [0..Len(list) -> Seq(S)] : IsRemaining(list, gone, Len(list), g)
<1> DEFINE N == Len(list)
           Good(k) == \E g \in [0..k -> Seq(S)] : IsRemaining(list, gone, k, g)
           Bad == {k \in 0..N : ~Good(k)}
<1>1. N \in Nat /\ \A i \in 1..N : list[i] \in S
  BY LenProperties
<1>2. Good(0)
  <2> DEFINE g0 == [i \in 0..0 |-> <<>>]
  <2>1. g0 \in [0..0 -> Seq(S)]
    BY EmptySeq
  <2>2. IsRemaining(list, gone, 0, g0)
    BY DEF IsRemaining
  <2> QED BY <2>1, <2>2
<1>3. ASSUME NEW k \in 1..N, Good(k - 1)
      PROVE  Good(k)
  <2>1. PICK g \in [0..(k - 1) -> Seq(S)] : IsRemaining(list, gone, k - 1, g)
    BY <1>3
  <2> DEFINE last == IF list[k] \in gone THEN g[k - 1] ELSE Append(g[k - 1], list[k])
             h == [i \in 0..k |-> IF i = k THEN last ELSE g[i]]
  <2>2. k - 1 \in 0..(k - 1) /\ g[k - 1] \in Seq(S) /\ list[k] \in S
    BY <1>1
  <2>3. last \in Seq(S)
    BY <2>2, AppendProperties
  <2>4. h \in [0..k -> Seq(S)]
    <3> HIDE DEF last
    <3> QED BY <2>3
  <2>5. \A i \in 0..(k - 1) : g[i] = IF i = 0 THEN <<>> ELSE IF list[i] \in gone THEN g[i - 1]
                                     ELSE Append(g[i - 1], list[i])
    BY <2>1 DEF IsRemaining
  <2>6. ASSUME NEW i \in 0..k
        PROVE  h[i] = IF i = 0 THEN <<>> ELSE IF list[i] \in gone THEN h[i - 1]
                      ELSE Append(h[i - 1], list[i])
    <3>1. CASE i = k
      BY <3>1
    <3>2. CASE i < k
      <4>1. i \in 0..(k - 1)
        BY <3>2
      <4>2. i # 0 => h[i - 1] = g[i - 1]
        BY <3>2
      <4>3. h[i] = g[i]
        BY <3>2
      <4> HIDE DEF h
      <4> QED BY <4>1, <4>2, <4>3, <2>5
    <3> QED BY <3>1, <3>2
  <2>7. IsRemaining(list, gone, k, h)
    <3>1. h = [i \in 0..k |-> h[i]]
      OBVIOUS
    <3> HIDE DEF h
    <3> QED BY <2>6, <3>1 DEF IsRemaining
  <2> QED BY <2>4, <2>7
<1>4. Bad = {}
  <2> SUFFICES ASSUME Bad # {} PROVE FALSE
    OBVIOUS
  <2>1. PICK k \in Bad : \A m \in Bad : k <= m
    <3>1. Bad \subseteq Nat
      OBVIOUS
    <3> HIDE DEF Bad
    <3> QED BY <3>1, LeastNatural
  <2>2. k # 0
    BY <1>2
  <2> HIDE DEF Good
  <2>3. k \in 1..N /\ ~Good(k)
    BY <2>2
  <2>4. k - 1 \in 0..N /\ ~(k <= k - 1)
    BY <2>3, <1>1
  <2>5. Good(k - 1)
    BY <2>1, <2>4
  <2> QED BY <2>3, <2>5, <1>3
<1>5. Good(N)
  <2> HIDE DEF Good
  <2> QED BY <1>1, <1>4
<1> QED BY <1>5

\* Removing states from a list removes all their entries and no others.
LEMMA RemainingElements ==
    ASSUME NEW S, NEW list \in Seq(S), NEW gone
    PROVE  /\ Remaining(list, gone) \in Seq(S)
           /\ Elements(Remaining(list, gone)) = Elements(list) \ gone
<1> DEFINE N == Len(list)
           Is(g) == g = [i \in 0..N |-> IF i = 0 THEN <<>>
                                        ELSE IF list[i] \in gone THEN g[i - 1]
                                        ELSE Append(g[i - 1], list[i])]
           kept == CHOOSE g : Is(g)
<1>1. Remaining(list, gone) = kept[N]
  BY DEF Remaining
<1>2. \E g : Is(g)
  <2>1. PICK g \in [0..Len(list) -> Seq(S)] : IsRemaining(list, gone, Len(list), g)
    BY RemainingExists
  <2>2. Is(g)
    BY <2>1, Zenon DEF IsRemaining
  <2> HIDE DEF Is
  <2> QED BY <2>2
<1>3. Is(kept)
  <2> HIDE DEF Is
  <2> QED BY <1>2
<1>4. N \in Nat /\ DOMAIN list = 1..N /\ \A i \in 1..N : list[i] \in S
  BY LenProperties
<1> HIDE DEF kept
<1>5. \A i \in 0..N : kept[i] = IF i = 0 THEN <<>> ELSE IF list[i] \in gone THEN kept[i - 1]
                                ELSE Append(kept[i - 1], list[i])
  <2> DEFINE f == [i \in 0..N |-> IF i = 0 THEN <<>> ELSE IF list[i] \in gone THEN kept[i - 1]
                                ELSE Append(kept[i - 1], list[i])]
  <2>1. kept = f
    BY <1>3
  <2>2. \A i \in 0..N : f[i] = IF i = 0 THEN <<>> ELSE IF list[i] \in gone THEN kept[i - 1]
                                ELSE Append(kept[i - 1], list[i])
    OBVIOUS
  <2> HIDE DEF f
  <2> QED BY <2>1, <2>2
<1> HIDE DEF Is
<1> DEFINE Good(k) == /\ kept[k] \in Seq(S)
                      /\ Elements(kept[k]) = {list[i] : i \in 1..k} \ gone
           Bad == {k \in 0..N : ~Good(k)}
<1>6. Good(0)
  <2>1. kept[0] = <<>>
    BY <1>4, <1>5
  <2>2. <<>> \in Seq(S) /\ DOMAIN <<>> = {}
    BY EmptySeq
  <2> QED BY <2>1, <2>2 DEF Elements
<1>7. ASSUME NEW k \in 1..N, Good(k - 1)
      PROVE  Good(k)
  <2>1. k \in 0..N /\ k - 1 \in 0..N /\ k # 0
    BY <1>4
  <2>2. kept[k] = IF list[k] \in gone THEN kept[k - 1] ELSE Append(kept[k - 1], list[k])
    BY <1>5, <2>1
  <2>3. {list[i] : i \in 1..k} = {list[i] : i \in 1..(k - 1)} \union {list[k]}
    <3>1. 1..k = (1..(k - 1)) \union {k}
      BY <1>4
    <3> QED BY <3>1
  <2>4. CASE list[k] \in gone
    BY <2>2, <2>3, <2>4, <1>7
  <2>5. CASE list[k] \notin gone
    <3>1. list[k] \in S
      BY <1>4
    <3>2. Append(kept[k - 1], list[k]) \in Seq(S)
      BY <3>1, <1>7, AppendProperties
    <3>3. Elements(Append(kept[k - 1], list[k])) = Elements(kept[k - 1]) \union {list[k]}
      BY <3>1, <1>7, Appended
    <3> QED BY <3>2, <3>3, <2>2, <2>3, <2>5, <1>7
  <2> QED BY <2>4, <2>5
<1>8. Bad = {}
  <2> SUFFICES ASSUME Bad # {} PROVE FALSE
    OBVIOUS
  <2>1. PICK k \in Bad : \A m \in Bad : k <= m
    <3>1. Bad \subseteq Nat
      OBVIOUS
    <3> HIDE DEF Bad
    <3> QED BY <3>1, LeastNatural
  <2>2. k # 0
    BY <1>6
  <2> HIDE DEF Good
  <2>3. k \in 1..N /\ ~Good(k)
    BY <2>2
  <2>4. k - 1 \in 0..N /\ ~(k <= k - 1)
    BY <2>3, <1>4
  <2>5. Good(k - 1)
    BY <2>1, <2>4
  <2> QED BY <2>3, <2>5, <1>7
<1>9. Good(N)
  <2> HIDE DEF Good
  <2> QED BY <1>4, <1>8
<1>10. Elements(list) = {list[i] : i \in 1..N}
  BY <1>4 DEF Elements
<1> HIDE DEF N
<1> QED BY <1>1, <1>9, <1>10

\* Taking the first entry of x out of a list.
LEMMA FirstRemoved ==
    ASSUME NEW S, NEW list \in Seq(S), NEW x \in Elements(list)
    PROVE  LET new == WithoutFirst(list, x) IN
           /\ new \in Seq(S) /\ Len(new) = Len(list) - 1
           /\ Elements(list) \ {x} \subseteq Elements(new)
           /\ Elements(new) \subseteq Elements(list)
           /\ OneToOne(list) => OneToOne(new) /\ Elements(new) = Elements(list) \ {x}
<1> DEFINE Is(k) == list[k] = x /\ \A j \in 1..(k - 1) : list[j] # x
           n == CHOOSE k \in DOMAIN list : Is(k)
           new == WithoutFirst(list, x)
<1>1. Len(list) \in Nat /\ DOMAIN list = 1..Len(list) /\ \A i \in 1..Len(list) : list[i] \in S
  BY LenProperties
<1>2. \E k \in DOMAIN list : Is(k)
  <2> DEFINE At == {k \in DOMAIN list : list[k] = x}
  <2>1. At \subseteq Nat /\ At # {}
    BY <1>1 DEF Elements
  <2>2. PICK k \in At : \A j \in At : k <= j
    <3> HIDE DEF At
    <3> QED BY <2>1, LeastNatural
  <2>3. \A j \in 1..(k - 1) : list[j] # x
    <3> SUFFICES ASSUME NEW j \in 1..(k - 1), list[j] = x PROVE FALSE
      OBVIOUS
    <3>1. j \in At /\ ~(k <= j)
      BY <1>1
    <3> QED BY <3>1, <2>2
  <2> QED BY <2>3
<1>3. n \in 1..Len(list) /\ list[n] = x
  <2>1. n \in DOMAIN list /\ Is(n)
    <3> HIDE DEF Is
    <3> QED BY <1>2
  <2> QED BY <2>1, <1>1
<1>4. new = SubSeq(list, 1, n - 1) \o SubSeq(list, n + 1, Len(list))
  BY DEF WithoutFirst
<1> HIDE DEF n, new
<1> DEFINE a == SubSeq(list, 1, n - 1)
           b == SubSeq(list, n + 1, Len(list))
<1>5. /\ a \in Seq(S) /\ Len(a) = n - 1
      /\ \A i \in 1..(n - 1) : a[i] = list[i]
  <2>1. n - 1 \in 0..Len(list)
    BY <1>1, <1>3
  <2> QED BY <2>1, Prefix
<1>6. /\ b \in Seq(S) /\ Len(b) = Len(list) - n
      /\ \A i \in 1..(Len(list) - n) : b[i] = list[n + i]
  <2>1. \A i \in (n + 1)..Len(list) : list[i] \in S
    BY <1>1, <1>3
  <2>2. /\ b \in Seq(S)
        /\ Len(b) = IF n + 1 <= Len(list) THEN Len(list) - (n + 1) + 1 ELSE 0
        /\ \A i \in 1..(Len(list) - (n + 1) + 1) : b[i] = list[(n + 1) + i - 1]
    BY <2>1, <1>1, <1>3, SubSeqProperties
  <2> HIDE DEF b
  <2>3. Len(b) = Len(list) - n
    <3>1. Len(b) = IF n + 1 <= Len(list) THEN Len(list) - (n + 1) + 1 ELSE 0
      BY <2>2
    <3> DEFINE L == Len(list)
    <3>2. L \in Int /\ n \in Int /\ n <= L
      BY <1>1, <1>3
    <3>3. Len(b) = IF n + 1 <= L THEN L - (n + 1) + 1 ELSE 0
      BY <3>1
    <3> HIDE DEF L
    <3>4. Len(b) = L - n
      BY <3>2, <3>3
    <3> QED BY <3>4 DEF L
  <2>4. \A i \in 1..(Len(list) - n) : b[i] = list[n + i]
    <3> SUFFICES ASSUME NEW i \in 1..(Len(list) - n) PROVE b[i] = list[n + i]
      OBVIOUS
    <3>1. i \in 1..(Len(list) - (n + 1) + 1) /\ (n + 1) + i - 1 = n + i
      BY <1>1, <1>3
    <3> QED BY <3>1, <2>2
  <2> QED BY <2>2, <2>3, <2>4
<1> HIDE DEF a, b
<1>7. /\ new \in Seq(S) /\ Len(new) = Len(a) + Len(b)
      /\ \A i \in 1..(Len(a) + Len(b)) : new[i] = IF i <= Len(a) THEN a[i] ELSE b[i - Len(a)]
  BY <1>4, <1>5, <1>6, ConcatProperties DEF a, b
<1>8. /\ Len(new) = Len(list) - 1 /\ DOMAIN new = 1..(Len(list) - 1)
      /\ \A i \in 1..(Len(list) - 1) : new[i] = IF i < n THEN list[i] ELSE list[i + 1]
  <2>1. Len(new) = Len(list) - 1
    BY <1>1, <1>3, <1>5, <1>6, <1>7
  <2>2. ASSUME NEW i \in 1..(Len(list) - 1)
        PROVE  new[i] = IF i < n THEN list[i] ELSE list[i + 1]
    <3>1. i \in 1..(Len(a) + Len(b))
      BY <1>1, <1>3, <1>5, <1>6
    <3>2. CASE i < n
      <4>1. i <= Len(a) /\ i \in 1..(n - 1)
        BY <3>2, <1>3, <1>5
      <4> QED BY <4>1, <3>1, <3>2, <1>5, <1>7
    <3>3. CASE ~(i < n)
      <4>1. ~(i <= Len(a)) /\ i - Len(a) = i + 1 - n /\ i + 1 - n \in 1..(Len(list) - n) /\ n + (i + 1 - n) = i + 1
        BY <3>3, <1>1, <1>3, <1>5
      <4>2. b[i + 1 - n] = list[n + (i + 1 - n)]
        BY <4>1, <1>6
      <4> QED BY <4>1, <4>2, <3>1, <3>3, <1>7
    <3> QED BY <3>2, <3>3
  <2> QED BY <2>1, <2>2, <1>7, LenProperties
<1>9. Elements(new) \subseteq Elements(list)
  <2> SUFFICES ASSUME NEW i \in 1..(Len(list) - 1) PROVE new[i] \in Elements(list)
    BY <1>8 DEF Elements
  <2>1. i \in 1..Len(list) /\ i + 1 \in 1..Len(list)
    BY <1>1
  <2> QED BY <2>1, <1>1, <1>8 DEF Elements
<1>10. Elements(list) \ {x} \subseteq Elements(new)
  <2> SUFFICES ASSUME NEW i \in 1..Len(list), list[i] # x PROVE list[i] \in Elements(new)
    BY <1>1 DEF Elements
  <2>1. CASE i < n
    <3>1. i \in 1..(Len(list) - 1)
      BY <2>1, <1>1, <1>3
    <3> QED BY <3>1, <2>1, <1>8 DEF Elements
  <2>2. CASE n < i
    <3>1. i - 1 \in 1..(Len(list) - 1) /\ ~(i - 1 < n) /\ (i - 1) + 1 = i
      BY <2>2, <1>1, <1>3
    <3>2. new[i - 1] = list[i]
      BY <3>1, <1>8
    <3> QED BY <3>1, <3>2, <1>8 DEF Elements
  <2> QED BY <2>1, <2>2, <1>1, <1>3
<1>11. ASSUME OneToOne(list)
       PROVE  OneToOne(new) /\ Elements(new) = Elements(list) \ {x}
  <2> DEFINE pos(i) == IF i < n THEN i ELSE i + 1
  <2>1. \A i \in 1..(Len(list) - 1) : pos(i) \in 1..Len(list) /\ pos(i) # n /\ new[i] = list[pos(i)]
    BY <1>1, <1>3, <1>8
  <2>2. \A i, j \in 1..(Len(list) - 1) : pos(i) = pos(j) => i = j
    BY <1>1, <1>3
  <2> HIDE DEF pos
  <2>3. OneToOne(new)
    BY <2>1, <2>2, <1>1, <1>8, <1>11 DEF OneToOne
  <2>4. \A i \in 1..(Len(list) - 1) : new[i] # x
    BY <2>1, <1>1, <1>3, <1>11 DEF OneToOne
  <2>5. x \notin Elements(new)
    BY <2>4, <1>8 DEF Elements
  <2> QED BY <2>3, <2>5, <1>9, <1>10
<1> QED BY <1>7, <1>8, <1>9, <1>10, <1>11 DEF new

-----------------------------------------------------------------------------
(* Operations that change the states of a solver.                          *)

\* The fields of a solver.
LEMMA FieldTypes ==
    ASSUME NEW s \in SolverSet
    PROVE  /\ s.states \subseteq StateSet /\ s.lits \subseteq StateSet /\ s.watches \subseteq StateSet
           /\ s.flagged \subseteq StateSet
           /\ s.removed \in Seq(StateSet) /\ s.todo \in Seq(StateSet) /\ s.inactive \in Seq(StateSet)
           /\ s.levels \in Seq(OffsetSet)
           /\ Len(s.removed) \in Nat /\ DOMAIN s.removed = 1..Len(s.removed)
           /\ Len(s.todo) \in Nat /\ DOMAIN s.todo = 1..Len(s.todo)
           /\ Len(s.inactive) \in Nat /\ DOMAIN s.inactive = 1..Len(s.inactive)
           /\ Len(s.levels) \in Nat /\ DOMAIN s.levels = 1..Len(s.levels)
           /\ \A l \in DOMAIN s.levels : s.levels[l] \in OffsetSet
<1>1. /\ s.states \subseteq StateSet /\ s.lits \subseteq StateSet /\ s.watches \subseteq StateSet
      /\ s.flagged \subseteq StateSet
      /\ s.removed \in Seq(StateSet) /\ s.todo \in Seq(StateSet) /\ s.inactive \in Seq(StateSet)
      /\ s.levels \in Seq(OffsetSet)
  BY DEF SolverSet
<1> QED BY <1>1, LenProperties

\* Two solvers that differ in nothing but their todo lists.
SameTrail(s, r) ==
    /\ r.states = s.states /\ r.lits = s.lits /\ r.watches = s.watches /\ r.mark = s.mark
    /\ r.inactive = s.inactive /\ r.removed = s.removed /\ r.levels = s.levels

\* The todo list matters to its flags only.
LEMMA OtherTodo ==
    ASSUME NEW s, NEW r \in SolverSet, WellFormed(s), SameTrail(s, r),
           Elements(r.todo) \subseteq s.states, r.flagged \subseteq Elements(r.todo)
    PROVE  WellFormed(r)
<1> USE DEF SameTrail
<1>1. Refers(r)
  BY DEF WellFormed, Refers, Listed
<1>2. OffsetsOrdered(r)
  BY DEF WellFormed, OffsetsOrdered
<1>3. MarkedListed(r)
  BY DEF WellFormed, MarkedListed, AtLevel
<1>4. BehindMarked(r) /\ BehindUnique(r) /\ RemovedMarked(r)
  BY DEF WellFormed, BehindMarked, BehindUnique, RemovedMarked
<1> QED BY <1>1, <1>2, <1>3, <1>4 DEF WellFormed

\* mark_todo: what has to be done stays to be done.
LEMMA MarkedTodo ==
    ASSUME NEW s, WellFormed(s), NEW st \in s.states
    PROVE  LET r == MarkTodo(s, st) IN
           /\ WellFormed(r) /\ SameTrail(s, r)
           /\ Elements(s.todo) \subseteq Elements(r.todo)
           /\ TodoExact(s) => TodoExact(r)
           /\ s.mark[st] = 0 => st \in Elements(r.todo)
<1> DEFINE r == MarkTodo(s, st)
<1>1. s \in SolverSet /\ s.todo \in Seq(StateSet) /\ st \in StateSet /\ Elements(s.todo) \subseteq s.states
  BY FieldTypes DEF WellFormed, Refers, Listed
<1>2. CASE s.mark[st] = 0 /\ st \notin s.flagged
  <2> DEFINE a == Append(s.todo, st)
             b == s.flagged \union {st}
  <2>1. a \in Seq(StateSet) /\ Elements(a) = Elements(s.todo) \union {st} /\ b \in SUBSET StateSet
    BY <1>1, Appended, FieldTypes
  <2>2. OneToOne(s.todo) /\ st \notin Elements(s.todo) => OneToOne(a)
    BY <1>1, Appended
  <2>3. r = [s EXCEPT !.todo = a, !.flagged = b]
    BY <1>2 DEF MarkTodo
  <2> HIDE DEF a, r
  <2>4. r \in SolverSet /\ r.todo = a /\ r.flagged = b /\ SameTrail(s, r)
    BY <2>1, <2>3, <1>1 DEF SolverSet, SameTrail
  <2>5. r.flagged \subseteq Elements(r.todo) /\ Elements(r.todo) \subseteq s.states
    BY <2>1, <2>4, <1>1 DEF WellFormed, Refers
  <2>6. WellFormed(r)
    BY <2>4, <2>5, OtherTodo
  <2>7. TodoExact(s) => TodoExact(r)
    BY <2>1, <2>2, <2>4, <1>2 DEF TodoExact
  <2> QED BY <2>1, <2>4, <2>6, <2>7 DEF r
<1>3. CASE ~(s.mark[st] = 0 /\ st \notin s.flagged)
  <2>1. r = s
    BY <1>3 DEF MarkTodo
  <2>2. s.mark[st] = 0 => st \in Elements(s.todo)
    BY <1>3 DEF WellFormed, Refers
  <2> QED BY <2>1, <2>2 DEF SameTrail
<1> QED BY <1>2, <1>3

-----------------------------------------------------------------------------
\* On level 0 nothing is removed from the watches, and marked constraints
\* are in the inactive list.
LEMMA OnTop ==
    ASSUME NEW s, WellFormed(s), s.levels = <<>>
    PROVE  /\ s \in SolverSet /\ Refers(s)
           /\ Len(s.levels) = 0 /\ s.removed = <<>> /\ s.watches = s.states
           /\ \A st \in s.states : s.mark[st] > 0 => s.mark[st] = 1 /\ st \in Elements(s.inactive)
<1>1. s \in SolverSet /\ Refers(s) /\ MarkedListed(s) /\ RemovedMarked(s)
  BY DEF WellFormed
<1>2. Len(s.levels) = 0
  BY EmptySeq
<1>3. s.removed = <<>>
  <2> SUFFICES ASSUME s.removed # <<>> PROVE FALSE
    OBVIOUS
  <2>1. s.removed \in Seq(StateSet) /\ Len(s.removed) \in Nat \ {0} /\ DOMAIN s.removed = 1..Len(s.removed)
    BY <1>1, FieldTypes, EmptySeq
  <2>2. 1 \in DOMAIN s.removed
    BY <2>1
  <2>3. s.mark[s.removed[1]] \in 1..0
    BY <2>2, <1>1, <1>2 DEF RemovedMarked
  <2> QED BY <2>3
<1>4. Elements(<<>>) = {}
  BY DEF Elements
<1>5. s.watches = s.states
  BY <1>1, <1>3, <1>4 DEF Refers
<1>6. ASSUME NEW st \in s.states, s.mark[st] > 0
      PROVE  s.mark[st] = 1 /\ st \in Elements(s.inactive)
  <2>1. PICK n \in DOMAIN s.inactive : s.inactive[n] = st /\ AtLevel(s, n, s.mark[st] - 1)
    BY <1>1, <1>6 DEF MarkedListed
  <2>2. s.mark[st] \in Nat
    BY <1>1 DEF Refers
  <2>3. s.mark[st] - 1 <= 0
    BY <2>1, <1>2 DEF AtLevel
  <2> QED BY <2>1, <2>2, <2>3, <1>6 DEF Elements
<1> QED BY <1>1, <1>2, <1>3, <1>5, <1>6

\* Conversely, this is all there is to a solver on level 0.
LEMMA TopWellFormed ==
    ASSUME NEW s \in SolverSet, s.levels = <<>>, s.removed = <<>>, Refers(s),
           \A st \in s.states : s.mark[st] > 0 => s.mark[st] = 1 /\ st \in Elements(s.inactive)
    PROVE  WellFormed(s)
<1>1. DOMAIN s.levels = {} /\ Len(s.levels) = 0 /\ DOMAIN s.removed = {}
  BY EmptySeq
<1>2. MarkedListed(s)
  <2> SUFFICES ASSUME NEW st \in s.states, s.mark[st] > 0
               PROVE  \E n \in DOMAIN s.inactive : s.inactive[n] = st /\ AtLevel(s, n, s.mark[st] - 1)
    BY DEF MarkedListed
  <2>1. s.mark[st] = 1 /\ st \in Elements(s.inactive)
    OBVIOUS
  <2>2. PICK n \in DOMAIN s.inactive : s.inactive[n] = st
    BY <2>1 DEF Elements
  <2>3. AtLevel(s, n, 0)
    BY <1>1 DEF AtLevel
  <2>4. s.mark[st] - 1 = 0
    BY <2>1
  <2> QED BY <2>2, <2>3, <2>4
<1>3. OffsetsOrdered(s) /\ BehindMarked(s) /\ BehindUnique(s)
  BY <1>1 DEF OffsetsOrdered, BehindMarked, BehindUnique
<1>4. RemovedMarked(s)
  BY <1>1 DEF RemovedMarked, OneToOne
<1> QED BY <1>2, <1>3, <1>4 DEF WellFormed

\* add_constraint: the new state has nothing in the lists but the todo item.
LEMMA StateAdded ==
    ASSUME NEW s, WellFormed(s), s.levels = <<>>, NEW st \in StateSet, \A x \in s.states : x.cons # st.cons
    PROVE  LET r == WithState(s, st) IN
           /\ WellFormed(r) /\ r.levels = <<>> /\ r.inactive = s.inactive
           /\ r.states = s.states \union {st}
           /\ Elements(s.todo) \union {st} \subseteq Elements(r.todo)
           /\ TodoExact(s) => TodoExact(r)
<1> DEFINE m == [x \in s.states \union {st} |-> IF x = st THEN 0 ELSE s.mark[x]]
           base == [s EXCEPT !.states = s.states \union {st}, !.lits = s.lits \union {st},
                             !.watches = s.watches \union {st}, !.mark = m]
<1>1. /\ s \in SolverSet /\ Refers(s) /\ s.removed = <<>> /\ s.watches = s.states
      /\ \A x \in s.states : s.mark[x] > 0 => s.mark[x] = 1 /\ x \in Elements(s.inactive)
  BY OnTop
<1>2. /\ s.states \subseteq StateSet /\ s.mark \in [s.states -> Nat] /\ s.lits = s.states
      /\ st \notin s.states
      /\ s.levels \in Seq(OffsetSet)
  BY <1>1, FieldTypes DEF Refers
<1>3. m \in [s.states \union {st} -> Nat] /\ m \in Marks
  <2>1. m \in [s.states \union {st} -> Nat]
    BY <1>2
  <2>2. s.states \union {st} \in SUBSET StateSet
    BY <1>2
  <2> HIDE DEF m
  <2> QED BY <2>1, <2>2 DEF Marks
<1>4. m[st] = 0 /\ \A x \in s.states : m[x] = s.mark[x]
  BY <1>2
<1>5. WithState(s, st) = MarkTodo(base, st)
  BY DEF WithState
<1> HIDE DEF m
<1>6. /\ base \in SolverSet
      /\ base.states = s.states \union {st} /\ base.lits = s.states \union {st}
      /\ base.watches = s.states \union {st} /\ base.mark = m
      /\ base.removed = s.removed /\ base.todo = s.todo /\ base.flagged = s.flagged
      /\ base.inactive = s.inactive /\ base.levels = s.levels
  BY <1>1, <1>2, <1>3 DEF SolverSet
<1> HIDE DEF base
<1>7. Elements(<<>>) = {}
  BY DEF Elements
<1>8. Refers(base)
  <2>1. base.mark \in [base.states -> Nat]
    BY <1>3, <1>6
  <2>2. Listed(base) \subseteq base.states
    BY <1>1, <1>6 DEF Refers, Listed
  <2>3. base.flagged \subseteq Elements(base.todo)
    BY <1>1, <1>6 DEF Refers
  <2>4. base.watches = base.states \ Elements(base.removed)
    BY <1>1, <1>6, <1>7
  <2>5. \A x, y \in base.states : x.cons = y.cons => x = y
    BY <1>1, <1>6 DEF Refers
  <2> QED BY <2>1, <2>2, <2>3, <2>4, <2>5, <1>6 DEF Refers
<1>9. WellFormed(base)
  <2>1. \A x \in base.states : base.mark[x] > 0 => base.mark[x] = 1 /\ x \in Elements(base.inactive)
    BY <1>1, <1>4, <1>6
  <2> QED BY <2>1, <1>1, <1>6, <1>8, TopWellFormed
<1>10. st \in base.states /\ base.mark[st] = 0 /\ (TodoExact(s) => TodoExact(base))
  BY <1>4, <1>6 DEF TodoExact
<1>11. LET r == MarkTodo(base, st) IN
         /\ WellFormed(r) /\ SameTrail(base, r)
         /\ Elements(base.todo) \subseteq Elements(r.todo)
         /\ TodoExact(base) => TodoExact(r)
         /\ base.mark[st] = 0 => st \in Elements(r.todo)
  BY <1>9, <1>10, MarkedTodo
<1> QED BY <1>5, <1>6, <1>10, <1>11 DEF SameTrail

\* Freeing states takes them out of all sets.
LEMMA FreedFields ==
    ASSUME NEW s \in SolverSet, s.mark \in [s.states -> Nat], NEW gone
    PROVE  LET r == Freed(s, gone) IN
           /\ r \in SolverSet
           /\ r.states = s.states \ gone /\ r.lits = s.lits \ gone /\ r.watches = s.watches \ gone
           /\ r.flagged = s.flagged \ gone
           /\ r.mark \in [s.states \ gone -> Nat] /\ \A x \in s.states \ gone : r.mark[x] = s.mark[x]
           /\ r.todo = s.todo /\ r.inactive = s.inactive /\ r.removed = s.removed /\ r.levels = s.levels
<1> DEFINE r == Freed(s, gone)
           m == [x \in s.states \ gone |-> s.mark[x]]
<1>1. /\ s.states \subseteq StateSet /\ s.lits \subseteq StateSet /\ s.watches \subseteq StateSet
      /\ s.flagged \subseteq StateSet
  BY FieldTypes
<1>2. m \in [s.states \ gone -> Nat] /\ (\A x \in s.states \ gone : m[x] = s.mark[x]) /\ m \in Marks
  <2>1. m \in [s.states \ gone -> Nat] /\ \A x \in s.states \ gone : m[x] = s.mark[x]
    OBVIOUS
  <2>2. s.states \ gone \in SUBSET StateSet
    BY <1>1
  <2> HIDE DEF m
  <2> QED BY <2>1, <2>2 DEF Marks
<1>3. r = [s EXCEPT !.states = s.states \ gone, !.lits = s.lits \ gone, !.watches = s.watches \ gone,
                    !.flagged = s.flagged \ gone, !.mark = m]
  BY DEF Freed
<1> HIDE DEF r, m
<1>4. /\ r \in SolverSet
      /\ r.states = s.states \ gone /\ r.lits = s.lits \ gone /\ r.watches = s.watches \ gone
      /\ r.flagged = s.flagged \ gone /\ r.mark = m
      /\ r.todo = s.todo /\ r.inactive = s.inactive /\ r.removed = s.removed /\ r.levels = s.levels
  BY <1>1, <1>2, <1>3 DEF SolverSet
<1> QED BY <1>2, <1>4 DEF r

\* remove_constraint: a state that is not marked as inactive, in a solver whose flags
\* are exact, leaves no reference behind.
LEMMA StateRemoved ==
    ASSUME NEW s, WellFormed(s), TodoExact(s), s.levels = <<>>,
           NEW st \in s.states, st \notin Elements(s.inactive)
    PROVE  LET r == WithoutState(s, st) IN
           /\ WellFormed(r) /\ r.levels = <<>> /\ r.inactive = s.inactive
           /\ r.states = s.states \ {st}
           /\ Elements(r.todo) = Elements(s.todo) \ {st}
<1> DEFINE list == IF st \in s.flagged THEN WithoutFirst(s.todo, st) ELSE s.todo
           mid == [s EXCEPT !.inactive = s.inactive, !.todo = list]
           r == WithoutState(s, st)
<1>1. /\ s \in SolverSet /\ Refers(s) /\ s.removed = <<>> /\ s.watches = s.states
      /\ \A x \in s.states : s.mark[x] > 0 => s.mark[x] = 1 /\ x \in Elements(s.inactive)
  BY OnTop
<1>2. /\ s.todo \in Seq(StateSet) /\ s.inactive \in Seq(StateSet) /\ s.mark \in [s.states -> Nat]
      /\ s.flagged = Elements(s.todo) /\ OneToOne(s.todo) /\ ~(s.mark[st] > 0)
  BY <1>1, FieldTypes DEF Refers, TodoExact
<1>3. list \in Seq(StateSet) /\ Elements(list) = Elements(s.todo) \ {st}
  <2>1. CASE st \in s.flagged
    BY <2>1, <1>2, FirstRemoved
  <2>2. CASE st \notin s.flagged
    BY <2>2, <1>2
  <2> QED BY <2>1, <2>2
<1>4. r = Freed(mid, {st})
  BY <1>2 DEF WithoutState
<1> HIDE DEF list
<1>5. /\ mid \in SolverSet
      /\ mid.states = s.states /\ mid.lits = s.lits /\ mid.watches = s.watches /\ mid.mark = s.mark
      /\ mid.removed = s.removed /\ mid.todo = list /\ mid.flagged = s.flagged
      /\ mid.inactive = s.inactive /\ mid.levels = s.levels
  BY <1>1, <1>2, <1>3 DEF SolverSet
<1> HIDE DEF mid
<1>6. /\ r \in SolverSet
      /\ r.states = s.states \ {st} /\ r.lits = s.lits \ {st} /\ r.watches = s.watches \ {st}
      /\ r.flagged = s.flagged \ {st}
      /\ r.mark \in [s.states \ {st} -> Nat] /\ (\A x \in s.states \ {st} : r.mark[x] = s.mark[x])
      /\ r.todo = list /\ r.inactive = s.inactive /\ r.removed = s.removed /\ r.levels = s.levels
  <2>1. mid.mark \in [mid.states -> Nat]
    BY <1>2, <1>5
  <2> HIDE DEF r
  <2>2. LET q == Freed(mid, {st}) IN
        /\ q \in SolverSet
        /\ q.states = mid.states \ {st} /\ q.lits = mid.lits \ {st} /\ q.watches = mid.watches \ {st}
        /\ q.flagged = mid.flagged \ {st}
        /\ q.mark \in [mid.states \ {st} -> Nat] /\ \A x \in mid.states \ {st} : q.mark[x] = mid.mark[x]
        /\ q.todo = mid.todo /\ q.inactive = mid.inactive /\ q.removed = mid.removed /\ q.levels = mid.levels
    BY <2>1, <1>5, FreedFields
  <2> QED BY <2>2, <1>4, <1>5
<1> HIDE DEF r
<1>7. Elements(<<>>) = {}
  BY DEF Elements
<1>8. Refers(r)
  <2>1. Listed(r) \subseteq r.states
    BY <1>1, <1>3, <1>6, <1>7 DEF Refers, Listed
  <2>2. r.flagged \subseteq Elements(r.todo)
    BY <1>2, <1>3, <1>6
  <2>3. r.watches = r.states \ Elements(r.removed)
    BY <1>1, <1>6, <1>7
  <2>4. r.lits = r.states /\ \A x, y \in r.states : x.cons = y.cons => x = y
    BY <1>1, <1>6 DEF Refers
  <2> QED BY <2>1, <2>2, <2>3, <2>4, <1>6 DEF Refers
<1>9. \A x \in r.states : r.mark[x] > 0 => r.mark[x] = 1 /\ x \in Elements(r.inactive)
  BY <1>1, <1>6
<1>10. WellFormed(r)
  BY <1>1, <1>6, <1>8, <1>9, TopWellFormed
<1> QED BY <1>3, <1>6, <1>10 DEF r

\* remove_constraints: all marks and flags are cleared, and no list refers to
\* the states that are removed.
LEMMA StatesRemoved ==
    ASSUME NEW s, WellFormed(s), s.levels = <<>>, NEW gone
    PROVE  LET r == WithoutStates(s, gone) IN
           /\ WellFormed(r) /\ r.levels = <<>>
           /\ Elements(r.inactive) = Elements(s.inactive) \ gone
           /\ r.states = s.states \ gone
           /\ Elements(r.todo) = Elements(s.todo) \ gone
<1> DEFINE m == [x \in s.states |-> IF x \in Elements(s.inactive) THEN 0 ELSE s.mark[x]]
           a == Remaining(s.inactive, gone)
           b == Remaining(s.todo, gone)
           mid == [s EXCEPT !.inactive = a, !.mark = m, !.todo = b, !.flagged = s.flagged \ Elements(s.todo)]
           r == WithoutStates(s, gone)
<1>1. /\ s \in SolverSet /\ Refers(s) /\ s.removed = <<>> /\ s.watches = s.states
      /\ \A x \in s.states : s.mark[x] > 0 => s.mark[x] = 1 /\ x \in Elements(s.inactive)
  BY OnTop
<1>2. /\ s.todo \in Seq(StateSet) /\ s.inactive \in Seq(StateSet) /\ s.mark \in [s.states -> Nat]
      /\ s.flagged \subseteq Elements(s.todo) /\ s.states \subseteq StateSet
  BY <1>1, FieldTypes DEF Refers
<1>3. m \in [s.states -> Nat] /\ m \in Marks /\ \A x \in s.states : m[x] = 0
  <2>1. m \in [s.states -> Nat] /\ \A x \in s.states : m[x] = 0
    BY <1>1, <1>2
  <2> HIDE DEF m
  <2> QED BY <2>1, <1>2 DEF Marks
<1>4. /\ a \in Seq(StateSet) /\ Elements(a) = Elements(s.inactive) \ gone
      /\ b \in Seq(StateSet) /\ Elements(b) = Elements(s.todo) \ gone
  BY <1>2, RemainingElements
<1>5. r = Freed(mid, gone)
  BY DEF WithoutStates
<1> HIDE DEF m, a, b
<1>6. s.flagged \ Elements(s.todo) = {}
  BY <1>2
<1>7. /\ mid \in SolverSet
      /\ mid.states = s.states /\ mid.lits = s.lits /\ mid.watches = s.watches /\ mid.mark = m
      /\ mid.removed = s.removed /\ mid.todo = b /\ mid.flagged = {}
      /\ mid.inactive = a /\ mid.levels = s.levels
  BY <1>1, <1>3, <1>4, <1>6 DEF SolverSet
<1> HIDE DEF mid
<1>8. /\ r \in SolverSet
      /\ r.states = s.states \ gone /\ r.lits = s.lits \ gone /\ r.watches = s.watches \ gone
      /\ r.flagged = {}
      /\ r.mark \in [s.states \ gone -> Nat] /\ (\A x \in s.states \ gone : r.mark[x] = 0)
      /\ r.todo = b /\ r.inactive = a /\ r.removed = s.removed /\ r.levels = s.levels
  <2>1. mid.mark \in [mid.states -> Nat]
    BY <1>3, <1>7
  <2> HIDE DEF r
  <2>2. LET q == Freed(mid, gone) IN
        /\ q \in SolverSet
        /\ q.states = mid.states \ gone /\ q.lits = mid.lits \ gone /\ q.watches = mid.watches \ gone
        /\ q.flagged = mid.flagged \ gone
        /\ q.mark \in [mid.states \ gone -> Nat] /\ \A x \in mid.states \ gone : q.mark[x] = mid.mark[x]
        /\ q.todo = mid.todo /\ q.inactive = mid.inactive /\ q.removed = mid.removed /\ q.levels = mid.levels
    BY <2>1, <1>7, FreedFields
  <2> QED BY <2>2, <1>3, <1>5, <1>7
<1> HIDE DEF r
<1>9. Elements(<<>>) = {}
  BY DEF Elements
<1>10. Refers(r)
  <2>1. Listed(r) \subseteq r.states
    BY <1>1, <1>4, <1>8, <1>9 DEF Refers, Listed
  <2>2. r.watches = r.states \ Elements(r.removed)
    BY <1>1, <1>8, <1>9
  <2>3. r.lits = r.states /\ \A x, y \in r.states : x.cons = y.cons => x = y
    BY <1>1, <1>8 DEF Refers
  <2> QED BY <2>1, <2>2, <2>3, <1>8 DEF Refers
<1>11. \A x \in r.states : ~(r.mark[x] > 0)
  BY <1>8
<1>12. WellFormed(r)
  BY <1>1, <1>8, <1>10, <1>11, TopWellFormed
<1> QED BY <1>4, <1>8, <1>12 DEF r

\* The list of a copy refers to the copies of the states.
LEMMA OwnedList ==
    ASSUME NEW t \in Nat, step \in Nat, NEW list \in Seq(StateSet)
    PROVE  /\ OwnList(t, list) \in Seq(StateSet)
           /\ Elements(OwnList(t, list)) = {Own(t, x) : x \in Elements(list)}
<1> DEFINE N == Len(list)
           new == OwnList(t, list)
<1>1. N \in Nat /\ DOMAIN list = 1..N /\ \A n \in 1..N : list[n] \in StateSet
  BY LenProperties
<1>2. \A x \in StateSet : Own(t, x) \in StateSet
  BY DEF Own, StateSet
<1>3. new = [n \in 1..N |-> Own(t, list[n])]
  BY <1>1 DEF OwnList
<1> HIDE DEF N
<1>4. new \in [1..N -> StateSet]
  BY <1>1, <1>2, <1>3
<1>5. new \in Seq(StateSet)
  BY <1>1, <1>4
<1>6. Elements(new) = {Own(t, x) : x \in Elements(list)}
  BY <1>1, <1>3 DEF Elements
<1> QED BY <1>5, <1>6

\* copy_state, on level 0: the copy is like the master but for the states.
LEMMA Copied ==
    ASSUME NEW s, WellFormed(s), s.levels = <<>>, NEW t \in Nat, step \in Nat
    PROVE  LET r == CopyTo(t, s) IN
           /\ WellFormed(r) /\ r.levels = <<>>
           /\ r.states = {Own(t, x) : x \in s.states}
           /\ Elements(r.inactive) = {Own(t, x) : x \in Elements(s.inactive)}
           /\ Elements(r.todo) = {Own(t, x) : x \in Elements(s.todo)}
<1> DEFINE OwnSet(S) == {Own(t, st) : st \in S}
           From(st) == CHOOSE x \in s.states : Own(t, x) = st
           m == [st \in OwnSet(s.states) |-> s.mark[From(st)]]
           r == CopyTo(t, s)
<1>1. /\ s \in SolverSet /\ Refers(s) /\ s.removed = <<>> /\ s.watches = s.states
      /\ \A x \in s.states : s.mark[x] > 0 => s.mark[x] = 1 /\ x \in Elements(s.inactive)
  BY OnTop
<1>2. /\ s.todo \in Seq(StateSet) /\ s.inactive \in Seq(StateSet) /\ s.mark \in [s.states -> Nat]
      /\ s.flagged \subseteq Elements(s.todo) /\ s.states \subseteq StateSet
      /\ s.levels \in Seq(OffsetSet)
  BY <1>1, FieldTypes DEF Refers
<1>3. \A x \in StateSet : Own(t, x) \in StateSet /\ Own(t, x).cons = x.cons
  BY DEF Own, StateSet
<1>4. \A x, y \in s.states : Own(t, x) = Own(t, y) => x = y
  <2> SUFFICES ASSUME NEW x \in s.states, NEW y \in s.states, Own(t, x) = Own(t, y)
               PROVE  x = y
    OBVIOUS
  <2>1. x.cons = y.cons
    BY <1>2, <1>3
  <2> QED BY <2>1, <1>1 DEF Refers
<1>5. \A x \in s.states : From(Own(t, x)) = x
  BY <1>4
<1>6. m \in [OwnSet(s.states) -> Nat] /\ m \in Marks /\ \A x \in s.states : m[Own(t, x)] = s.mark[x]
  <2>1. \A x \in s.states : Own(t, x) \in OwnSet(s.states)
    OBVIOUS
  <2>2. \A y \in OwnSet(s.states) : s.mark[From(y)] \in Nat
    <3> SUFFICES ASSUME NEW x \in s.states PROVE s.mark[From(Own(t, x))] \in Nat
      OBVIOUS
    <3> HIDE DEF From
    <3> QED BY <1>2, <1>5
  <2>3. OwnSet(s.states) \in SUBSET StateSet
    BY <1>2, <1>3
  <2> HIDE DEF From, OwnSet
  <2>4. m \in [OwnSet(s.states) -> Nat]
    BY <2>2
  <2>5. \A x \in s.states : m[Own(t, x)] = s.mark[x]
    BY <2>1, <1>5
  <2> HIDE DEF m
  <2> QED BY <2>3, <2>4, <2>5 DEF Marks
<1>7. /\ OwnList(t, s.todo) \in Seq(StateSet) /\ OwnList(t, s.inactive) \in Seq(StateSet)
      /\ Elements(OwnList(t, s.todo)) = OwnSet(Elements(s.todo))
      /\ Elements(OwnList(t, s.inactive)) = OwnSet(Elements(s.inactive))
  BY <1>2, OwnedList
<1>8. OwnList(t, s.removed) = <<>>
  <2>1. <<>> \in Seq(StateSet)
    BY EmptySeq
  <2>2. OwnList(t, <<>>) \in Seq(StateSet) /\ Elements(OwnList(t, <<>>)) = OwnSet(Elements(<<>>))
    BY <2>1, OwnedList
  <2>3. DOMAIN OwnList(t, <<>>) = {}
    BY DEF OwnList
  <2>4. Len(OwnList(t, <<>>)) = 0
    <3> HIDE DEF OwnSet
    <3>1. DOMAIN OwnList(t, <<>>) = 1..Len(OwnList(t, <<>>)) /\ Len(OwnList(t, <<>>)) \in Nat
      BY <2>2, LenProperties
    <3> QED BY <3>1, <2>3
  <2> QED BY <2>2, <2>4, <1>1, EmptySeq
<1>9. OwnSet(s.states) \subseteq StateSet /\ OwnSet(s.flagged) \subseteq OwnSet(Elements(s.todo))
      /\ OwnSet(Elements(s.todo)) \subseteq OwnSet(s.states)
      /\ OwnSet(Elements(s.inactive)) \subseteq OwnSet(s.states)
  BY <1>1, <1>2, <1>3 DEF Refers, Listed
<1>10. r = [s EXCEPT !.states = OwnSet(s.states), !.lits = OwnSet(s.states), !.watches = OwnSet(s.watches),
                     !.removed = OwnList(t, s.removed), !.inactive = OwnList(t, s.inactive),
                     !.todo = OwnList(t, s.todo), !.flagged = OwnSet(s.flagged), !.mark = m]
  BY DEF CopyTo, TodoOfCopy
<1> DEFINE states == OwnSet(s.states)
           flags == OwnSet(s.flagged)
           todo == OwnList(t, s.todo)
           inactive == OwnList(t, s.inactive)
<1>11. r = [s EXCEPT !.states = states, !.lits = states, !.watches = states,
                     !.removed = <<>>, !.inactive = inactive,
                     !.todo = todo, !.flagged = flags, !.mark = m]
  <2>1. OwnSet(s.watches) = states
    BY <1>1
  <2> QED BY <2>1, <1>8, <1>10
<1>12. /\ states \subseteq StateSet /\ flags \subseteq StateSet /\ m \in Marks
       /\ todo \in Seq(StateSet) /\ inactive \in Seq(StateSet) /\ <<>> \in Seq(StateSet)
       /\ flags \subseteq Elements(todo) /\ Elements(todo) \subseteq states /\ Elements(inactive) \subseteq states
  <2>1. <<>> \in Seq(StateSet)
    BY EmptySeq
  <2> HIDE DEF OwnSet, m
  <2> QED BY <2>1, <1>6, <1>7, <1>9
<1>13. \A x, y \in states : x.cons = y.cons => x = y
  <2> SUFFICES ASSUME NEW x \in s.states, NEW y \in s.states, Own(t, x).cons = Own(t, y).cons
               PROVE  Own(t, x) = Own(t, y)
    OBVIOUS
  <2> QED BY <1>1, <1>2, <1>3 DEF Refers
<1>14. \A y \in states : m[y] > 0 => m[y] = 1 /\ y \in Elements(inactive)
  <2> SUFFICES ASSUME NEW x \in s.states, m[Own(t, x)] > 0
               PROVE  m[Own(t, x)] = 1 /\ Own(t, x) \in Elements(inactive)
    OBVIOUS
  <2>1. s.mark[x] = 1 /\ x \in Elements(s.inactive)
    <3> HIDE DEF m
    <3> QED BY <1>1, <1>6
  <2> HIDE DEF m
  <2> QED BY <2>1, <1>6, <1>7
<1>15. m \in [states -> Nat] /\ Elements(todo) = {Own(t, x) : x \in Elements(s.todo)}
       /\ Elements(inactive) = {Own(t, x) : x \in Elements(s.inactive)}
       /\ states = {Own(t, x) : x \in s.states}
  <2> HIDE DEF m
  <2> QED BY <1>6, <1>7
<1> HIDE DEF states, flags, todo, inactive, m, OwnSet
<1>16. /\ r \in SolverSet /\ r.states = states /\ r.lits = states /\ r.watches = states
       /\ r.removed = <<>> /\ r.inactive = inactive /\ r.todo = todo /\ r.flagged = flags /\ r.mark = m
       /\ r.levels = <<>>
  <2> HIDE DEF r
  <2> QED BY <1>1, <1>11, <1>12 DEF SolverSet
<1> HIDE DEF r
<1>17. Refers(r)
  <2>1. Elements(<<>>) = {}
    BY DEF Elements
  <2>2. Listed(r) \subseteq r.states
    BY <2>1, <1>12, <1>16 DEF Listed
  <2>3. r.watches = r.states \ Elements(r.removed)
    BY <2>1, <1>16
  <2> QED BY <2>2, <2>3, <1>12, <1>13, <1>15, <1>16 DEF Refers
<1>18. WellFormed(r)
  BY <1>14, <1>16, <1>17, TopWellFormed
<1> QED BY <1>15, <1>16, <1>18 DEF r

-----------------------------------------------------------------------------
(* Operations of the search.                                               *)

\* The offsets of the levels.
LEMMA OffsetTypes ==
    ASSUME NEW s \in SolverSet
    PROVE  \A l \in 1..Len(s.levels) : s.levels[l].inactive \in Nat /\ s.levels[l].removed \in Nat
<1>1. \A l \in 1..Len(s.levels) : s.levels[l] \in OffsetSet
  BY FieldTypes
<1> QED BY <1>1 DEF OffsetSet

\* Marking a constraint as inactive on the current level.
LEMMA InactiveMarked ==
    ASSUME NEW s, WellFormed(s), NEW st \in s.states, s.mark[st] = 0
    PROVE  LET r == MarkInactive(s, st) IN
           /\ WellFormed(r) /\ r.states = s.states /\ r.levels = s.levels /\ r.todo = s.todo /\ r.flagged = s.flagged
           /\ Elements(r.inactive) = Elements(s.inactive) \union {st}
<1> DEFINE L == Len(s.levels)
           N == Len(s.inactive)
           a == Append(s.inactive, st)
           m == [s.mark EXCEPT ![st] = L + 1]
           r == MarkInactive(s, st)
<1>1. /\ s \in SolverSet /\ Refers(s) /\ OffsetsOrdered(s) /\ MarkedListed(s)
      /\ BehindMarked(s) /\ BehindUnique(s) /\ RemovedMarked(s)
  BY DEF WellFormed
<1>2. /\ s.states \subseteq StateSet /\ s.mark \in [s.states -> Nat] /\ s.inactive \in Seq(StateSet)
      /\ L \in Nat /\ N \in Nat /\ DOMAIN s.levels = 1..L /\ DOMAIN s.inactive = 1..N
      /\ \A l \in 1..L : s.levels[l].inactive \in Nat /\ s.levels[l].removed \in Nat
  BY <1>1, FieldTypes, OffsetTypes DEF Refers
<1>3. /\ a \in Seq(StateSet) /\ Len(a) = N + 1 /\ DOMAIN a = 1..(N + 1)
      /\ (\A n \in 1..N : a[n] = s.inactive[n]) /\ a[N + 1] = st
      /\ Elements(a) = Elements(s.inactive) \union {st}
  BY <1>2, Appended
<1>4. /\ m \in [s.states -> Nat] /\ m \in Marks
      /\ m[st] = L + 1 /\ \A x \in s.states : x # st => m[x] = s.mark[x]
  <2>1. m \in [s.states -> Nat] /\ m[st] = L + 1 /\ \A x \in s.states : x # st => m[x] = s.mark[x]
    BY <1>2
  <2> HIDE DEF m
  <2> QED BY <2>1, <1>2 DEF Marks
<1>5. r = [s EXCEPT !.inactive = a, !.mark = m]
  <2>1. r = [s EXCEPT !.inactive = a, !.mark[st] = L + 1]
    BY DEF MarkInactive, LevelOf
  <2> HIDE DEF r, a, L
  <2> QED BY <2>1, <1>1 DEF SolverSet
<1> HIDE DEF r, a, m, L, N
<1>6. /\ r \in SolverSet /\ r.states = s.states /\ r.lits = s.lits /\ r.watches = s.watches
      /\ r.removed = s.removed /\ r.todo = s.todo /\ r.flagged = s.flagged
      /\ r.inactive = a /\ r.mark = m /\ r.levels = s.levels
  BY <1>1, <1>3, <1>4, <1>5 DEF SolverSet
<1>7. Refers(r)
  <2>1. Listed(r) \subseteq r.states
    BY <1>1, <1>3, <1>6 DEF Refers, Listed
  <2> QED BY <2>1, <1>1, <1>4, <1>6 DEF Refers
<1>8. OffsetsOrdered(r)
  <2>1. \A l \in 1..L : s.levels[l].inactive <= N + 1
    <3>1. \A l \in 1..L : s.levels[l].inactive <= N
      BY <1>1, <1>2 DEF OffsetsOrdered, N
    <3> QED BY <3>1, <1>2
  <2> QED BY <2>1, <1>1, <1>2, <1>3, <1>6 DEF OffsetsOrdered
<1>9. MarkedListed(r)
  <2> SUFFICES ASSUME NEW x \in s.states, m[x] > 0
               PROVE  \E n \in 1..(N + 1) : a[n] = x /\ AtLevel(r, n, m[x] - 1)
    BY <1>3, <1>6 DEF MarkedListed
  <2>1. CASE x = st
    <3>1. N + 1 \in 1..(N + 1) /\ m[x] - 1 = L
      BY <2>1, <1>2, <1>4
    <3>2. \A l \in 1..L : s.levels[l].inactive < N + 1 /\ l <= L
      BY <1>1, <1>2 DEF OffsetsOrdered, N
    <3>3. AtLevel(r, N + 1, L)
      BY <3>2, <1>2, <1>6 DEF AtLevel, L
    <3> QED BY <3>1, <3>3, <2>1, <1>3
  <2>2. CASE x # st
    <3>1. m[x] = s.mark[x]
      BY <2>2, <1>4
    <3>2. PICK n \in 1..N : s.inactive[n] = x /\ AtLevel(s, n, s.mark[x] - 1)
      BY <3>1, <1>1, <1>2 DEF MarkedListed
    <3>3. n \in 1..(N + 1)
      BY <1>2
    <3>4. AtLevel(r, n, s.mark[x] - 1)
      BY <3>2, <1>6 DEF AtLevel
    <3> QED BY <3>1, <3>2, <3>3, <3>4, <1>3
  <2> QED BY <2>1, <2>2
<1>10. \A n \in 1..N, l \in 1..L : s.levels[l].inactive < n => s.inactive[n] # st
  <2> SUFFICES ASSUME NEW n \in 1..N, NEW l \in 1..L, s.levels[l].inactive < n, s.inactive[n] = st
               PROVE  FALSE
    OBVIOUS
  <2>1. s.mark[s.inactive[n]] > l
    BY <1>1, <1>2 DEF BehindMarked
  <2> QED BY <2>1, <1>2
<1>11. BehindMarked(r)
  <2> SUFFICES ASSUME NEW n \in 1..(N + 1), NEW l \in 1..L, s.levels[l].inactive < n
               PROVE  m[a[n]] > l
    BY <1>2, <1>3, <1>6 DEF BehindMarked
  <2>1. CASE n = N + 1
    BY <2>1, <1>2, <1>3, <1>4
  <2>2. CASE n \in 1..N
    <3>1. s.inactive[n] # st /\ s.mark[s.inactive[n]] > l
      BY <2>2, <1>1, <1>2, <1>10 DEF BehindMarked
    <3>2. s.inactive[n] \in s.states
      BY <2>2, <1>1, <1>2 DEF Refers, Listed, Elements
    <3> QED BY <3>1, <3>2, <2>2, <1>3, <1>4
  <2> QED BY <2>1, <2>2, <1>2
<1>12. BehindUnique(r)
  <2> SUFFICES ASSUME NEW i \in 1..(N + 1), NEW n \in 1..(N + 1), NEW l \in 1..L,
                      s.levels[l].inactive < i, s.levels[l].inactive < n, a[i] = a[n]
               PROVE  i = n
    BY <1>2, <1>3, <1>6 DEF BehindUnique
  <2>1. CASE i \in 1..N /\ n \in 1..N
    BY <2>1, <1>1, <1>2, <1>3 DEF BehindUnique
  <2>2. CASE i = N + 1 /\ n \in 1..N
    BY <2>2, <1>3, <1>10
  <2>3. CASE n = N + 1 /\ i \in 1..N
    BY <2>3, <1>3, <1>10
  <2> QED BY <2>1, <2>2, <2>3, <1>2
<1>13. RemovedMarked(r)
  <2>1. \A n \in DOMAIN s.removed : s.removed[n] \in s.states
    BY <1>1 DEF Refers, Listed, Elements
  <2>2. \A n \in DOMAIN s.removed : s.mark[s.removed[n]] \in 1..L
    BY <1>1 DEF RemovedMarked, L
  <2>3. \A n \in DOMAIN s.removed : s.removed[n] # st
    BY <2>2
  <2>4. \A n \in DOMAIN s.removed : m[s.removed[n]] = s.mark[s.removed[n]]
    BY <2>1, <2>3, <1>4
  <2> QED BY <2>4, <1>1, <1>6 DEF RemovedMarked
<1>14. WellFormed(r)
  BY <1>6, <1>7, <1>8, <1>9, <1>11, <1>12, <1>13 DEF WellFormed
<1> QED BY <1>3, <1>6, <1>14 DEF r

\* check: at most one constraint that was processed gets inactive.
LEMMA Checked ==
    ASSUME NEW s, WellFormed(s), NEW n, NEW r \in CheckedStates(s, n)
    PROVE  /\ WellFormed(r) /\ r.states = s.states /\ r.levels = s.levels
           /\ TodoExact(r)
           /\ Elements(r.inactive) \subseteq Elements(s.inactive) \union {x \in s.states : Removable(x.cons)}
<1> DEFINE done == [s EXCEPT !.flagged = s.flagged \ Elements(s.todo), !.todo = <<>>]
<1>1. r = done \/ \E x \in Processed(s, n) : Removable(x.cons) /\ s.mark[x] = 0 /\ r = MarkInactive(done, x)
  BY DEF CheckedStates
<1>2. s \in SolverSet /\ Refers(s)
  BY DEF WellFormed
<1>3. /\ s.flagged \ Elements(s.todo) = {} /\ <<>> \in Seq(StateSet)
      /\ Elements(<<>>) = {} /\ OneToOne(<<>>)
  BY <1>2, EmptySeq DEF Refers, Elements, OneToOne
<1>4. done \in SolverSet /\ SameTrail(s, done) /\ done.todo = <<>> /\ done.flagged = {}
  BY <1>2, <1>3 DEF SolverSet, SameTrail
<1> HIDE DEF done
<1>5. WellFormed(done)
  BY <1>3, <1>4, OtherTodo
<1>6. CASE r = done
  BY <1>3, <1>4, <1>5, <1>6 DEF TodoExact, SameTrail
<1>7. ASSUME NEW x \in Processed(s, n), Removable(x.cons), s.mark[x] = 0, r = MarkInactive(done, x)
      PROVE  /\ WellFormed(r) /\ r.states = s.states /\ r.levels = s.levels
             /\ TodoExact(r)
             /\ Elements(r.inactive) \subseteq Elements(s.inactive) \union {y \in s.states : Removable(y.cons)}
  <2>1. x \in done.states /\ done.mark[x] = 0
    BY <1>2, <1>4, <1>7 DEF Refers, Listed, Elements, Processed, SameTrail
  <2>2. LET q == MarkInactive(done, x) IN
        /\ WellFormed(q) /\ q.states = done.states /\ q.levels = done.levels /\ q.todo = done.todo /\ q.flagged = done.flagged
        /\ Elements(q.inactive) = Elements(done.inactive) \union {x}
    BY <2>1, <1>5, InactiveMarked
  <2> QED BY <2>1, <2>2, <1>3, <1>4, <1>7 DEF TodoExact, SameTrail
<1> QED BY <1>1, <1>6, <1>7

\* Opening a level.
LEMMA PushedLevel ==
    ASSUME NEW s, WellFormed(s)
    PROVE  LET r == Pushed(s) IN
           /\ WellFormed(r) /\ r.states = s.states /\ r.inactive = s.inactive
           /\ r.todo = s.todo /\ r.flagged = s.flagged
<1> DEFINE L == Len(s.levels)
           off == [inactive |-> Len(s.inactive), removed |-> Len(s.removed)]
           a == Append(s.levels, off)
           r == Pushed(s)
<1>1. /\ s \in SolverSet /\ Refers(s) /\ OffsetsOrdered(s) /\ MarkedListed(s)
      /\ BehindMarked(s) /\ BehindUnique(s) /\ RemovedMarked(s)
  BY DEF WellFormed
<1>2. /\ s.levels \in Seq(OffsetSet) /\ L \in Nat /\ DOMAIN s.levels = 1..L
      /\ Len(s.inactive) \in Nat /\ DOMAIN s.inactive = 1..Len(s.inactive)
      /\ Len(s.removed) \in Nat /\ DOMAIN s.removed = 1..Len(s.removed)
      /\ \A l \in 1..L : s.levels[l].inactive \in Nat /\ s.levels[l].removed \in Nat
  BY <1>1, FieldTypes, OffsetTypes
<1>3. off \in OffsetSet /\ off.inactive = Len(s.inactive) /\ off.removed = Len(s.removed)
  BY <1>2 DEF OffsetSet
<1> HIDE DEF off
<1>4. /\ a \in Seq(OffsetSet) /\ Len(a) = L + 1 /\ DOMAIN a = 1..(L + 1)
      /\ (\A l \in 1..L : a[l] = s.levels[l]) /\ a[L + 1] = off
  BY <1>2, <1>3, Appended
<1>5. r = [s EXCEPT !.levels = a]
  BY DEF Pushed, off
<1> HIDE DEF r, a, L
<1>6. /\ r \in SolverSet /\ r.states = s.states /\ r.lits = s.lits /\ r.watches = s.watches
      /\ r.removed = s.removed /\ r.todo = s.todo /\ r.flagged = s.flagged
      /\ r.inactive = s.inactive /\ r.mark = s.mark /\ r.levels = a
  BY <1>1, <1>4, <1>5 DEF SolverSet
<1>7. Refers(r)
  BY <1>1, <1>6 DEF Refers, Listed
<1>8. OffsetsOrdered(r)
  <2>1. ASSUME NEW l \in 1..(L + 1)
        PROVE  a[l].inactive <= Len(s.inactive) /\ a[l].removed <= Len(s.removed)
    <3>1. CASE l = L + 1
      BY <3>1, <1>2, <1>3, <1>4
    <3>2. CASE l \in 1..L
      BY <3>2, <1>1, <1>2, <1>4 DEF OffsetsOrdered
    <3> QED BY <3>1, <3>2, <1>2
  <2>2. ASSUME NEW k \in 1..(L + 1), NEW l \in 1..(L + 1), k <= l
        PROVE  a[k].inactive <= a[l].inactive /\ a[k].removed <= a[l].removed
    <3>1. CASE l = L + 1
      BY <3>1, <2>1, <1>3, <1>4
    <3>2. CASE l \in 1..L
      <4>1. k \in 1..L
        BY <3>2, <2>2, <1>2
      <4> QED BY <4>1, <3>2, <2>2, <1>1, <1>2, <1>4 DEF OffsetsOrdered
    <3> QED BY <3>1, <3>2, <1>2
  <2> QED BY <2>1, <2>2, <1>4, <1>6 DEF OffsetsOrdered
<1>9. MarkedListed(r)
  <2>1. ASSUME NEW n \in DOMAIN s.inactive, NEW k \in Int, AtLevel(s, n, k)
        PROVE  AtLevel(r, n, k)
    <3>1. k <= L /\ \A l \in 1..L : s.levels[l].inactive < n <=> l <= k
      BY <2>1, <1>2 DEF AtLevel, L
    <3>2. ~(off.inactive < n) /\ ~(L + 1 <= k)
      BY <3>1, <1>2, <1>3
    <3>3. \A l \in 1..(L + 1) : a[l].inactive < n <=> l <= k
      <4> SUFFICES ASSUME NEW l \in 1..(L + 1) PROVE a[l].inactive < n <=> l <= k
        OBVIOUS
      <4>1. CASE l = L + 1
        BY <4>1, <3>2, <1>4
      <4>2. CASE l \in 1..L
        BY <4>2, <3>1, <1>4
      <4> QED BY <4>1, <4>2, <1>2
    <3>4. k <= L + 1
      BY <3>1, <1>2
    <3> QED BY <3>3, <3>4, <1>4, <1>6 DEF AtLevel
  <2>2. \A x \in s.states : s.mark[x] - 1 \in Int
    BY <1>1 DEF Refers
  <2> QED BY <2>1, <2>2, <1>1, <1>6 DEF MarkedListed
<1>10. \A n \in DOMAIN s.inactive, l \in 1..(L + 1) : a[l].inactive < n => l \in 1..L /\ a[l] = s.levels[l]
  <2> SUFFICES ASSUME NEW n \in DOMAIN s.inactive, NEW l \in 1..(L + 1), a[l].inactive < n
               PROVE  l \in 1..L
    BY <1>4
  <2>1. l # L + 1
    BY <1>2, <1>3, <1>4
  <2> QED BY <2>1, <1>2
<1>11. BehindMarked(r) /\ BehindUnique(r)
  <2>1. BehindMarked(r)
    BY <1>1, <1>2, <1>4, <1>6, <1>10 DEF BehindMarked
  <2>2. BehindUnique(r)
    BY <1>1, <1>2, <1>4, <1>6, <1>10 DEF BehindUnique
  <2> QED BY <2>1, <2>2
<1>12. RemovedMarked(r)
  <2>1. ASSUME NEW n \in DOMAIN s.removed
        PROVE  /\ s.mark[s.removed[n]] \in 1..(L + 1)
               /\ \A l \in 1..(L + 1) : n <= a[l].removed => s.mark[s.removed[n]] < l
    <3>1. s.mark[s.removed[n]] \in 1..L /\ \A l \in 1..L : n <= s.levels[l].removed => s.mark[s.removed[n]] < l
      BY <1>1, <1>2 DEF RemovedMarked, L
    <3>2. ASSUME NEW l \in 1..(L + 1), n <= a[l].removed
          PROVE  s.mark[s.removed[n]] < l
      <4>1. CASE l = L + 1
        BY <4>1, <3>1, <1>2
      <4>2. CASE l \in 1..L
        BY <4>2, <3>1, <3>2, <1>4
      <4> QED BY <4>1, <4>2, <1>2
    <3> QED BY <3>1, <3>2, <1>2
  <2> QED BY <2>1, <1>1, <1>4, <1>6 DEF RemovedMarked
<1>13. WellFormed(r)
  BY <1>6, <1>7, <1>8, <1>9, <1>11, <1>12 DEF WellFormed
<1> QED BY <1>6, <1>13 DEF r

-----------------------------------------------------------------------------
(* Counting modulo the word size.                                          *)

\* Remainders of numbers that differ by a multiple are equal.
LEMMA ModMultiple ==
  ASSUME NEW W \in Nat \ {0}, NEW a \in Int, NEW b \in Int, NEW q \in Int, a = b + (q * W)
  PROVE  a % W = b % W
<1> DEFINE qa == a \div W
           ra == a % W
           qb == b \div W
           rb == b % W
<1>1. /\ qa \in Int /\ qb \in Int /\ ra \in 0..(W - 1) /\ rb \in 0..(W - 1)
      /\ a = (qa * W) + ra /\ b = (qb * W) + rb
  OBVIOUS
<1> HIDE DEF qa, ra, qb, rb
<1>2. (qb + q) * W = (qb * W) + (q * W)
  BY <1>1
<1> DEFINE p == qb + q
<1>3. p \in Int /\ (qa * W) + ra = (p * W) + rb
  BY <1>1, <1>2
<1> HIDE DEF p
<1>4. ra = rb
  BY <1>1, <1>3
<1> QED BY <1>4 DEF ra, rb

\* A number differs from its remainder by a multiple.
LEMMA ModOf ==
  ASSUME NEW W \in Nat \ {0}, NEW a \in Int
  PROVE  /\ a % W \in Int
         /\ \E q \in Int : a = (a % W) + (q * W)
<1>1. a % W \in Int /\ a \div W \in Int /\ a = ((a \div W) * W) + (a % W)
  OBVIOUS
<1>2. (a \div W) * W \in Int
  BY <1>1
<1>3. a = (a % W) + ((a \div W) * W)
  BY <1>1, <1>2
<1> QED BY <1>1, <1>3

\* Counting modulo W: only remainders matter.
LEMMA ModAdd ==
  ASSUME NEW W \in Nat \ {0}, NEW a \in Int, NEW b \in Int
  PROVE  (a + (b % W)) % W = (a + b) % W
<1>1. PICK q \in Int : b = (b % W) + (q * W)
  BY ModOf
<1> DEFINE r == b % W
           m == q * W
<1>2. r \in Int /\ m \in Int
  BY ModOf
<1>3. a + b = (a + r) + m
  <2>1. b = r + m
    BY <1>1
  <2> HIDE DEF r, m
  <2> QED BY <1>2, <2>1
<1>4. (a + b) % W = (a + r) % W
  <2>1. a + b \in Int /\ a + r \in Int
    BY <1>2
  <2>2. a + b = (a + r) + (q * W)
    BY <1>3
  <2> HIDE DEF r
  <2> QED BY <2>1, <2>2, ModMultiple
<1> QED BY <1>4

\* Equal remainders stay equal.
LEMMA ModCancel ==
  ASSUME NEW W \in Nat \ {0}, NEW a \in Int, NEW b \in Int, NEW k \in Int, a % W = b % W
  PROVE  (a + k) % W = (b + k) % W
<1>1. (k + (a % W)) % W = (k + a) % W
  BY ModAdd
<1>2. (k + (b % W)) % W = (k + b) % W
  BY ModAdd
<1>3. k + a = a + k /\ k + b = b + k
  OBVIOUS
<1> QED BY <1>1, <1>2, <1>3

\* The counters of two statistics, one of which is counted up by k.
LEMMA CountUp ==
  ASSUME NEW W \in Nat \ {0}, NEW x \in Int, NEW y \in Int, NEW n \in Int, NEW k \in Int,
         (x + y) % W = n % W
  PROVE  (x + ((y + k) % W)) % W = (n + k) % W
<1>1. (x + ((y + k) % W)) % W = (x + (y + k)) % W
  <2>1. y + k \in Int
    OBVIOUS
  <2> QED BY <2>1, ModAdd
<1>2. ((x + y) + k) % W = (n + k) % W
  <2>1. x + y \in Int
    OBVIOUS
  <2> QED BY <2>1, ModCancel
<1>3. x + (y + k) = (x + y) + k
  OBVIOUS
<1> QED BY <1>1, <1>2, <1>3

-----------------------------------------------------------------------------

-----------------------------------------------------------------------------
(* Watches and undo.                                                       *)

\* update_constraints_: a constraint that is inactive since a lower level is
\* not watched any more, others are put on the todo list.
LEMMA UpdatedWatch ==
    ASSUME NEW s, WellFormed(s), NEW st \in s.watches
    PROVE  LET r == Updated(s, st) IN
           /\ WellFormed(r) /\ r.states = s.states /\ r.levels = s.levels /\ r.inactive = s.inactive
           /\ Elements(s.todo) \subseteq Elements(r.todo)
           /\ TodoExact(s) => TodoExact(r)
<1> DEFINE L == Len(s.levels)
           R == Len(s.removed)
           a == Append(s.removed, st)
           r == Updated(s, st)
<1>1. /\ s \in SolverSet /\ Refers(s) /\ OffsetsOrdered(s) /\ MarkedListed(s)
      /\ BehindMarked(s) /\ BehindUnique(s) /\ RemovedMarked(s)
  BY DEF WellFormed
<1>2. st \in s.states /\ st \notin Elements(s.removed)
  BY <1>1 DEF Refers
<1>3. CASE ~(s.mark[st] > 0 /\ s.mark[st] <= L)
  <2>1. r = MarkTodo(s, st)
    BY <1>3 DEF Updated, LevelOf
  <2> QED BY <2>1, <1>2, MarkedTodo DEF SameTrail
<1>4. CASE s.mark[st] > 0 /\ s.mark[st] <= L
  <2>1. r = [s EXCEPT !.watches = s.watches \ {st}, !.removed = a]
    BY <1>4 DEF Updated, LevelOf
  <2>2. /\ s.states \subseteq StateSet /\ s.watches \subseteq StateSet
        /\ s.mark \in [s.states -> Nat] /\ s.removed \in Seq(StateSet)
        /\ L \in Nat /\ R \in Nat /\ DOMAIN s.levels = 1..L /\ DOMAIN s.removed = 1..R
        /\ \A l \in 1..L : s.levels[l].inactive \in Nat /\ s.levels[l].removed \in Nat
    BY <1>1, FieldTypes, OffsetTypes DEF Refers
  <2>3. /\ a \in Seq(StateSet) /\ Len(a) = R + 1 /\ DOMAIN a = 1..(R + 1)
        /\ (\A n \in 1..R : a[n] = s.removed[n]) /\ a[R + 1] = st
        /\ Elements(a) = Elements(s.removed) \union {st}
        /\ OneToOne(a)
    BY <1>1, <1>2, <2>2, Appended DEF RemovedMarked
  <2> HIDE DEF r, a
  <2>4. /\ r \in SolverSet /\ r.states = s.states /\ r.lits = s.lits /\ r.watches = s.watches \ {st}
        /\ r.removed = a /\ r.todo = s.todo /\ r.flagged = s.flagged
        /\ r.inactive = s.inactive /\ r.mark = s.mark /\ r.levels = s.levels
    BY <1>1, <2>1, <2>2, <2>3 DEF SolverSet
  <2>5. Refers(r)
    <3>1. Listed(r) \subseteq r.states
      BY <1>1, <1>2, <2>3, <2>4 DEF Refers, Listed
    <3>2. r.watches = r.states \ Elements(r.removed)
      BY <1>1, <2>3, <2>4 DEF Refers
    <3> QED BY <3>1, <3>2, <1>1, <2>4 DEF Refers
  <2>6. OffsetsOrdered(r)
    <3>1. \A l \in 1..L : s.levels[l].removed <= R
      BY <1>1, <2>2 DEF OffsetsOrdered
    <3> HIDE DEF R
    <3>2. \A l \in 1..L : s.levels[l].removed <= R + 1
      BY <3>1, <2>2
    <3> QED BY <3>2, <1>1, <2>2, <2>3, <2>4 DEF OffsetsOrdered
  <2>7. MarkedListed(r) /\ BehindMarked(r) /\ BehindUnique(r)
    BY <1>1, <2>4 DEF MarkedListed, AtLevel, BehindMarked, BehindUnique
  <2>8. RemovedMarked(r)
    <3>1. ASSUME NEW n \in 1..(R + 1)
          PROVE  /\ s.mark[a[n]] \in 1..L
                 /\ \A l \in 1..L : n <= s.levels[l].removed => s.mark[a[n]] < l
      <4>1. CASE n = R + 1
        <5>1. s.mark[st] \in 1..L
          BY <1>2, <1>4, <2>2
        <5>2. \A l \in 1..L : s.levels[l].removed <= R
          BY <1>1, <2>2 DEF OffsetsOrdered
        <5> HIDE DEF R
        <5>3. \A l \in 1..L : ~(R + 1 <= s.levels[l].removed)
          BY <5>2, <2>2
        <5> QED BY <5>1, <5>3, <4>1, <2>3
      <4>2. CASE n \in 1..R
        BY <4>2, <1>1, <2>2, <2>3 DEF RemovedMarked
      <4> QED BY <4>1, <4>2, <2>2
    <3> QED BY <3>1, <2>2, <2>3, <2>4 DEF RemovedMarked
  <2>9. WellFormed(r)
    BY <2>4, <2>5, <2>6, <2>7, <2>8 DEF WellFormed
  <2> QED BY <2>4, <2>9 DEF r, TodoExact
<1> QED BY <1>3, <1>4

\* undo: closing the last level.
LEMMA UndoneLevel ==
    ASSUME NEW s, WellFormed(s), Len(s.levels) > 0
    PROVE  LET r == Undone(s) IN
           /\ WellFormed(r) /\ r.states = s.states /\ TodoExact(r)
           /\ Elements(r.inactive) \subseteq Elements(s.inactive)
<1> DEFINE L == Len(s.levels)
           o == s.levels[L].inactive
           p == s.levels[L].removed
           levels == SubSeq(s.levels, 1, L - 1)
           inactive == SubSeq(s.inactive, 1, o)
           removed == SubSeq(s.removed, 1, p)
           active == Behind(s.inactive, o)
           m == [st \in s.states |-> IF st \in active THEN 0 ELSE s.mark[st]]
           r == Undone(s)
<1>1. /\ s \in SolverSet /\ Refers(s) /\ OffsetsOrdered(s) /\ MarkedListed(s)
      /\ BehindMarked(s) /\ BehindUnique(s) /\ RemovedMarked(s)
  BY DEF WellFormed
<1>2. /\ s.levels \in Seq(OffsetSet) /\ s.inactive \in Seq(StateSet) /\ s.removed \in Seq(StateSet)
      /\ s.states \subseteq StateSet /\ s.watches \subseteq StateSet /\ s.mark \in [s.states -> Nat]
      /\ L \in Nat /\ DOMAIN s.levels = 1..L
      /\ Len(s.inactive) \in Nat /\ DOMAIN s.inactive = 1..Len(s.inactive)
      /\ Len(s.removed) \in Nat /\ DOMAIN s.removed = 1..Len(s.removed)
      /\ \A l \in 1..L : s.levels[l].inactive \in Nat /\ s.levels[l].removed \in Nat
  BY <1>1, FieldTypes, OffsetTypes DEF Refers
<1>3. L \in 1..L /\ L - 1 \in 0..L
  BY <1>2
<1>4. o \in 0..Len(s.inactive) /\ p \in 0..Len(s.removed)
  BY <1>1, <1>2, <1>3 DEF OffsetsOrdered
<1>5. /\ levels \in Seq(OffsetSet) /\ Len(levels) = L - 1 /\ DOMAIN levels = 1..(L - 1)
      /\ \A l \in 1..(L - 1) : levels[l] = s.levels[l]
  BY <1>2, <1>3, Prefix
<1>6. /\ inactive \in Seq(StateSet) /\ Len(inactive) = o /\ DOMAIN inactive = 1..o
      /\ (\A n \in 1..o : inactive[n] = s.inactive[n])
      /\ Elements(inactive) \subseteq Elements(s.inactive)
  BY <1>2, <1>4, Prefix
<1>7. /\ removed \in Seq(StateSet) /\ Len(removed) = p /\ DOMAIN removed = 1..p
      /\ (\A n \in 1..p : removed[n] = s.removed[n])
      /\ Elements(removed) \subseteq Elements(s.removed)
      /\ Elements(s.removed) = Elements(removed) \union Behind(s.removed, p)
      /\ OneToOne(removed) /\ Elements(removed) \intersect Behind(s.removed, p) = {}
  BY <1>1, <1>2, <1>4, Prefix DEF RemovedMarked
<1>8. /\ m \in [s.states -> Nat] /\ m \in Marks
      /\ \A x \in s.states : IF x \in active THEN m[x] = 0 ELSE m[x] = s.mark[x]
  <2>1. /\ m \in [s.states -> Nat]
        /\ \A x \in s.states : IF x \in active THEN m[x] = 0 ELSE m[x] = s.mark[x]
    BY <1>2
  <2> HIDE DEF m
  <2> QED BY <2>1, <1>2 DEF Marks
<1>9. /\ \A x \in active : \E n \in 1..Len(s.inactive) : n > o /\ s.inactive[n] = x
      /\ \A n \in 1..Len(s.inactive) : n > o => s.inactive[n] \in active
  BY <1>2 DEF Behind
<1>10. r = [s EXCEPT !.levels = levels, !.inactive = inactive, !.mark = m,
                     !.watches = s.watches \union Behind(s.removed, p), !.removed = removed,
                     !.flagged = s.flagged \ Elements(s.todo), !.todo = <<>>]
  BY DEF Undone, Offsets, WatchesAfterUndo, FlagsAfterUndo
<1>11. /\ s.flagged \ Elements(s.todo) = {} /\ <<>> \in Seq(StateSet)
       /\ Elements(<<>>) = {} /\ OneToOne(<<>>)
  BY <1>1, EmptySeq DEF Refers, Elements, OneToOne
<1>12. s.watches \union Behind(s.removed, p) = s.states \ Elements(removed)
  <2>1. Elements(s.removed) \subseteq s.states /\ s.watches = s.states \ Elements(s.removed)
    BY <1>1 DEF Refers, Listed
  <2> HIDE DEF removed
  <2> QED BY <2>1, <1>7
<1> HIDE DEF r, m, active, levels, inactive, removed, o, p
<1>13. /\ r \in SolverSet /\ r.states = s.states /\ r.lits = s.lits /\ r.watches = s.states \ Elements(removed)
       /\ r.removed = removed /\ r.todo = <<>> /\ r.flagged = {}
       /\ r.inactive = inactive /\ r.mark = m /\ r.levels = levels
  BY <1>1, <1>2, <1>5, <1>6, <1>7, <1>8, <1>10, <1>11, <1>12 DEF SolverSet
<1>14. Refers(r)
  <2>1. Listed(r) \subseteq r.states
    BY <1>1, <1>6, <1>7, <1>11, <1>13 DEF Refers, Listed
  <2> QED BY <2>1, <1>1, <1>8, <1>13 DEF Refers
<1>15. \A k, l \in 1..L : k <= l => /\ s.levels[k].inactive <= s.levels[l].inactive
                                    /\ s.levels[k].removed <= s.levels[l].removed
  BY <1>1, <1>2 DEF OffsetsOrdered
<1>16. OffsetsOrdered(r)
  <2>1. \A l \in 1..(L - 1) : levels[l].inactive <= o /\ levels[l].removed <= p
    <3> SUFFICES ASSUME NEW l \in 1..(L - 1)
                 PROVE  s.levels[l].inactive <= o /\ s.levels[l].removed <= p
      BY <1>5
    <3>1. l \in 1..L /\ l <= L
      BY <1>2
    <3> QED BY <3>1, <1>3, <1>15 DEF o, p
  <2>2. \A k, l \in 1..(L - 1) : k <= l => /\ levels[k].inactive <= levels[l].inactive
                                           /\ levels[k].removed <= levels[l].removed
    <3> SUFFICES ASSUME NEW k \in 1..(L - 1), NEW l \in 1..(L - 1), k <= l
                 PROVE  s.levels[k].inactive <= s.levels[l].inactive /\ s.levels[k].removed <= s.levels[l].removed
      BY <1>5
    <3>1. k \in 1..L /\ l \in 1..L
      BY <1>2
    <3> QED BY <3>1, <1>15
  <2> QED BY <2>1, <2>2, <1>5, <1>6, <1>7, <1>13 DEF OffsetsOrdered
<1>17. MarkedListed(r)
  <2> SUFFICES ASSUME NEW x \in s.states, m[x] > 0
               PROVE  \E n \in 1..o : inactive[n] = x /\ AtLevel(r, n, m[x] - 1)
    BY <1>6, <1>13 DEF MarkedListed
  <2>1. x \notin active /\ m[x] = s.mark[x] /\ s.mark[x] \in Nat
    BY <1>2, <1>8
  <2>2. PICK n \in 1..Len(s.inactive) : s.inactive[n] = x /\ AtLevel(s, n, s.mark[x] - 1)
    BY <2>1, <1>1, <1>2 DEF MarkedListed
  <2>3. ~(n > o)
    BY <2>1, <2>2, <1>9
  <2>4. n \in 1..o /\ ~(o < n)
    BY <2>3, <1>2, <1>4
  <2>5. /\ s.mark[x] - 1 <= L
        /\ \A l \in 1..L : s.levels[l].inactive < n <=> l <= s.mark[x] - 1
    BY <2>2, <1>2 DEF AtLevel
  <2>6. ~(L <= s.mark[x] - 1)
    BY <2>4, <2>5, <1>3 DEF o
  <2>7. s.mark[x] - 1 <= L - 1
    BY <2>1, <2>6, <1>2
  <2>8. \A l \in 1..(L - 1) : levels[l].inactive < n <=> l <= s.mark[x] - 1
    <3> SUFFICES ASSUME NEW l \in 1..(L - 1) PROVE s.levels[l].inactive < n <=> l <= s.mark[x] - 1
      BY <1>5
    <3>1. l \in 1..L
      BY <1>2
    <3> QED BY <3>1, <2>5
  <2>9. AtLevel(r, n, s.mark[x] - 1)
    BY <2>7, <2>8, <1>5, <1>13 DEF AtLevel
  <2> QED BY <2>1, <2>2, <2>4, <2>9, <1>6
\* An entry behind a lower level is the only one of its constraint there.
<1>18. ASSUME NEW n \in 1..o, NEW l \in 1..(L - 1), s.levels[l].inactive < n
       PROVE  n \in 1..Len(s.inactive) /\ l \in 1..L /\ s.inactive[n] \in s.states /\ s.inactive[n] \notin active
  <2>1. n \in 1..Len(s.inactive) /\ l \in 1..L /\ l <= L /\ n <= o
    BY <1>2, <1>4
  <2>2. s.inactive[n] \in s.states
    <3>1. s.inactive[n] \in Elements(s.inactive)
      BY <2>1, <1>2 DEF Elements
    <3> QED BY <3>1, <1>1 DEF Refers, Listed
  <2>3. ASSUME s.inactive[n] \in active
        PROVE  FALSE
    <3>1. PICK i \in 1..Len(s.inactive) : i > o /\ s.inactive[i] = s.inactive[n]
      BY <2>3, <1>9
    <3>2. s.levels[l].inactive <= o
      BY <2>1, <1>3, <1>15 DEF o
    <3>3. s.levels[l].inactive \in Nat
      BY <2>1, <1>2
    <3>4. s.levels[l].inactive < i
      BY <3>1, <3>2, <3>3, <1>2, <1>4
    <3>5. i = n
      BY <3>1, <3>4, <2>1, <1>1, <1>2, <1>18 DEF BehindUnique
    <3> QED BY <3>1, <3>5, <2>1, <1>2, <1>4
  <2> QED BY <2>1, <2>2, <2>3
<1>19. BehindMarked(r)
  <2> SUFFICES ASSUME NEW n \in 1..o, NEW l \in 1..(L - 1), s.levels[l].inactive < n
               PROVE  m[s.inactive[n]] > l
    BY <1>5, <1>6, <1>13 DEF BehindMarked
  <2>1. n \in 1..Len(s.inactive) /\ l \in 1..L /\ s.inactive[n] \in s.states /\ s.inactive[n] \notin active
    BY <1>18
  <2>2. s.mark[s.inactive[n]] > l
    BY <2>1, <1>1, <1>2 DEF BehindMarked
  <2> QED BY <2>1, <2>2, <1>8
<1>20. BehindUnique(r)
  <2> SUFFICES ASSUME NEW i \in 1..o, NEW n \in 1..o, NEW l \in 1..(L - 1),
                      s.levels[l].inactive < i, s.levels[l].inactive < n, s.inactive[i] = s.inactive[n]
               PROVE  i = n
    BY <1>5, <1>6, <1>13 DEF BehindUnique
  <2>1. i \in 1..Len(s.inactive) /\ n \in 1..Len(s.inactive) /\ l \in 1..L
    BY <1>18
  <2> QED BY <2>1, <1>1, <1>2 DEF BehindUnique
<1>21. RemovedMarked(r)
  <2> SUFFICES ASSUME NEW n \in 1..p
               PROVE  /\ m[s.removed[n]] \in 1..(L - 1)
                      /\ \A l \in 1..(L - 1) : n <= s.levels[l].removed => m[s.removed[n]] < l
    BY <1>5, <1>7, <1>13 DEF RemovedMarked
  <2>1. n \in 1..Len(s.removed) /\ n <= p
    BY <1>2, <1>4
  <2> DEFINE x == s.removed[n]
  <2>2. x \in s.states
    BY <2>1, <1>1, <1>2 DEF Refers, Listed, Elements
  <2>3. s.mark[x] \in 1..L /\ \A l \in 1..L : n <= s.levels[l].removed => s.mark[x] < l
    BY <2>1, <1>1, <1>2 DEF RemovedMarked
  <2>4. s.mark[x] < L
    BY <2>1, <2>3, <1>3 DEF p
  <2>5. x \notin active
    <3> SUFFICES ASSUME x \in active PROVE FALSE
      OBVIOUS
    <3>1. PICK i \in 1..Len(s.inactive) : i > o /\ s.inactive[i] = x
      BY <1>9
    <3>2. o < i
      BY <3>1, <1>2, <1>4
    <3>3. s.mark[s.inactive[i]] > L
      BY <3>2, <1>1, <1>2, <1>3 DEF BehindMarked, o
    <3> QED BY <3>1, <3>3, <2>3, <2>4, <1>2
  <2>6. m[x] = s.mark[x]
    BY <2>2, <2>5, <1>8
  <2>7. \A l \in 1..(L - 1) : l \in 1..L
    BY <1>2
  <2> HIDE DEF x
  <2>8. s.mark[x] \in 1..(L - 1)
    BY <2>3, <2>4, <1>2
  <2> QED BY <2>3, <2>6, <2>7, <2>8 DEF x
<1>22. WellFormed(r)
  BY <1>13, <1>14, <1>16, <1>17, <1>19, <1>20, <1>21 DEF WellFormed
<1>23. TodoExact(r)
  BY <1>11, <1>13 DEF TodoExact
<1> QED BY <1>6, <1>13, <1>22, <1>23 DEF r, inactive

-----------------------------------------------------------------------------
(* Steps of one solver.                                                    *)

\* Replacing one solver.
LEMMA SolverReplaced ==
    ASSUME NEW ss \in Seq(SolverSet), NEW t \in 1..Len(ss), NEW r \in SolverSet
    PROVE  LET new == [ss EXCEPT ![t] = r] IN
           /\ new \in Seq(SolverSet) /\ Len(new) = Len(ss)
           /\ DOMAIN new = 1..Len(ss) /\ DOMAIN ss = 1..Len(ss)
           /\ new[t] = r /\ \A u \in 1..Len(ss) : u # t => new[u] = ss[u]
<1>1. ss \in [1..Len(ss) -> SolverSet] /\ DOMAIN ss = 1..Len(ss)
  BY LenProperties
<1>2. [ss EXCEPT ![t] = r] \in Seq(SolverSet) /\ Len([ss EXCEPT ![t] = r]) = Len(ss)
  BY ExceptSeq
<1> QED BY <1>1, <1>2

\* What is known of the solvers.
LEMMA SolversType ==
    ASSUME TypeInv
    PROVE  /\ Len(solvers) \in Nat /\ DOMAIN solvers = 1..Len(solvers)
           /\ \A t \in 1..Len(solvers) : solvers[t] \in SolverSet
           /\ 1 \in 1..Len(solvers) /\ turn \in 1..Len(solvers)
           /\ DOMAIN seen = 1..Len(solvers) /\ \A t \in 1..Len(solvers) : seen[t] \subseteq Nat
<1>1. Len(solvers) \in Nat /\ DOMAIN solvers = 1..Len(solvers) /\ \A t \in 1..Len(solvers) : solvers[t] \in SolverSet
  BY LenProperties DEF TypeInv
<1>2. seen \in Seq(SUBSET Nat) /\ Len(seen) = Len(solvers) /\ turn \in 1..Len(solvers)
  BY DEF TypeInv
<1>3. DOMAIN seen = 1..Len(solvers) /\ \A t \in 1..Len(solvers) : seen[t] \in SUBSET Nat
  BY <1>2, LenProperties
<1> QED BY <1>1, <1>2, <1>3

\* A step in which solver t becomes r and keeps its states: what it may do to
\* the lists, and what it has to propagate.
SolverKept(t, r) ==
    /\ solvers' = [solvers EXCEPT ![t] = r]
    /\ WellFormed(r)
    /\ r.states = solvers[t].states
    /\ Elements(r.inactive) \subseteq
         Elements(solvers[t].inactive) \union {x \in solvers[t].states : Removable(x.cons)}
    /\ r.levels # <<>> => pc = "search" /\ t = turn

\* Its flags and lists stay exact, nothing that was not propagated is forgotten, and
\* before a level is opened everything was propagated.
PropagationKept(t, r) ==
    /\ status' \in {"fresh", "checked", "conflict"}
    /\ status' # status => t = turn
    /\ pc = "search" /\ (t < turn \/ (t = turn /\ status' # "fresh")) => TodoExact(r)
    /\ seen' \in Seq(SUBSET Nat) /\ Len(seen') = Len(seen)
    /\ \A u \in DOMAIN solvers : u # t => seen'[u] = seen[u]
    /\ pc' = pc /\ (t = 1 \/ pc = "search") =>
         /\ NothingMissed(r, seen'[t])
         /\ r.levels # <<>> => Elements(constraints) \subseteq seen'[t]

\* Such a step preserves the invariant.
LEMMA SolverStep ==
    ASSUME IInv, NEW t \in DOMAIN solvers, NEW r,
           pc \in {"simplify", "search"}, pc' = pc \/ pc' = "unsat",
           UNCHANGED <<step, initVars, turn, statVars, ghostVars>>,
           SolverKept(t, r), PropagationKept(t, r)
    PROVE  IInv'
<1> USE DEF SolverKept, PropagationKept
<1>1. /\ TypeInv /\ SolversInv /\ ExactInv /\ ListInv /\ StatesInv /\ CountInv /\ TranslateInv
      /\ ObjectiveInv /\ SeenInv
  BY DEF IInv
<1> DEFINE N == Len(solvers)
<1>2. /\ N \in Nat /\ DOMAIN solvers = 1..N /\ 1 \in 1..N /\ turn \in 1..N
      /\ r \in SolverSet /\ t \in 1..N
  BY <1>1, SolversType DEF WellFormed
<1>3. /\ solvers' \in Seq(SolverSet) /\ Len(solvers') = N /\ DOMAIN solvers' = 1..N
      /\ solvers'[t] = r /\ \A u \in 1..N : u # t => solvers'[u] = solvers[u]
  <2>1. solvers \in Seq(SolverSet)
    BY <1>1 DEF TypeInv
  <2>2. LET new == [solvers EXCEPT ![t] = r] IN
        /\ new \in Seq(SolverSet) /\ Len(new) = Len(solvers)
        /\ DOMAIN new = 1..Len(solvers) /\ DOMAIN solvers = 1..Len(solvers)
        /\ new[t] = r /\ \A u \in 1..Len(solvers) : u # t => new[u] = solvers[u]
    BY <2>1, <1>2, SolverReplaced
  <2> QED BY <2>2
<1>4. /\ step' = step /\ constraints' = constraints /\ kind' = kind /\ minimize' = minimize
      /\ held' = held /\ translateMinimize' = translateMinimize /\ idx' = idx /\ jdx' = jdx
      /\ turn' = turn /\ numStep' = numStep /\ numAccu' = numAccu
      /\ posted' = posted /\ inClasp' = inClasp /\ inMinimize' = inMinimize
  BY DEF initVars, statVars, ghostVars
<1>5. pc \in {"simplify", "search"} /\ pc' \in {"simplify", "search", "unsat"}
  OBVIOUS
<1> HIDE DEF N
<1>6. TypeInv'
  <2>1. pc' \in Phases
    BY <1>5 DEF Phases
  <2>2. Len(seen') = Len(solvers') /\ turn \in 1..Len(solvers')
    BY <1>1, <1>2, <1>3 DEF TypeInv, N
  <2> QED BY <2>1, <2>2, <1>1, <1>3, <1>4 DEF TypeInv
<1>7. SolversInv'
  <2> SUFFICES ASSUME NEW u \in 1..N
               PROVE  /\ SolverOk(solvers'[u], kind)
                      /\ solvers'[u].levels # <<>> => pc' \in {"search", "unsat"} /\ u = turn
    BY <1>3, <1>4 DEF SolversInv
  <2>1. CASE u = t
    <3>1. SolverOk(solvers[t], kind)
      BY <1>1 DEF SolversInv
    <3>2. SolverOk(r, kind)
      BY <3>1 DEF SolverOk, Removable
    <3> QED BY <3>2, <2>1, <1>3, <1>5
  <2>2. CASE u # t
    BY <2>2, <1>1, <1>2, <1>3, <1>5 DEF SolversInv
  <2> QED BY <2>1, <2>2
<1>8. ExactInv'
  <2> SUFFICES ASSUME NEW u \in 1..N,
                      pc' = "search", u < turn \/ (u = turn /\ status' # "fresh")
               PROVE  TodoExact(solvers'[u])
    BY <1>3, <1>4, <1>5 DEF ExactInv
  <2>1. CASE u = t
    BY <2>1, <1>3, <1>5
  <2>2. CASE u # t
    <3>1. u < turn \/ (u = turn /\ status # "fresh")
      BY <2>2
    <3>2. TodoExact(solvers[u])
      BY <3>1, <1>1, <1>2, <1>5 DEF ExactInv
    <3> QED BY <3>2, <2>2, <1>3
  <2> QED BY <2>1, <2>2
<1>9. ListInv'
  BY <1>1, <1>4, <1>5 DEF ListInv
<1>10. StatesInv'
  <2> SUFFICES ASSUME pc' \notin {"translate", "unsat"}, NEW u \in 1..N,
                      u = 1 \/ pc' \in {"init", "search"}
               PROVE  ConsOf(solvers'[u]) = Elements(constraints)
    BY <1>3, <1>4 DEF StatesInv
  <2>1. ConsOf(solvers[u]) = Elements(constraints)
    BY <1>1, <1>2, <1>5 DEF StatesInv
  <2> QED BY <2>1, <1>3 DEF ConsOf
<1>11. CountInv' /\ TranslateInv'
  BY <1>1, <1>4, <1>5 DEF CountInv, TranslateInv
<1>12. ObjectiveInv'
  BY <1>1, <1>4, <1>5 DEF ObjectiveInv
<1>13. SeenInv'
  <2> SUFFICES ASSUME pc' # "unsat", NEW u \in 1..N, u = 1 \/ pc' = "search"
               PROVE  /\ NothingMissed(solvers'[u], seen'[u])
                      /\ solvers'[u].levels # <<>> => Elements(constraints) \subseteq seen'[u]
    BY <1>3, <1>4 DEF SeenInv
  <2>1. CASE u = t
    BY <2>1, <1>3, <1>5
  <2>2. CASE u # t
    BY <2>2, <1>1, <1>2, <1>3, <1>5 DEF SeenInv
  <2> QED BY <2>1, <2>2
<1> QED BY <1>6, <1>7, <1>8, <1>9, <1>10, <1>11, <1>12, <1>13 DEF IInv

\* A solver has states for constraints, and no others.
LEMMA StateHasConstraint ==
    ASSUME IInv, pc \notin {"translate", "unsat"}, NEW t \in DOMAIN solvers, t = 1 \/ pc = "search"
    PROVE  /\ \A st \in solvers[t].states : st.cons \in Elements(constraints)
           /\ \A c \in Elements(constraints) : \E st \in solvers[t].states : st.cons = c
<1>1. ConsOf(solvers[t]) = Elements(constraints)
  BY DEF IInv, StatesInv
<1> QED BY <1>1 DEF ConsOf

\* A check without conflict goes through the whole list.
LEMMA AllProcessed ==
    ASSUME NEW s \in SolverSet
    PROVE  Processed(s, Len(s.todo) + 1) = Elements(s.todo)
<1>1. Len(s.todo) \in Nat /\ DOMAIN s.todo = 1..Len(s.todo)
  BY FieldTypes
<1>2. (1..(Len(s.todo) + 1)) \intersect DOMAIN s.todo = DOMAIN s.todo
  BY <1>1
<1> QED BY <1>2 DEF Processed, Elements

\* What a solver propagates and what it has propagated then.
LEMMA SeenGrows ==
    ASSUME IInv, NEW t \in DOMAIN solvers, NEW new,
           new \subseteq {st.cons : st \in solvers[t].states},
           seen' = [seen EXCEPT ![t] = @ \union new]
    PROVE  /\ seen' \in Seq(SUBSET Nat) /\ Len(seen') = Len(seen)
           /\ seen'[t] = seen[t] \union new
           /\ \A u \in DOMAIN solvers : u # t => seen'[u] = seen[u]
<1>1. TypeInv /\ SolversInv
  BY DEF IInv
<1>2. seen \in Seq(SUBSET Nat) /\ Len(seen) = Len(solvers)
  BY <1>1 DEF TypeInv
<1>3. DOMAIN solvers = 1..Len(solvers) /\ DOMAIN seen = 1..Len(seen) /\ t \in 1..Len(seen) /\ seen[t] \subseteq Nat
  BY <1>1, <1>2, SolversType
<1>4. new \subseteq Nat
  <2>1. SolverOk(solvers[t], kind) /\ kind \in Seq(Kinds)
    BY <1>1 DEF SolversInv, TypeInv
  <2>2. Len(kind) \in Nat
    BY <2>1, LenProperties
  <2> QED BY <2>1, <2>2 DEF SolverOk
<1> DEFINE e == seen[t] \union new
<1>5. e \in SUBSET Nat /\ seen' = [seen EXCEPT ![t] = e]
  BY <1>3, <1>4
<1> HIDE DEF e
<1>6. /\ [seen EXCEPT ![t] = e] \in Seq(SUBSET Nat) /\ Len([seen EXCEPT ![t] = e]) = Len(seen)
      /\ \A j \in 1..Len(seen) : [seen EXCEPT ![t] = e][j] = IF j = t THEN e ELSE seen[j]
  BY <1>2, <1>3, <1>5, ExceptSeq
<1> QED BY <1>2, <1>3, <1>5, <1>6 DEF e

\* check: what was processed is propagated, all of it if there is no conflict.
LEMMA CheckedSolver ==
    ASSUME IInv, pc \in {"simplify", "search"}, NEW t \in DOMAIN solvers,
           pc = "simplify" => t = 1, pc = "search" => t = turn,
           NEW n \in 1..(Len(solvers[t].todo) + 1), NEW r \in CheckedStates(solvers[t], n),
           UNCHANGED <<step, initVars, turn, statVars, ghostVars>>,
           solvers' = [solvers EXCEPT ![t] = r],
           seen' = [seen EXCEPT ![t] = @ \union {st.cons : st \in Processed(solvers[t], n)}],
           pc' = pc \/ pc' = "unsat",
           n \in DOMAIN solvers[t].todo /\ solvers[t].levels = <<>> => pc' = "unsat",
           status' \in {"fresh", "checked", "conflict"}, status' # status => t = turn
    PROVE  IInv'
<1> DEFINE s == solvers[t]
           new == {st.cons : st \in Processed(s, n)}
<1>1. TypeInv /\ SolversInv /\ SeenInv
  BY DEF IInv
<1>2. WellFormed(s) /\ s \in SolverSet /\ Elements(s.todo) \subseteq s.states
      /\ (s.levels # <<>> => pc = "search" /\ t = turn)
  BY <1>1 DEF SolversInv, SolverOk, WellFormed, Refers, Listed
<1>3. /\ WellFormed(r) /\ r.states = s.states /\ r.levels = s.levels
      /\ TodoExact(r)
      /\ Elements(r.inactive) \subseteq Elements(s.inactive) \union {x \in s.states : Removable(x.cons)}
  BY <1>2, Checked
<1>4. Processed(s, n) \subseteq Elements(s.todo)
  BY DEF Processed, Elements
<1>5. new \subseteq {st.cons : st \in s.states}
  BY <1>2, <1>4
<1>6. /\ seen' \in Seq(SUBSET Nat) /\ Len(seen') = Len(seen)
      /\ seen'[t] = seen[t] \union new
      /\ \A u \in DOMAIN solvers : u # t => seen'[u] = seen[u]
  <2> HIDE DEF new
  <2> QED BY <1>5, SeenGrows DEF new
<1>7. ASSUME pc' = pc
      PROVE  /\ NothingMissed(r, seen'[t])
             /\ r.levels # <<>> => Elements(constraints) \subseteq seen'[t]
  <2>1. pc # "unsat" /\ (t = 1 \/ pc = "search")
    OBVIOUS
  <2>2. NothingMissed(s, seen[t]) /\ (s.levels # <<>> => Elements(constraints) \subseteq seen[t])
    BY <2>1, <1>1 DEF SeenInv
  <2>3. CASE s.levels # <<>>
    <3>1. \A st \in s.states : st.cons \in Elements(constraints)
      BY <2>1, StateHasConstraint
    <3> HIDE DEF new, s
    <3> QED BY <3>1, <2>2, <2>3, <1>3, <1>6 DEF NothingMissed
  <2>4. CASE s.levels = <<>>
    <3>1. n \notin DOMAIN s.todo
      BY <2>4, <1>7
    <3>2. Len(s.todo) \in Nat /\ DOMAIN s.todo = 1..Len(s.todo)
      BY <1>2, FieldTypes
    <3>3. n = Len(s.todo) + 1
      BY <3>1, <3>2
    <3>4. Processed(s, n) = Elements(s.todo)
      BY <3>3, <1>2, AllProcessed
    <3>5. \A st \in s.states : st.cons \in seen[t] \union new
      BY <3>4, <2>2 DEF NothingMissed
    <3> HIDE DEF new, s
    <3> QED BY <3>5, <2>4, <1>3, <1>6 DEF NothingMissed
  <2> QED BY <2>3, <2>4
<1> HIDE DEF new
<1>8. r.levels # <<>> => pc = "search" /\ t = turn
  BY <1>2, <1>3
<1>9. SolverKept(t, r)
  BY <1>3, <1>8 DEF SolverKept
<1> HIDE DEF s
<1>10. PropagationKept(t, r)
  BY <1>3, <1>6, <1>7 DEF PropagationKept
<1> QED BY <1>9, <1>10, SolverStep

\* The propagation of the master.
LEMMA SimplifyStep ==
    ASSUME IInv, Simplify
    PROVE  IInv'
<1> DEFINE s == solvers[1]
<1>1. TypeInv /\ SolversInv /\ SeenInv
  BY DEF IInv
<1>2. 1 \in DOMAIN solvers
  BY <1>1, SolversType
<1>3. /\ WellFormed(s) /\ s \in SolverSet /\ s.levels = <<>>
      /\ NothingMissed(s, seen[1])
  BY <1>1, <1>2 DEF SolversInv, SolverOk, WellFormed, SeenInv, Simplify
<1>4. /\ pc = "simplify" /\ turn' = turn /\ status' = status
      /\ UNCHANGED <<step, initVars, turn, statVars, ghostVars>>
      /\ status \in {"fresh", "checked", "conflict"}
      /\ seen \in Seq(SUBSET Nat)
  BY <1>1 DEF Simplify, TypeInv
<1>5. ASSUME NEW st \in s.watches, solvers' = Master(Updated(s, st)), UNCHANGED <<pc, seen>>
      PROVE  IInv'
  <2> DEFINE r == Updated(s, st)
  <2>1. /\ WellFormed(r) /\ r.states = s.states /\ r.levels = s.levels /\ r.inactive = s.inactive
        /\ Elements(s.todo) \subseteq Elements(r.todo)
    BY <1>3, UpdatedWatch
  <2>2. solvers' = [solvers EXCEPT ![1] = r]
    BY <1>5 DEF Master
  <2> HIDE DEF r
  <2>3. NothingMissed(r, seen[1])
    BY <2>1, <1>3 DEF NothingMissed
  <2>4. r.levels = <<>>
    BY <2>1, <1>3
  <2>5. SolverKept(1, r)
    BY <2>1, <2>2, <2>4 DEF SolverKept
  <2>6. PropagationKept(1, r)
    BY <2>3, <2>4, <1>4, <1>5 DEF PropagationKept
  <2> QED BY <2>5, <2>6, <1>2, <1>4, <1>5, SolverStep
<1>6. ASSUME NEW n \in 1..(Len(s.todo) + 1), NEW r \in CheckedStates(s, n), solvers' = Master(r),
             seen' = [seen EXCEPT ![1] = @ \union {st.cons : st \in Processed(s, n)}],
             pc' = IF n \in DOMAIN s.todo THEN "unsat" ELSE pc
      PROVE  IInv'
  <2>1. solvers' = [solvers EXCEPT ![1] = r]
    BY <1>6 DEF Master
  <2> QED BY <2>1, <1>2, <1>4, <1>6, CheckedSolver
<1>7. ASSUME pc' = "minimize", UNCHANGED <<solvers, seen>>
      PROVE  IInv'
  BY <1>4, <1>7 DEF IInv, TypeInv, SolversInv, ExactInv, ListInv, StatesInv, CountInv, TranslateInv,
                    ObjectiveInv, SeenInv, initVars, statVars, ghostVars, Phases
<1> QED BY <1>5, <1>6, <1>7 DEF Simplify

\* The solver that searches.
LEMMA CurrentSolver ==
    ASSUME IInv, pc = "search"
    PROVE  /\ turn \in DOMAIN solvers
           /\ WellFormed(Current) /\ Current \in SolverSet
           /\ NothingMissed(Current, seen[turn])
           /\ Current.levels # <<>> => Elements(constraints) \subseteq seen[turn]
           /\ status # "fresh" => TodoExact(Current)
           /\ status \in {"fresh", "checked", "conflict"}
           /\ seen \in Seq(SUBSET Nat)
<1>1. TypeInv /\ SolversInv /\ SeenInv /\ ExactInv
  BY DEF IInv
<1>2. turn \in DOMAIN solvers
  BY <1>1, SolversType
<1> QED BY <1>1, <1>2 DEF SolversInv, SolverOk, WellFormed, SeenInv, ExactInv, TypeInv, Current

\* Clasp reports a change to the solver that searches.
LEMMA NoticeStep ==
    ASSUME IInv, Notice
    PROVE  IInv'
<1>1. /\ pc = "search" /\ pc' = pc /\ status' = status /\ seen' = seen
      /\ UNCHANGED <<step, initVars, turn, statVars, ghostVars>>
  BY DEF Notice, SearchVars
<1> DEFINE s == Current
<1>2. /\ turn \in DOMAIN solvers
      /\ WellFormed(s) /\ s \in SolverSet
      /\ NothingMissed(s, seen[turn])
      /\ s.levels # <<>> => Elements(constraints) \subseteq seen[turn]
      /\ status # "fresh" => TodoExact(s)
      /\ status \in {"fresh", "checked", "conflict"}
      /\ seen \in Seq(SUBSET Nat)
  BY <1>1, CurrentSolver
<1>3. ASSUME NEW r, WellFormed(r), r.states = s.states, r.levels = s.levels, r.inactive = s.inactive,
             Elements(s.todo) \subseteq Elements(r.todo), TodoExact(s) => TodoExact(r),
             solvers' = [solvers EXCEPT ![turn] = r]
      PROVE  IInv'
  <2>1. NothingMissed(r, seen[turn])
    BY <1>2, <1>3 DEF NothingMissed
  <2>2. SolverKept(turn, r)
    BY <1>1, <1>2, <1>3 DEF SolverKept, Current
  <2>3. PropagationKept(turn, r)
    BY <2>1, <1>1, <1>2, <1>3 DEF PropagationKept
  <2> QED BY <2>2, <2>3, <1>1, <1>2, SolverStep
<1>4. ASSUME NEW st \in s.watches, solvers' = [solvers EXCEPT ![turn] = Updated(@, st)]
      PROVE  IInv'
  <2> DEFINE r == Updated(s, st)
  <2>1. /\ WellFormed(r) /\ r.states = s.states /\ r.levels = s.levels /\ r.inactive = s.inactive
        /\ Elements(s.todo) \subseteq Elements(r.todo)
        /\ TodoExact(s) => TodoExact(r)
    BY <1>2, <1>4, UpdatedWatch
  <2>2. solvers' = [solvers EXCEPT ![turn] = r]
    BY <1>4 DEF Current
  <2> HIDE DEF r
  <2> QED BY <2>1, <2>2, <1>3
<1>5. ASSUME NEW st \in s.lits, solvers' = [solvers EXCEPT ![turn] = MarkTodo(@, st)]
      PROVE  IInv'
  <2> DEFINE r == MarkTodo(s, st)
  <2>1. st \in s.states
    BY <1>2, <1>5 DEF WellFormed, Refers
  <2>2. /\ WellFormed(r) /\ SameTrail(s, r)
        /\ Elements(s.todo) \subseteq Elements(r.todo)
        /\ TodoExact(s) => TodoExact(r)
    BY <2>1, <1>2, MarkedTodo
  <2>3. solvers' = [solvers EXCEPT ![turn] = r]
    BY <1>5 DEF Current
  <2> HIDE DEF r
  <2> QED BY <2>2, <2>3, <1>3 DEF SameTrail
<1> QED BY <1>4, <1>5 DEF Notice

\* The propagation of the solver that searches.
LEMMA CheckStep ==
    ASSUME IInv, Check
    PROVE  IInv'
<1>1. /\ pc = "search"
      /\ UNCHANGED <<step, initVars, turn, statVars, ghostVars>>
  BY DEF Check, SearchVars
<1>2. turn \in DOMAIN solvers /\ Current \in SolverSet
  BY <1>1, CurrentSolver
<1>3. PICK n \in 1..(Len(Current.todo) + 1) :
        /\ \E s \in CheckedStates(Current, n) : solvers' = [solvers EXCEPT ![turn] = s]
        /\ seen' = [seen EXCEPT ![turn] = @ \union {st.cons : st \in Processed(Current, n)}]
        /\ IF n \in DOMAIN Current.todo
           THEN /\ status' = "conflict"
                /\ pc' = IF LevelOf(Current) = 0 THEN "unsat" ELSE pc
           ELSE status' = "checked" /\ UNCHANGED pc
  BY DEF Check
<1>4. PICK r \in CheckedStates(Current, n) : solvers' = [solvers EXCEPT ![turn] = r]
  BY <1>3
<1>5. status' \in {"fresh", "checked", "conflict"} /\ (pc' = pc \/ pc' = "unsat")
  BY <1>3
<1>6. n \in DOMAIN Current.todo /\ Current.levels = <<>> => pc' = "unsat"
  <2>1. Current.levels = <<>> => LevelOf(Current) = 0
    BY EmptySeq DEF LevelOf
  <2> QED BY <2>1, <1>3
<1> QED BY <1>1, <1>2, <1>3, <1>4, <1>5, <1>6, CheckedSolver DEF Current

\* A decision: with an empty todo list everything was propagated.
LEMMA DecideStep ==
    ASSUME IInv, Decide
    PROVE  IInv'
<1>1. /\ pc = "search" /\ pc' = pc /\ status' = status /\ seen' = seen
      /\ UNCHANGED <<step, initVars, turn, statVars, ghostVars>>
      /\ Current.todo = <<>> /\ solvers' = [solvers EXCEPT ![turn] = Pushed(@)]
  BY DEF Decide, SearchVars
<1> DEFINE s == Current
           r == Pushed(s)
<1>2. /\ turn \in DOMAIN solvers
      /\ WellFormed(s) /\ s \in SolverSet
      /\ NothingMissed(s, seen[turn])
      /\ status # "fresh" => TodoExact(s)
      /\ status \in {"fresh", "checked", "conflict"}
      /\ seen \in Seq(SUBSET Nat)
  BY <1>1, CurrentSolver
<1>3. /\ WellFormed(r) /\ r.states = s.states /\ r.inactive = s.inactive
      /\ r.todo = s.todo /\ r.flagged = s.flagged
  BY <1>2, PushedLevel
<1>4. solvers' = [solvers EXCEPT ![turn] = r]
  BY <1>1 DEF Current
<1> HIDE DEF r
<1>5. NothingMissed(r, seen[turn]) /\ (TodoExact(s) => TodoExact(r))
  BY <1>2, <1>3 DEF NothingMissed, TodoExact
<1>6. Elements(constraints) \subseteq seen[turn]
  <2>1. \A c \in Elements(constraints) : \E st \in s.states : st.cons = c
    BY <1>1, <1>2, StateHasConstraint DEF Current
  <2>2. Elements(s.todo) = {}
    BY <1>1 DEF Elements
  <2> QED BY <2>1, <2>2, <1>2 DEF NothingMissed
<1>7. SolverKept(turn, r)
  BY <1>1, <1>2, <1>3, <1>4 DEF SolverKept, Current
<1>8. PropagationKept(turn, r)
  BY <1>1, <1>2, <1>3, <1>5, <1>6 DEF PropagationKept
<1> QED BY <1>1, <1>2, <1>7, <1>8, SolverStep

\* Backtracking: the todo list is dropped, but everything was propagated before
\* the level was opened.
LEMMA UndoStep ==
    ASSUME IInv, Undo
    PROVE  IInv'
<1>1. /\ pc = "search" /\ pc' = pc /\ status' = "checked" /\ seen' = seen
      /\ UNCHANGED <<step, initVars, turn, statVars, ghostVars>>
      /\ LevelOf(Current) > 0 /\ solvers' = [solvers EXCEPT ![turn] = Undone(@)]
  BY DEF Undo, SearchVars
<1> DEFINE s == Current
           r == Undone(s)
<1>2. /\ turn \in DOMAIN solvers
      /\ WellFormed(s) /\ s \in SolverSet
      /\ s.levels # <<>> => Elements(constraints) \subseteq seen[turn]
      /\ seen \in Seq(SUBSET Nat)
  BY <1>1, CurrentSolver
<1>3. /\ WellFormed(r) /\ r.states = s.states /\ TodoExact(r)
      /\ Elements(r.inactive) \subseteq Elements(s.inactive)
  BY <1>1, <1>2, UndoneLevel DEF LevelOf
<1>4. solvers' = [solvers EXCEPT ![turn] = r]
  BY <1>1 DEF Current
<1> HIDE DEF r
<1>5. Elements(constraints) \subseteq seen[turn]
  <2>1. s.levels # <<>>
    <3>1. Len(<<>>) = 0
      BY EmptySeq
    <3> QED BY <3>1, <1>1 DEF LevelOf
  <2> QED BY <2>1, <1>2
<1>6. NothingMissed(r, seen[turn])
  <2>1. \A st \in s.states : st.cons \in Elements(constraints)
    BY <1>1, <1>2, StateHasConstraint DEF Current
  <2> QED BY <2>1, <1>3, <1>5 DEF NothingMissed
<1>7. SolverKept(turn, r)
  BY <1>1, <1>2, <1>3, <1>4 DEF SolverKept, Current
<1>8. PropagationKept(turn, r)
  BY <1>1, <1>2, <1>3, <1>5, <1>6 DEF PropagationKept
<1> QED BY <1>1, <1>2, <1>7, <1>8, SolverStep

-----------------------------------------------------------------------------
(* Steps that leave the solvers alone, and the start.                      *)

\* The parts of the invariant.
LEMMA Parts ==
    ASSUME IInv
    PROVE  /\ TypeInv /\ SolversInv /\ ExactInv /\ ListInv /\ StatesInv /\ CountInv /\ TranslateInv
           /\ ObjectiveInv /\ SeenInv
           /\ Word \in Nat \ {0}
BY LifeCycleAssumption DEF IInv

\* Reading an objective.
LEMMA ParseObjectiveStep ==
    ASSUME IInv, ParseObjective
    PROVE  IInv'
<1>1. /\ pc = "parse" /\ pc' = pc /\ step' = step /\ constraints' = constraints /\ kind' = kind
      /\ minimize' = minimize /\ translateMinimize' = translateMinimize /\ idx' = idx /\ jdx' = jdx
      /\ solvers' = solvers /\ turn' = turn /\ status' = status /\ numStep' = numStep
      /\ numAccu' = numAccu /\ inClasp' = inClasp /\ seen' = seen
      /\ posted' = posted \union {step} /\ inMinimize' = inMinimize \union {step}
  BY DEF ParseObjective, initVars, statVars
<1>2. ObjectiveInv'
  BY <1>1, Parts DEF ObjectiveInv
<1>3. TypeInv' /\ SolversInv' /\ ExactInv' /\ ListInv' /\ StatesInv' /\ CountInv' /\ TranslateInv' /\ SeenInv'
  BY <1>1, Parts DEF TypeInv, SolversInv, ExactInv, ListInv, StatesInv, CountInv, TranslateInv, SeenInv
<1> QED BY <1>2, <1>3 DEF IInv

\* The end of the program.
LEMMA ParseEndStep ==
    ASSUME IInv, ParseEnd
    PROVE  IInv'
<1>1. /\ pc = "parse" /\ pc' = "simplify" /\ step' = step /\ constraints' = constraints /\ kind' = kind
      /\ minimize' = minimize /\ translateMinimize' = translateMinimize /\ idx' = idx /\ jdx' = jdx
      /\ solvers' = solvers /\ turn' = turn /\ status' = status /\ numStep' = numStep
      /\ numAccu' = numAccu /\ inClasp' = inClasp /\ seen' = seen
      /\ posted' = posted /\ inMinimize' = inMinimize
  BY DEF ParseEnd, initVars, statVars, ghostVars
<1>2. ObjectiveInv' /\ TypeInv'
  BY <1>1, Parts DEF ObjectiveInv, TypeInv, Phases
<1>3. SolversInv' /\ ExactInv' /\ ListInv' /\ StatesInv' /\ CountInv' /\ TranslateInv' /\ SeenInv'
  BY <1>1, Parts DEF SolversInv, ExactInv, ListInv, StatesInv, CountInv, TranslateInv, SeenInv
<1> QED BY <1>2, <1>3 DEF IInv

\* Any step that changes nothing.
LEMMA Stuttering ==
    ASSUME IInv, UNCHANGED vars
    PROVE  IInv'
<1>1. /\ pc' = pc /\ step' = step /\ constraints' = constraints /\ kind' = kind
      /\ minimize' = minimize /\ translateMinimize' = translateMinimize /\ idx' = idx /\ jdx' = jdx
      /\ solvers' = solvers /\ turn' = turn /\ status' = status /\ numStep' = numStep
      /\ numAccu' = numAccu /\ inClasp' = inClasp /\ seen' = seen
      /\ posted' = posted /\ inMinimize' = inMinimize
  BY DEF vars, initVars, statVars, ghostVars
<1>2. ObjectiveInv' /\ TypeInv'
  BY <1>1, Parts DEF ObjectiveInv, TypeInv
<1>3. SolversInv' /\ ExactInv' /\ ListInv' /\ StatesInv' /\ CountInv' /\ TranslateInv' /\ SeenInv'
  BY <1>1, Parts DEF SolversInv, ExactInv, ListInv, StatesInv, CountInv, TranslateInv, SeenInv
<1> QED BY <1>2, <1>3 DEF IInv

\* A solver that stops is on level 0, and so are those that stopped before.
LEMMA Stopped ==
    ASSUME IInv, Stop
    PROVE  /\ pc = "search" /\ status = "checked"
           /\ \A t \in DOMAIN solvers : solvers[t].levels = <<>>
           /\ \A t \in DOMAIN solvers : t <= turn => TodoExact(solvers[t])
<1>1. pc = "search" /\ status = "checked" /\ LevelOf(Current) = 0
  BY DEF Stop
<1>2. turn \in DOMAIN solvers /\ Current \in SolverSet
  BY <1>1, CurrentSolver
<1>3. Current.levels = <<>>
  <2>1. Current.levels \in Seq(OffsetSet)
    BY <1>2, FieldTypes
  <2> QED BY <2>1, <1>1, EmptySeq DEF LevelOf
<1>4. ASSUME NEW t \in DOMAIN solvers
      PROVE  solvers[t].levels = <<>>
  BY <1>3, Parts DEF SolversInv, Current
<1>5. ASSUME NEW t \in DOMAIN solvers, t <= turn
      PROVE  TodoExact(solvers[t])
  <2>1. t \in Nat /\ turn \in Nat
    BY <1>2, Parts, SolversType
  <2>2. t < turn \/ (t = turn /\ status # "fresh")
    BY <2>1, <1>1, <1>5
  <2> QED BY <2>2, <1>1, Parts DEF ExactInv
<1> QED BY <1>1, <1>4, <1>5

\* The next solver searches.
LEMMA NextThreadStep ==
    ASSUME IInv, NextThread
    PROVE  IInv'
<1>1. /\ pc' = pc /\ step' = step /\ constraints' = constraints /\ kind' = kind
      /\ minimize' = minimize /\ translateMinimize' = translateMinimize /\ idx' = idx /\ jdx' = jdx
      /\ solvers' = solvers /\ turn' = turn + 1 /\ status' = "fresh" /\ numStep' = numStep
      /\ numAccu' = numAccu /\ inClasp' = inClasp /\ seen' = seen
      /\ posted' = posted /\ inMinimize' = inMinimize
      /\ turn < Len(solvers) /\ Stop
  BY DEF NextThread, initVars, statVars, ghostVars
<1>2. /\ pc = "search" /\ status = "checked"
      /\ \A t \in DOMAIN solvers : solvers[t].levels = <<>>
      /\ \A t \in DOMAIN solvers : t <= turn => TodoExact(solvers[t])
  BY <1>1, Stopped
<1>3. Len(solvers) \in Nat /\ DOMAIN solvers = 1..Len(solvers) /\ turn \in 1..Len(solvers)
  BY Parts, SolversType
<1>4. TypeInv'
  BY <1>1, <1>3, Parts DEF TypeInv
<1>5. SolversInv'
  BY <1>1, <1>2, Parts DEF SolversInv
<1>6. ExactInv'
  BY <1>1, <1>2, <1>3 DEF ExactInv
<1>7. ObjectiveInv'
  BY <1>1, Parts DEF ObjectiveInv
<1>8. ListInv' /\ StatesInv' /\ CountInv' /\ TranslateInv' /\ SeenInv'
  BY <1>1, Parts DEF ListInv, StatesInv, CountInv, TranslateInv, SeenInv
<1> QED BY <1>4, <1>5, <1>6, <1>7, <1>8 DEF IInv

\* The next solve step.
LEMMA NextStepStep ==
    ASSUME IInv, NextStep
    PROVE  IInv'
<1>1. /\ pc' = "init" /\ step' = step + 1 /\ constraints' = constraints /\ kind' = kind
      /\ minimize' = minimize /\ translateMinimize' = translateMinimize /\ idx' = idx /\ jdx' = jdx
      /\ solvers' = solvers /\ turn' = turn /\ status' = status
      /\ numAccu' = (numAccu + numStep) % Word /\ numStep' = 0 /\ inClasp' = inClasp /\ seen' = seen
      /\ posted' = posted /\ inMinimize' = inMinimize
      /\ turn = Len(solvers) /\ Stop
  BY DEF NextStep, initVars, ghostVars
<1>2. /\ pc = "search" /\ status = "checked"
      /\ \A t \in DOMAIN solvers : solvers[t].levels = <<>>
      /\ \A t \in DOMAIN solvers : t <= turn => TodoExact(solvers[t])
  BY <1>1, Stopped
<1>3. Len(solvers) \in Nat /\ DOMAIN solvers = 1..Len(solvers) /\ turn \in 1..Len(solvers)
  BY Parts, SolversType
<1>4. numAccu \in Int /\ numStep \in Int /\ Word \in Nat \ {0}
  BY Parts DEF TypeInv
<1>5. CountInv' /\ numAccu' \in Int /\ numStep' \in Int
  <2> DEFINE a == numAccu + numStep
  <2>1. a \in Int
    BY <1>4
  <2>2. (a % Word) = (Len(constraints) % Word)
    BY <1>2, Parts DEF CountInv
  <2>3. (0 + (a % Word)) % Word = (0 + a) % Word
    <3> HIDE DEF a
    <3>1. ASSUME NEW x \in Int
          PROVE  (x + (a % Word)) % Word = (x + a) % Word
      BY <1>4, <2>1, ModAdd
    <3>2. 0 \in Int
      OBVIOUS
    <3> QED BY <3>1, <3>2
  <2>4. (a % Word) \in Int
    BY <1>4, <2>1, ModOf
  <2>5. numAccu' = (a % Word)
    BY <1>1
  <2> HIDE DEF a
  <2>6. 0 + a = a /\ 0 + (a % Word) = (a % Word) + 0
    BY <2>1, <2>4
  <2>7. (numAccu' + numStep') % Word = Len(constraints') % Word
    BY <2>2, <2>3, <2>5, <2>6, <1>1
  <2> QED BY <2>4, <2>5, <2>7, <1>1 DEF CountInv
<1>6. TypeInv'
  BY <1>1, <1>5, Parts DEF TypeInv, Phases
<1>7. SolversInv'
  BY <1>1, <1>2, Parts DEF SolversInv
<1>8. ExactInv'
  BY <1>1, <1>2, <1>3 DEF ExactInv
<1>9. ObjectiveInv'
  BY <1>1, <1>2, Parts DEF ObjectiveInv
<1>10. SeenInv'
  BY <1>1, <1>2, Parts DEF SeenInv
<1>11. ListInv' /\ StatesInv' /\ TranslateInv'
  BY <1>1, <1>2, Parts DEF ListInv, StatesInv, TranslateInv
<1> QED BY <1>5, <1>6, <1>7, <1>8, <1>9, <1>10, <1>11 DEF IInv

\* At the start there is one solver without states.
LEMMA InitInvariant ==
    ASSUME Init
    PROVE  IInv
<1>1. /\ step = 1 /\ pc = "init" /\ constraints = <<>> /\ kind = <<>>
      /\ minimize = None /\ translateMinimize = FALSE /\ idx = 1 /\ jdx = 1
      /\ solvers = <<NoStates>> /\ turn = 1 /\ status = "fresh" /\ numStep = 0 /\ numAccu = 0
      /\ posted = {} /\ inClasp = {} /\ inMinimize = {} /\ seen = <<{}>>
  BY DEF Init
<1>2. Elements(<<>>) = {} /\ DOMAIN <<>> = {} /\ Len(<<>>) = 0 /\ OneToOne(<<>>)
  BY EmptySeq DEF Elements, OneToOne
<1>3. NoStates \in SolverSet
  <2>1. <<>> \in Seq(StateSet) /\ <<>> \in Seq(OffsetSet)
    BY EmptySeq
  <2>2. <<>> \in [{} -> Nat]
    BY <1>2
  <2>3. <<>> \in Marks
    BY <2>2 DEF Marks
  <2> QED BY <2>1, <2>3 DEF NoStates, SolverSet
<1>4. /\ NoStates.states = {} /\ NoStates.lits = {} /\ NoStates.watches = {} /\ NoStates.removed = <<>>
      /\ NoStates.todo = <<>> /\ NoStates.flagged = {} /\ NoStates.inactive = <<>>
      /\ NoStates.mark = <<>> /\ NoStates.levels = <<>>
  BY DEF NoStates
<1>5. Refers(NoStates)
  <2>1. <<>> \in [{} -> Nat]
    BY <1>2
  <2> QED BY <2>1, <1>2, <1>4 DEF Refers, Listed
<1>6. WellFormed(NoStates)
  BY <1>3, <1>4, <1>5, TopWellFormed
<1>7. TodoExact(NoStates)
  BY <1>2, <1>4 DEF TodoExact
<1>8. solvers \in Seq(SolverSet) /\ Len(solvers) = 1 /\ DOMAIN solvers = {1} /\ solvers[1] = NoStates
  BY <1>1, <1>3
<1>9. seen \in Seq(SUBSET Nat) /\ Len(seen) = 1
  BY <1>1
<1>10. TypeInv
  <2>1. kind \in Seq(Kinds) /\ constraints \in Seq(1..Len(kind))
    BY <1>1, EmptySeq
  <2>2. pc \in Phases /\ step \in Nat /\ minimize \in Nat /\ translateMinimize \in BOOLEAN
        /\ idx \in Nat /\ jdx \in Nat
    BY <1>1 DEF Phases, None
  <2>3. turn \in 1..Len(solvers) /\ numStep \in Int /\ numAccu \in Int /\ Len(seen) = Len(solvers)
    BY <1>1, <1>8, <1>9
  <2>4. status \in {"fresh", "checked", "conflict"}
    BY <1>1
  <2> QED BY <2>1, <2>2, <2>3, <2>4, <1>8, <1>9 DEF TypeInv
<1>11. SolversInv
  BY <1>2, <1>4, <1>6, <1>8 DEF SolversInv, SolverOk
<1>12. ExactInv
  BY <1>7, <1>8 DEF ExactInv
<1>13. ListInv
  BY <1>1, <1>2 DEF ListInv
<1>14. StatesInv
  BY <1>1, <1>2, <1>4, <1>8 DEF StatesInv, ConsOf
<1>15. CountInv /\ TranslateInv
  <2>1. Len(constraints) = 0 /\ numAccu + numStep = 0
    BY <1>1, <1>2
  <2> QED BY <2>1, <1>1 DEF CountInv, TranslateInv
<1>16. ObjectiveInv
  BY <1>1 DEF ObjectiveInv
<1>17. SeenInv
  BY <1>1, <1>4, <1>8 DEF SeenInv, NothingMissed
<1> QED BY <1>10, <1>11, <1>12, <1>13, <1>14, <1>15, <1>16, <1>17 DEF IInv

-----------------------------------------------------------------------------
(* Adding and removing constraints.                                        *)

\* New constraints do not matter to the states of the others.
LEMMA KindsAdded ==
    ASSUME NEW s, NEW k, NEW j, SolverOk(s, k), Len(k) \in Nat, Len(j) \in Nat,
           Len(k) <= Len(j), \A i \in 1..Len(k) : j[i] = k[i]
    PROVE  SolverOk(s, j)
<1>1. /\ WellFormed(s) /\ Elements(s.inactive) \subseteq s.states
      /\ \A st \in s.states : st.cons \in 1..Len(k)
      /\ \A st \in Elements(s.inactive) : k[st.cons] # "minimize"
  BY DEF SolverOk, WellFormed, Refers, Listed
<1>2. \A st \in s.states : st.cons \in 1..Len(j)
  BY <1>1
<1>3. \A st \in Elements(s.inactive) : j[st.cons] # "minimize"
  BY <1>1
<1> QED BY <1>1, <1>2, <1>3 DEF SolverOk

\* Before the search all solvers are on level 0.
LEMMA LevelZero ==
    ASSUME IInv, pc \notin {"search", "unsat"}
    PROVE  \A t \in DOMAIN solvers : solvers[t].levels = <<>> /\ WellFormed(solvers[t])
BY Parts DEF SolversInv, SolverOk

\* Then the master may be replaced by another solver on level 0.
LEMMA MasterChanged ==
    ASSUME IInv, pc \notin {"search", "unsat"}, NEW r, SolverOk(r, kind'), r.levels = <<>>,
           kind' \in Seq(Kinds), Len(kind) <= Len(kind'), \A i \in 1..Len(kind) : kind'[i] = kind[i],
           solvers' = Master(r)
    PROVE  /\ solvers' \in Seq(SolverSet) /\ Len(solvers') = Len(solvers) /\ solvers'[1] = r
           /\ SolversInv'
<1>1. kind \in Seq(Kinds) /\ solvers \in Seq(SolverSet)
  BY Parts DEF TypeInv
<1>2. Len(kind) \in Nat /\ Len(kind') \in Nat
  BY <1>1, LenProperties
<1>3. 1 \in 1..Len(solvers) /\ DOMAIN solvers = 1..Len(solvers)
  BY Parts, SolversType
<1>4. r \in SolverSet /\ solvers' = [solvers EXCEPT ![1] = r]
  BY DEF SolverOk, WellFormed, Master
<1>5. LET new == [solvers EXCEPT ![1] = r] IN
      /\ new \in Seq(SolverSet) /\ Len(new) = Len(solvers)
      /\ DOMAIN new = 1..Len(solvers) /\ DOMAIN solvers = 1..Len(solvers)
      /\ new[1] = r /\ \A u \in 1..Len(solvers) : u # 1 => new[u] = solvers[u]
  BY <1>1, <1>3, <1>4, SolverReplaced
<1>6. /\ solvers' \in Seq(SolverSet) /\ Len(solvers') = Len(solvers) /\ DOMAIN solvers' = 1..Len(solvers)
      /\ solvers'[1] = r /\ \A u \in 1..Len(solvers) : u # 1 => solvers'[u] = solvers[u]
  BY <1>4, <1>5
<1>7. ASSUME NEW u \in 1..Len(solvers)
      PROVE  SolverOk(solvers'[u], kind') /\ solvers'[u].levels = <<>>
  <2>1. CASE u = 1
    BY <2>1, <1>6
  <2>2. CASE u # 1
    <3>1. SolverOk(solvers[u], kind) /\ solvers[u].levels = <<>>
      BY <1>3, LevelZero, Parts DEF SolversInv
    <3>2. SolverOk(solvers[u], kind')
      BY <3>1, <1>2, KindsAdded
    <3> QED BY <3>1, <3>2, <2>2, <1>6
  <2> QED BY <2>1, <2>2
<1> QED BY <1>6, <1>7 DEF SolversInv

\* The objective of the last step, taken out of one solver.
LEMMA MinimizeRemoved ==
    ASSUME IInv, pc = "init", minimize # None, NEW t \in DOMAIN solvers
    PROVE  LET r == WithoutState(solvers[t], StateOf(t, minimize)) IN
           /\ SolverOk(r, kind) /\ r.levels = <<>>
           /\ ConsOf(r) = Elements(constraints) \ {minimize}
           /\ \A p : NothingMissed(solvers[t], p) => NothingMissed(r, p)
<1> DEFINE s == solvers[t]
           st == StateOf(t, minimize)
           r == WithoutState(s, st)
<1>1. /\ minimize \in Elements(constraints) /\ kind[minimize] = "minimize"
      /\ ConsOf(s) = Elements(constraints)
      /\ SolverOk(s, kind) /\ TodoExact(s) /\ s.levels = <<>>
  BY Parts DEF ListInv, StatesInv, SolversInv, ExactInv
<1>2. \E x \in s.states : x.cons = minimize
  BY <1>1 DEF ConsOf
<1>3. st \in s.states /\ st.cons = minimize
  BY <1>2 DEF StateOf
<1>4. WellFormed(s) /\ st \notin Elements(s.inactive)
  BY <1>1, <1>3 DEF SolverOk
<1>5. \A x, y \in s.states : x.cons = y.cons => x = y
  BY <1>4 DEF WellFormed, Refers
<1> HIDE DEF st, s
<1>6. /\ WellFormed(r) /\ r.levels = <<>> /\ r.inactive = s.inactive
      /\ r.states = s.states \ {st}
      /\ Elements(r.todo) = Elements(s.todo) \ {st}
  BY <1>1, <1>3, <1>4, StateRemoved
<1> HIDE DEF r
<1>7. SolverOk(r, kind)
  BY <1>1, <1>6 DEF SolverOk
<1>8. ConsOf(r) = Elements(constraints) \ {minimize}
  <2>1. ConsOf(s) = {x.cons : x \in s.states} /\ ConsOf(r) = {x.cons : x \in s.states \ {st}}
    BY <1>6 DEF ConsOf
  <2>2. \A x \in s.states : x # st <=> x.cons # minimize
    BY <1>3, <1>5
  <2> QED BY <2>1, <2>2, <1>1
<1>9. \A p : NothingMissed(s, p) => NothingMissed(r, p)
  BY <1>6 DEF NothingMissed
<1> QED BY <1>6, <1>7, <1>8, <1>9 DEF r, s, st

\* Removing the objective of the last step.
LEMMA RemoveMinimizeStep ==
    ASSUME IInv, RemoveMinimize
    PROVE  IInv'
<1>1. /\ pc = "init" /\ pc' = "parse" /\ step' = step /\ kind' = kind /\ minimize' = None
      /\ translateMinimize' = translateMinimize /\ idx' = idx /\ jdx' = jdx
      /\ turn' = turn /\ status' = status /\ numAccu' = numAccu /\ seen' = seen
      /\ inClasp' = inClasp /\ posted' = posted /\ inMinimize' = inMinimize
  BY DEF RemoveMinimize, initVars, ghostVars
<1>2. ObjectiveInv' /\ ExactInv' /\ TranslateInv'
  BY <1>1, Parts DEF ObjectiveInv, ExactInv, TranslateInv
<1>3. CASE minimize = None
  <2>1. constraints' = constraints /\ solvers' = solvers /\ numStep' = numStep
    BY <1>3 DEF RemoveMinimize, initVars
  <2>2. TypeInv' /\ SolversInv' /\ ListInv'
    BY <2>1, <1>1, <1>3, Parts DEF TypeInv, SolversInv, ListInv, Phases
  <2>3. StatesInv' /\ CountInv' /\ SeenInv'
    BY <2>1, <1>1, Parts DEF StatesInv, CountInv, SeenInv
  <2> QED BY <2>2, <2>3, <1>2 DEF IInv
<1>4. CASE minimize # None
  <2> DEFINE R(t) == WithoutState(solvers[t], StateOf(t, minimize))
  <2>1. /\ numStep' = (numStep - 1) % Word
        /\ solvers' = [t \in DOMAIN solvers |-> R(t)]
        /\ constraints' = WithoutFirst(constraints, minimize)
    BY <1>4 DEF RemoveMinimize
  <2>2. ASSUME NEW t \in DOMAIN solvers
        PROVE  /\ SolverOk(R(t), kind) /\ R(t).levels = <<>>
               /\ ConsOf(R(t)) = Elements(constraints) \ {minimize}
               /\ \A p : NothingMissed(solvers[t], p) => NothingMissed(R(t), p)
    BY <1>1, <1>4, MinimizeRemoved
  <2> HIDE DEF R
  <2>3. /\ constraints \in Seq(1..Len(kind)) /\ minimize \in Elements(constraints)
        /\ OneToOne(constraints) /\ \A c \in Elements(constraints) : kind[c] = "minimize" => c = minimize
    BY <1>1, <1>4, Parts DEF TypeInv, ListInv
  <2>4. LET new == WithoutFirst(constraints, minimize) IN
        /\ new \in Seq(1..Len(kind)) /\ Len(new) = Len(constraints) - 1
        /\ Elements(constraints) \ {minimize} \subseteq Elements(new)
        /\ Elements(new) \subseteq Elements(constraints)
        /\ OneToOne(constraints) => OneToOne(new) /\ Elements(new) = Elements(constraints) \ {minimize}
    BY <2>3, FirstRemoved
  <2>5. /\ constraints' \in Seq(1..Len(kind)) /\ Len(constraints') = Len(constraints) - 1
        /\ OneToOne(constraints') /\ Elements(constraints') = Elements(constraints) \ {minimize}
    BY <2>1, <2>3, <2>4
  <2>6. DOMAIN solvers = 1..Len(solvers) /\ Len(solvers) \in Nat /\ 1 \in 1..Len(solvers)
    BY Parts, SolversType
  <2>7. \A t \in 1..Len(solvers) : R(t) \in SolverSet
    BY <2>2, <2>6 DEF SolverOk, WellFormed
  <2>8. /\ solvers' \in Seq(SolverSet) /\ Len(solvers') = Len(solvers) /\ DOMAIN solvers' = 1..Len(solvers)
        /\ \A t \in 1..Len(solvers) : solvers'[t] = R(t)
    BY <2>1, <2>6, <2>7
  <2>9. SolversInv'
    BY <2>2, <2>6, <2>8, <1>1 DEF SolversInv
  <2>10. ListInv'
    BY <2>3, <2>5, <1>1 DEF ListInv, None
  <2>11. StatesInv'
    BY <2>2, <2>5, <2>6, <2>8, <1>1 DEF StatesInv
  <2>12. SeenInv'
    <3>1. NothingMissed(solvers[1], seen[1])
      BY <2>6, <1>1, Parts DEF SeenInv
    <3> QED BY <3>1, <2>2, <2>6, <2>8, <1>1 DEF SeenInv
  <2>13. numAccu \in Int /\ numStep \in Int /\ Word \in Nat \ {0} /\ Len(constraints) \in Int
    <3>1. Len(constraints) \in Nat
      BY <2>3, LenProperties
    <3> QED BY <3>1, Parts DEF TypeInv
  <2>14. CountInv' /\ numStep' \in Int
    <3>1. (numAccu + numStep) % Word = Len(constraints) % Word
      BY <1>1, Parts DEF CountInv
    <3> DEFINE n == Len(constraints)
    <3>2. ASSUME NEW k \in Int
          PROVE  (numAccu + ((numStep + k) % Word)) % Word = (n + k) % Word
      <4>1. n \in Int /\ (numAccu + numStep) % Word = n % Word
        BY <3>1, <2>13
      <4> HIDE DEF n
      <4> QED BY <4>1, <2>13, CountUp
    <3>3. -1 \in Int /\ numStep - 1 = numStep + (-1) /\ Len(constraints) - 1 = Len(constraints) + (-1)
      BY <2>13
    <3>4. numStep' = ((numStep + (-1)) % Word) /\ Len(constraints') = Len(constraints) + (-1)
      BY <3>3, <2>1, <2>5
    <3>5. (numAccu + numStep') % Word = Len(constraints') % Word
      BY <3>2, <3>3, <3>4
    <3>6. numStep + (-1) \in Int
      BY <2>13
    <3> QED BY <3>4, <3>5, <3>6, <2>13, <1>1, ModOf DEF CountInv
  <2>15. TypeInv'
    <3>1. pc' \in Phases /\ None \in Nat
      BY <1>1 DEF Phases, None
    <3>2. Len(seen') = Len(solvers') /\ turn' \in 1..Len(solvers')
      BY <2>8, <1>1, Parts DEF TypeInv
    <3> QED BY <3>1, <3>2, <2>5, <2>8, <2>14, <1>1, Parts DEF TypeInv
  <2> QED BY <2>9, <2>10, <2>11, <2>12, <2>14, <2>15, <1>2 DEF IInv
<1> QED BY <1>3, <1>4

\* The statistics, when the counter of the step goes up or down by j.
LEMMA Counted ==
    ASSUME numAccu \in Int, numStep \in Int, NEW n \in Int, NEW j \in Int,
           (numAccu + numStep) % Word = n % Word
    PROVE  /\ (numStep + j) % Word \in Int
           /\ (numAccu + ((numStep + j) % Word)) % Word = (n + j) % Word
<1>1. Word \in Nat \ {0} /\ numStep + j \in Int
  BY LifeCycleAssumption
<1>2. (numStep + j) % Word \in Int
  BY <1>1, ModOf
<1>3. (numAccu + ((numStep + j) % Word)) % Word = (n + j) % Word
  BY <1>1, CountUp
<1> QED BY <1>2, <1>3

\* A state for constraint c, which has none, in the master.
LEMMA MasterHasState ==
    ASSUME IInv, pc \notin {"search", "unsat"}, NEW c \in Nat, c \notin ConsOf(solvers[1])
    PROVE  LET r == WithState(solvers[1], State(1, c)) IN
           /\ WellFormed(r) /\ r.levels = <<>> /\ r.inactive = solvers[1].inactive
           /\ ConsOf(r) = ConsOf(solvers[1]) \union {c}
           /\ \A st \in r.states : st \in solvers[1].states \/ st.cons = c
           /\ \A p : NothingMissed(solvers[1], p) => NothingMissed(r, p)
<1> DEFINE s == solvers[1]
           st == State(1, c)
           r == WithState(s, st)
<1>1. 1 \in DOMAIN solvers
  BY Parts, SolversType
<1>2. WellFormed(s) /\ s.levels = <<>>
  BY <1>1, LevelZero
<1>3. st \in StateSet /\ st.cons = c
  <2>1. step \in Nat
    BY Parts DEF TypeInv
  <2> QED BY <2>1 DEF State, StateSet
<1>4. \A x \in s.states : x.cons # c
  BY DEF ConsOf
<1> HIDE DEF s, st
<1>5. /\ WellFormed(r) /\ r.levels = <<>> /\ r.inactive = s.inactive
      /\ r.states = s.states \union {st}
      /\ Elements(s.todo) \union {st} \subseteq Elements(r.todo)
  <2>1. \A x \in s.states : x.cons # st.cons
    BY <1>3, <1>4
  <2> QED BY <2>1, <1>2, <1>3, StateAdded
<1> HIDE DEF r
<1>6. ConsOf(r) = ConsOf(s) \union {c}
  BY <1>3, <1>5 DEF ConsOf
<1>7. \A p : NothingMissed(s, p) => NothingMissed(r, p)
  BY <1>5 DEF NothingMissed
<1>8. \A x \in r.states : x \in s.states \/ x.cons = c
  BY <1>3, <1>5
<1> QED BY <1>5, <1>6, <1>7, <1>8 DEF r, s, st

\* Propagator::add_constraint.
LEMMA AddsConstraint ==
    ASSUME IInv, pc \in {"parse", "minimize"}, NEW k \in Kinds, Adds(k)
    PROVE  LET c == Len(kind) + 1 IN
           /\ c \notin Elements(constraints)
           /\ kind' \in Seq(Kinds) /\ Len(kind') = c /\ kind'[c] = k
           /\ \A i \in 1..Len(kind) : kind'[i] = kind[i]
           /\ constraints' \in Seq(1..Len(kind')) /\ Len(constraints') = Len(constraints) + 1
           /\ constraints'[Len(constraints) + 1] = c
           /\ \A n \in 1..Len(constraints) : constraints'[n] = constraints[n]
           /\ Elements(constraints') = Elements(constraints) \union {c} /\ OneToOne(constraints')
           /\ solvers' \in Seq(SolverSet) /\ Len(solvers') = Len(solvers)
           /\ SolversInv'
           /\ ConsOf(solvers'[1]) = Elements(constraints')
           /\ NothingMissed(solvers'[1], seen[1])
           /\ numStep' \in Int /\ (numAccu + numStep') % Word = Len(constraints') % Word
<1> DEFINE c == Len(kind) + 1
           r == WithState(solvers[1], State(1, c))
<1>1. /\ kind' = Append(kind, k) /\ constraints' = Append(constraints, c)
      /\ solvers' = Master(r) /\ numStep' = (numStep + 1) % Word
  BY DEF Adds
<1>2. /\ kind \in Seq(Kinds) /\ constraints \in Seq(1..Len(kind))
      /\ numStep \in Int /\ numAccu \in Int /\ Word \in Nat \ {0}
      /\ OneToOne(constraints)
  BY Parts DEF TypeInv, ListInv
<1>3. Len(kind) \in Nat /\ Len(constraints) \in Nat
  BY <1>2, LenProperties
<1>4. LET new == Append(kind, k) IN
      /\ new \in Seq(Kinds) /\ Len(new) = Len(kind) + 1 /\ Len(kind) \in Nat
      /\ DOMAIN new = 1..(Len(kind) + 1) /\ DOMAIN kind = 1..Len(kind)
      /\ \A n \in 1..Len(kind) : new[n] = kind[n]
      /\ new[Len(kind) + 1] = k
      /\ Elements(new) = Elements(kind) \union {k}
      /\ OneToOne(kind) /\ k \notin Elements(kind) => OneToOne(new)
  BY <1>2, Appended
<1>5. /\ kind' \in Seq(Kinds) /\ Len(kind') = c /\ kind'[c] = k
      /\ \A i \in 1..Len(kind) : kind'[i] = kind[i]
  BY <1>1, <1>4
<1>6. constraints \in Seq(1..c) /\ Elements(constraints) \subseteq 1..Len(kind)
  <2>1. 1..Len(kind) \subseteq 1..c
    BY <1>3
  <2> HIDE DEF c
  <2> QED BY <2>1, <1>2, SeqMonotonic, ElementsOf
<1>7. c \notin Elements(constraints) /\ c \in 1..c /\ c \in Nat /\ Len(kind) <= c
  BY <1>3, <1>6
<1> HIDE DEF c
<1>8. LET new == Append(constraints, c) IN
      /\ new \in Seq(1..c) /\ Len(new) = Len(constraints) + 1 /\ Len(constraints) \in Nat
      /\ DOMAIN new = 1..(Len(constraints) + 1) /\ DOMAIN constraints = 1..Len(constraints)
      /\ \A n \in 1..Len(constraints) : new[n] = constraints[n]
      /\ new[Len(constraints) + 1] = c
      /\ Elements(new) = Elements(constraints) \union {c}
      /\ OneToOne(constraints) /\ c \notin Elements(constraints) => OneToOne(new)
  BY <1>6, <1>7, Appended
<1>9. /\ constraints' \in Seq(1..Len(kind')) /\ Len(constraints') = Len(constraints) + 1
      /\ constraints'[Len(constraints) + 1] = c
      /\ \A n \in 1..Len(constraints) : constraints'[n] = constraints[n]
      /\ Elements(constraints') = Elements(constraints) \union {c} /\ OneToOne(constraints')
  BY <1>1, <1>2, <1>5, <1>7, <1>8
<1>10. 1 \in DOMAIN solvers /\ SolverOk(solvers[1], kind) /\ ConsOf(solvers[1]) = Elements(constraints)
       /\ NothingMissed(solvers[1], seen[1])
  <2>1. 1 \in DOMAIN solvers
    BY Parts, SolversType
  <2> QED BY <2>1, Parts DEF SolversInv, StatesInv, SeenInv
<1>11. /\ WellFormed(r) /\ r.levels = <<>> /\ r.inactive = solvers[1].inactive
       /\ ConsOf(r) = ConsOf(solvers[1]) \union {c}
       /\ \A st \in r.states : st \in solvers[1].states \/ st.cons = c
       /\ \A p : NothingMissed(solvers[1], p) => NothingMissed(r, p)
  BY <1>7, <1>10, MasterHasState
<1> HIDE DEF r
<1>12. SolverOk(r, kind')
  <2>1. SolverOk(solvers[1], kind')
    BY <1>3, <1>5, <1>7, <1>10, KindsAdded
  <2> QED BY <2>1, <1>5, <1>7, <1>11 DEF SolverOk
<1>13. /\ solvers' \in Seq(SolverSet) /\ Len(solvers') = Len(solvers) /\ solvers'[1] = r
       /\ SolversInv'
  BY <1>1, <1>5, <1>7, <1>11, <1>12, MasterChanged
<1>14. numStep' \in Int /\ (numAccu + numStep') % Word = Len(constraints') % Word
  <2> DEFINE n == Len(constraints)
  <2>1. n \in Int /\ (numAccu + numStep) % Word = n % Word
    BY <1>3, Parts DEF CountInv
  <2>2. Len(constraints') = n + 1
    BY <1>9
  <2> HIDE DEF n
  <2>3. 1 \in Int
    OBVIOUS
  <2>4. /\ (numStep + 1) % Word \in Int
        /\ (numAccu + ((numStep + 1) % Word)) % Word = (n + 1) % Word
    BY <2>1, <2>3, <1>2, Counted
  <2> QED BY <2>2, <2>4, <1>1
<1>15. ConsOf(solvers'[1]) = Elements(constraints') /\ NothingMissed(solvers'[1], seen[1])
  BY <1>9, <1>10, <1>11, <1>13
<1> QED BY <1>5, <1>7, <1>9, <1>13, <1>14, <1>15 DEF c

\* A constraint of the program.
LEMMA ParseConstraintStep ==
    ASSUME IInv, ParseConstraint
    PROVE  IInv'
<1>1. /\ pc = "parse" /\ pc' = pc /\ step' = step /\ minimize' = minimize
      /\ translateMinimize' = translateMinimize /\ idx' = idx /\ jdx' = jdx
      /\ turn' = turn /\ status' = status /\ numAccu' = numAccu /\ seen' = seen
      /\ inClasp' = inClasp /\ posted' = posted /\ inMinimize' = inMinimize
  BY DEF ParseConstraint, ghostVars
<1>2. PICK k \in {"sum", "distinct"} : Adds(k)
  BY DEF ParseConstraint
<1> DEFINE c == Len(kind) + 1
<1>3. k \in Kinds /\ k # "minimize"
  BY DEF Kinds
<1>4. /\ c \notin Elements(constraints)
      /\ kind' \in Seq(Kinds) /\ Len(kind') = c /\ kind'[c] = k
      /\ \A i \in 1..Len(kind) : kind'[i] = kind[i]
      /\ constraints' \in Seq(1..Len(kind')) /\ Len(constraints') = Len(constraints) + 1
      /\ constraints'[Len(constraints) + 1] = c
      /\ \A n \in 1..Len(constraints) : constraints'[n] = constraints[n]
      /\ Elements(constraints') = Elements(constraints) \union {c} /\ OneToOne(constraints')
      /\ solvers' \in Seq(SolverSet) /\ Len(solvers') = Len(solvers)
      /\ SolversInv'
      /\ ConsOf(solvers'[1]) = Elements(constraints')
      /\ NothingMissed(solvers'[1], seen[1])
      /\ numStep' \in Int /\ (numAccu + numStep') % Word = Len(constraints') % Word
  BY <1>1, <1>2, <1>3, AddsConstraint
<1>5. Elements(constraints) \subseteq 1..Len(kind)
  BY Parts, ElementsOf DEF TypeInv
<1> HIDE DEF c
<1>6. TypeInv'
  <2>1. Len(seen') = Len(solvers') /\ turn' \in 1..Len(solvers')
    BY <1>1, <1>4, Parts DEF TypeInv
  <2> QED BY <2>1, <1>1, <1>4, Parts DEF TypeInv
<1>7. ListInv'
  <2>1. minimize' = None
    BY <1>1, Parts DEF ObjectiveInv
  <2>2. \A d \in Elements(constraints') : kind'[d] = "minimize" => d = minimize'
    <3>1. \A d \in Elements(constraints) : kind[d] = "minimize" => d = minimize
      BY Parts DEF ListInv
    <3> QED BY <3>1, <1>1, <1>3, <1>4, <1>5
  <2> QED BY <2>1, <2>2, <1>1, <1>4 DEF ListInv
<1>8. StatesInv' /\ CountInv' /\ ExactInv' /\ TranslateInv'
  BY <1>1, <1>4 DEF StatesInv, CountInv, ExactInv, TranslateInv
<1>9. ObjectiveInv'
  BY <1>1, Parts DEF ObjectiveInv
<1>10. SeenInv'
  <2>1. 1 \in DOMAIN solvers /\ solvers[1].levels = <<>>
    BY <1>1, LevelZero, Parts, SolversType
  <2>2. solvers'[1].levels = <<>>
    <3>1. 1 \in DOMAIN solvers'
      BY <1>4, LenProperties, Parts, SolversType
    <3> QED BY <3>1, <1>1, <1>4 DEF SolversInv
  <2> QED BY <2>2, <1>1, <1>4 DEF SeenInv
<1> QED BY <1>4, <1>6, <1>7, <1>8, <1>9, <1>10 DEF IInv

\* Adding the objective.
LEMMA AddMinimizeStep ==
    ASSUME IInv, AddMinimize
    PROVE  IInv'
<1>1. /\ pc = "minimize" /\ pc' = "translate" /\ step' = step
      /\ translateMinimize' = translateMinimize /\ idx' = 1 /\ jdx' = 1
      /\ turn' = turn /\ status' = status /\ numAccu' = numAccu /\ seen' = seen
      /\ inClasp' = inClasp /\ posted' = posted /\ inMinimize' = inMinimize
  BY DEF AddMinimize, ghostVars
<1>2. /\ minimize = None /\ Elements(constraints) \subseteq 1..Len(kind)
      /\ Len(constraints) \in Nat /\ DOMAIN constraints = 1..Len(constraints)
      /\ \A d \in Elements(constraints) : kind[d] # "minimize" /\ d # None
  <2>1. minimize = None
    BY <1>1, Parts DEF ObjectiveInv
  <2>2. constraints \in Seq(1..Len(kind))
    BY Parts DEF TypeInv
  <2>3. Elements(constraints) \subseteq 1..Len(kind) /\ Len(constraints) \in Nat
        /\ DOMAIN constraints = 1..Len(constraints)
    BY <2>2, ElementsOf
  <2>4. \A d \in Elements(constraints) : kind[d] = "minimize" => d = minimize
    BY Parts DEF ListInv
  <2> QED BY <2>1, <2>3, <2>4 DEF None
<1>3. SUFFICES ASSUME
          /\ \/ minimize' = None /\ inMinimize = {}
             \/ /\ inMinimize # {}
                /\ minimize' \in Elements(constraints') /\ kind'[minimize'] = "minimize"
          /\ kind' \in Seq(Kinds) /\ constraints' \in Seq(1..Len(kind'))
          /\ \A d \in Elements(constraints') : kind'[d] = "minimize" => d = minimize'
          /\ OneToOne(constraints')
          /\ solvers' \in Seq(SolverSet) /\ Len(solvers') = Len(solvers)
          /\ SolversInv'
          /\ ConsOf(solvers'[1]) = Elements(constraints')
          /\ NothingMissed(solvers'[1], seen[1]) /\ solvers'[1].levels = <<>>
          /\ numStep' \in Int /\ (numAccu + numStep') % Word = Len(constraints') % Word
      PROVE  IInv'
  <2>1. CASE inMinimize = {}
    <3>1. /\ constraints' = constraints /\ kind' = kind /\ minimize' = minimize
          /\ solvers' = solvers /\ numStep' = numStep
      BY <2>1 DEF AddMinimize
    <3>2. solvers[1].levels = <<>> /\ ConsOf(solvers[1]) = Elements(constraints)
          /\ NothingMissed(solvers[1], seen[1])
      <4>1. 1 \in DOMAIN solvers
        BY Parts, SolversType
      <4> QED BY <4>1, <1>1, LevelZero, Parts DEF StatesInv, SeenInv
    <3>3. SolversInv'
      BY <3>1, <1>1, LevelZero, Parts DEF SolversInv
    <3>4. /\ kind \in Seq(Kinds) /\ constraints \in Seq(1..Len(kind)) /\ solvers \in Seq(SolverSet)
          /\ OneToOne(constraints) /\ numStep \in Int /\ (numAccu + numStep) % Word = Len(constraints) % Word
      BY <1>1, Parts DEF TypeInv, ListInv, CountInv
    <3>5. minimize' = None /\ inMinimize = {}
      BY <2>1, <3>1, <1>2
    <3>6. \A d \in Elements(constraints') : kind'[d] = "minimize" => d = minimize'
      BY <3>1, <1>2
    <3>7. /\ ConsOf(solvers'[1]) = Elements(constraints')
          /\ NothingMissed(solvers'[1], seen[1]) /\ solvers'[1].levels = <<>>
          /\ solvers' \in Seq(SolverSet) /\ Len(solvers') = Len(solvers)
      BY <3>1, <3>2, <3>4
    <3>8. /\ kind' \in Seq(Kinds) /\ constraints' \in Seq(1..Len(kind')) /\ OneToOne(constraints')
          /\ numStep' \in Int /\ (numAccu + numStep') % Word = Len(constraints') % Word
      BY <3>1, <3>4
    <3> QED BY <3>3, <3>5, <3>6, <3>7, <3>8, <1>3
  <2>2. CASE inMinimize # {}
    <3> DEFINE c == Len(kind) + 1
    <3>1. Adds("minimize") /\ minimize' = c
      BY <2>2 DEF AddMinimize
    <3>2. "minimize" \in Kinds
      BY DEF Kinds
    <3>3. /\ c \notin Elements(constraints)
          /\ kind' \in Seq(Kinds) /\ Len(kind') = c /\ kind'[c] = "minimize"
          /\ \A i \in 1..Len(kind) : kind'[i] = kind[i]
          /\ constraints' \in Seq(1..Len(kind')) /\ Len(constraints') = Len(constraints) + 1
          /\ constraints'[Len(constraints) + 1] = c
          /\ \A n \in 1..Len(constraints) : constraints'[n] = constraints[n]
          /\ Elements(constraints') = Elements(constraints) \union {c} /\ OneToOne(constraints')
          /\ solvers' \in Seq(SolverSet) /\ Len(solvers') = Len(solvers)
          /\ SolversInv'
          /\ ConsOf(solvers'[1]) = Elements(constraints')
          /\ NothingMissed(solvers'[1], seen[1])
          /\ numStep' \in Int /\ (numAccu + numStep') % Word = Len(constraints') % Word
      BY <1>1, <3>1, <3>2, AddsConstraint
    <3> HIDE DEF c
    <3>4. solvers'[1].levels = <<>>
      <4>1. 1 \in DOMAIN solvers'
        BY <3>3, LenProperties, Parts, SolversType
      <4> QED BY <4>1, <3>3, <1>1 DEF SolversInv
    <3>5. \A d \in Elements(constraints') : kind'[d] = "minimize" => d = minimize'
      BY <3>1, <3>3, <1>2
    <3> QED BY <2>2, <3>1, <3>3, <3>4, <3>5, <1>3
  <2> QED BY <2>1, <2>2
<1>4. Len(constraints') \in Nat /\ DOMAIN constraints' = 1..Len(constraints') /\ Elements(constraints') \subseteq 1..Len(kind')
      /\ Len(kind') \in Nat /\ \A n \in DOMAIN constraints' : constraints'[n] \in 1..Len(kind')
  BY <1>3, ElementsOf, LenProperties
<1>5. TypeInv'
  <2>1. Len(seen') = Len(solvers') /\ turn' \in 1..Len(solvers')
    BY <1>1, <1>3, Parts DEF TypeInv
  <2>2. pc' \in Phases /\ minimize' \in Nat /\ idx' \in Nat /\ jdx' \in Nat
    BY <1>1, <1>3, <1>4 DEF Phases, None
  <2> QED BY <2>1, <2>2, <1>1, <1>3, Parts DEF TypeInv
<1>6. ListInv'
  <2>1. minimize' # None => minimize' \in Elements(constraints') /\ kind'[minimize'] = "minimize"
    BY <1>3
  <2>2. 1 <= jdx' /\ jdx' <= idx' /\ idx' <= Len(constraints') + 1
    BY <1>1, <1>4
  <2> QED BY <2>1, <2>2, <1>3 DEF ListInv
<1>7. TranslateInv'
  <2> DEFINE m == Len(constraints')
  <2>1. m \in 0..Len(constraints') /\ idx' <= m + 1 /\ jdx' + m - idx' = m
    BY <1>1, <1>4
  <2>2. ConsOf(solvers'[1]) = FirstOf(constraints', m)
    BY <1>3, <1>4 DEF FirstOf, Elements
  <2>3. (numAccu' + numStep') % Word = m % Word
    BY <1>1, <1>3
  <2> HIDE DEF m
  <2>4. (numAccu' + numStep') % Word = (jdx' + m - idx') % Word
    BY <2>1, <2>3
  <2> QED BY <2>1, <2>2, <2>4 DEF TranslateInv
<1>8. ObjectiveInv'
  <2>1. inClasp \union inMinimize = posted /\ (inClasp # {} => translateMinimize)
    BY Parts DEF ObjectiveInv
  <2>2. \A n \in DOMAIN constraints' : constraints'[n] # None /\ idx' <= n
    BY <1>1, <1>4 DEF None
  <2>3. minimize' = None => inMinimize' = {}
    BY <1>1, <1>3, <1>4 DEF None
  <2>4. \A n \in DOMAIN constraints' : constraints'[n] = minimize' => idx' <= n /\ inMinimize' # {}
    BY <2>2, <1>1, <1>3
  <2> QED BY <2>1, <2>3, <2>4, <1>1 DEF ObjectiveInv
<1>9. StatesInv' /\ CountInv' /\ ExactInv'
  BY <1>1 DEF StatesInv, CountInv, ExactInv
<1>10. SeenInv'
  BY <1>1, <1>3 DEF SeenInv
<1> QED BY <1>3, <1>5, <1>6, <1>7, <1>8, <1>9, <1>10 DEF IInv

-----------------------------------------------------------------------------
(* Translation.                                                            *)

\* The list that translate goes through.
LEMMA ListFacts ==
    ASSUME IInv
    PROVE  /\ kind \in Seq(Kinds) /\ constraints \in Seq(1..Len(kind)) /\ Len(kind) \in Nat
           /\ Len(constraints) \in Nat /\ DOMAIN constraints = 1..Len(constraints)
           /\ \A n \in 1..Len(constraints) : constraints[n] \in 1..Len(kind) /\ constraints[n] \in Elements(constraints)
           /\ Elements(constraints) \subseteq 1..Len(kind)
           /\ OneToOne(constraints)
           /\ \A c \in Elements(constraints) : kind[c] = "minimize" => c = minimize
           /\ pc # "unsat" => \A c \in Elements(constraints) : c = minimize => kind[c] = "minimize"
           /\ numStep \in Int /\ numAccu \in Int /\ minimize \in Nat
<1>1. kind \in Seq(Kinds) /\ constraints \in Seq(1..Len(kind)) /\ numStep \in Int /\ numAccu \in Int /\ minimize \in Nat
  BY Parts DEF TypeInv
<1>2. /\ Len(kind) \in Nat /\ Len(constraints) \in Nat /\ DOMAIN constraints = 1..Len(constraints)
      /\ \A n \in 1..Len(constraints) : constraints[n] \in 1..Len(kind) /\ constraints[n] \in Elements(constraints)
      /\ Elements(constraints) \subseteq 1..Len(kind)
  BY <1>1, LenProperties, ElementsOf
<1>3. pc # "unsat" => \A c \in Elements(constraints) : c = minimize => kind[c] = "minimize"
  BY <1>2, Parts DEF ListInv, None
<1>4. OneToOne(constraints) /\ \A c \in Elements(constraints) : kind[c] = "minimize" => c = minimize
  BY Parts DEF ListInv
<1> QED BY <1>1, <1>2, <1>3, <1>4

\* The constraint that is translated gets a state, unless it has one; after that the
\* first m constraints have states.
LEMMA ItemHasState ==
    ASSUME IInv, pc = "translate", idx <= Len(constraints),
           solvers' = IF HasState(constraints[idx]) THEN solvers
                      ELSE Master(WithState(solvers[1], State(1, constraints[idx]))),
           kind' \in Seq(Kinds), Len(kind) <= Len(kind'), \A i \in 1..Len(kind) : kind'[i] = kind[i]
    PROVE  /\ solvers' \in Seq(SolverSet) /\ Len(solvers') = Len(solvers)
           /\ SolversInv'
           /\ NothingMissed(solvers'[1], seen[1]) /\ solvers'[1].levels = <<>>
           /\ CountAdded \in Int
           /\ \E m \in idx..Len(constraints) :
                /\ ConsOf(solvers'[1]) = FirstOf(constraints, m)
                /\ (numAccu + numStep) % Word = (jdx + m - idx - CountAdded) % Word
<1> DEFINE c == constraints[idx]
           s == solvers[1]
           r == WithState(s, State(1, c))
           N == Len(constraints)
<1>1. PICK m \in 0..N :
        /\ idx <= m + 1
        /\ ConsOf(s) = FirstOf(constraints, m)
        /\ (numAccu + numStep) % Word = (jdx + m - idx) % Word
  BY Parts DEF TranslateInv
<1>2. /\ N \in Nat /\ idx \in 1..N /\ jdx \in 1..idx
      /\ c \in 1..Len(kind) /\ Len(kind) \in Nat /\ Len(kind') \in Nat
      /\ \A i, j \in 1..N : constraints[i] = constraints[j] => i = j
  <2>1. N \in Nat /\ Len(kind) \in Nat /\ DOMAIN constraints = 1..N /\ Len(kind') \in Nat
        /\ (\A n \in 1..N : constraints[n] \in 1..Len(kind)) /\ OneToOne(constraints)
    BY ListFacts, LenProperties
  <2>2. idx \in Nat /\ jdx \in Nat /\ 1 <= jdx /\ jdx <= idx
    BY Parts DEF TypeInv, ListInv
  <2>3. \A i, j \in 1..N : constraints[i] = constraints[j] => i = j
    BY <2>1 DEF OneToOne
  <2>4. idx \in 1..N /\ jdx \in 1..idx
    <3> HIDE DEF N
    <3>1. idx <= N
      BY DEF N
    <3> QED BY <2>1, <2>2, <3>1
  <2> QED BY <2>1, <2>3, <2>4
<1>3. 1 \in DOMAIN solvers /\ SolverOk(s, kind) /\ s.levels = <<>> /\ NothingMissed(s, seen[1])
  <2>1. 1 \in DOMAIN solvers
    BY Parts, SolversType
  <2> QED BY <2>1, LevelZero, Parts DEF SolversInv, SeenInv
<1>4. HasState(c) <=> c \in ConsOf(s)
  BY DEF HasState, ConsOf
<1>5. HasState(c) <=> idx <= m
  <2>1. c \in FirstOf(constraints, m) <=> \E n \in 1..m : constraints[n] = constraints[idx]
    BY DEF FirstOf
  <2> HIDE DEF N
  <2>2. (\E n \in 1..m : constraints[n] = constraints[idx]) <=> idx <= m
    BY <1>1, <1>2
  <2> QED BY <2>1, <2>2, <1>1, <1>4
<1>6. CASE HasState(c)
  <2>1. solvers' = solvers /\ CountAdded = 0
    BY <1>6 DEF CountAdded
  <2>2. SolversInv'
    <3>1. \A u \in DOMAIN solvers : SolverOk(solvers[u], kind)
      BY Parts DEF SolversInv
    <3>2. \A u \in DOMAIN solvers : SolverOk(solvers[u], kind')
      BY <3>1, <1>2, KindsAdded
    <3> QED BY <3>2, <2>1, LevelZero DEF SolversInv
  <2>3. solvers \in Seq(SolverSet)
    BY Parts DEF TypeInv
  <2>4. m \in idx..N
    BY <1>1, <1>2, <1>5, <1>6
  <2>5. jdx + m - idx - CountAdded = jdx + m - idx
    BY <2>1, <1>1, <1>2
  <2> QED BY <2>1, <2>2, <2>3, <2>4, <2>5, <1>1, <1>3
<1>7. CASE ~ HasState(c)
  <2>1. solvers' = Master(r) /\ CountAdded = 1
    BY <1>7 DEF CountAdded
  <2>2. c \in Nat /\ c \notin ConsOf(s)
    BY <1>2, <1>4, <1>7
  <2>3. /\ WellFormed(r) /\ r.levels = <<>> /\ r.inactive = s.inactive
        /\ ConsOf(r) = ConsOf(s) \union {c}
        /\ \A st \in r.states : st \in s.states \/ st.cons = c
        /\ \A p : NothingMissed(s, p) => NothingMissed(r, p)
    <3> HIDE DEF c
    <3> QED BY <2>2, MasterHasState
  <2> HIDE DEF r
  <2>4. SolverOk(r, kind')
    <3>1. SolverOk(s, kind')
      <4> HIDE DEF s
      <4> QED BY <1>2, <1>3, KindsAdded
    <3>2. c \in 1..Len(kind')
      BY <1>2
    <3> HIDE DEF c, s
    <3> QED BY <3>1, <3>2, <2>3 DEF SolverOk
  <2>5. /\ solvers' \in Seq(SolverSet) /\ Len(solvers') = Len(solvers) /\ solvers'[1] = r
        /\ SolversInv'
    BY <2>1, <2>3, <2>4, MasterChanged
  <2>6. m + 1 = idx /\ idx \in idx..N
    BY <1>1, <1>2, <1>5, <1>7
  <2>7. ConsOf(r) = FirstOf(constraints, idx)
    <3>1. FirstOf(constraints, idx) = FirstOf(constraints, m) \union {constraints[idx]}
      <4>1. 1..idx = (1..m) \union {idx}
        BY <2>6, <1>1, <1>2
      <4> QED BY <4>1 DEF FirstOf
    <3> QED BY <3>1, <2>3, <1>1
  <2>8. jdx + idx - idx - CountAdded = jdx + m - idx
    BY <2>1, <2>6, <1>1, <1>2
  <2>9. NothingMissed(r, seen[1])
    BY <2>3, <1>3
  <2> QED BY <2>1, <2>3, <2>5, <2>6, <2>7, <2>8, <2>9, <1>1
<1> QED BY <1>6, <1>7

\* What all iterations of translate have in common.
LEMMA ItemStep ==
    ASSUME IInv, TranslateItem
    PROVE  /\ pc = "translate" /\ pc' = pc /\ step' = step /\ minimize' = minimize
           /\ turn' = turn /\ status' = status /\ numAccu' = numAccu /\ posted' = posted /\ seen' = seen
           /\ idx' = idx + 1 /\ idx <= Len(constraints) /\ idx \in 1..Len(constraints) /\ jdx \in 1..idx
           /\ \/ /\ kind[constraints[idx]] = "minimize" => ~ translateMinimize
                 /\ Keep
                 /\ numStep' = (numStep + CountAdded) % Word
              \/ /\ Give
                 /\ numStep' = (numStep + CountAdded - 1) % Word
           /\ solvers' = IF HasState(constraints[idx]) THEN solvers
                         ELSE Master(WithState(solvers[1], State(1, constraints[idx])))
<1>1. idx \in Nat /\ jdx \in Nat /\ Len(constraints) \in Nat
  BY Parts, ListFacts DEF TypeInv
<1>2. pc = "translate" /\ idx <= Len(constraints)
  BY DEF TranslateItem
<1>3. idx \in 1..Len(constraints) /\ jdx \in 1..idx
  BY <1>1, <1>2, Parts DEF ListInv
<1> QED BY <1>2, <1>3 DEF TranslateItem, MustTranslate

\* What an iteration does to the counters, and that it leaves the constraints that
\* have states in the first places.
ItemEffect(k) ==
    /\ numStep' = (numStep + (CountAdded + k)) % Word
    /\ jdx' = jdx + (k + 1)
    /\ \A m \in idx..Len(constraints) : FirstOf(constraints', m) = FirstOf(constraints, m)
    /\ Len(constraints) <= Len(constraints')

\* Such an iteration preserves the invariant.
LEMMA ItemDone ==
    ASSUME IInv, TranslateItem,
           kind' \in Seq(Kinds), Len(kind) <= Len(kind'), \A i \in 1..Len(kind) : kind'[i] = kind[i],
           constraints' \in Seq(1..Len(kind')), translateMinimize' \in BOOLEAN,
           NEW k \in {-1, 0}, ItemEffect(k),
           ListInv', ObjectiveInv'
    PROVE  IInv'
<1>1. /\ pc = "translate" /\ pc' = pc /\ step' = step /\ minimize' = minimize
      /\ turn' = turn /\ status' = status /\ numAccu' = numAccu /\ posted' = posted /\ seen' = seen
      /\ idx' = idx + 1 /\ idx <= Len(constraints) /\ idx \in 1..Len(constraints) /\ jdx \in 1..idx
      /\ solvers' = IF HasState(constraints[idx]) THEN solvers
                    ELSE Master(WithState(solvers[1], State(1, constraints[idx])))
  BY ItemStep
<1>2. /\ solvers' \in Seq(SolverSet) /\ Len(solvers') = Len(solvers)
      /\ SolversInv'
      /\ NothingMissed(solvers'[1], seen[1]) /\ solvers'[1].levels = <<>>
      /\ CountAdded \in Int
      /\ \E m \in idx..Len(constraints) :
           /\ ConsOf(solvers'[1]) = FirstOf(constraints, m)
           /\ (numAccu + numStep) % Word = (jdx + m - idx - CountAdded) % Word
  BY <1>1, ItemHasState
<1>3. PICK m \in idx..Len(constraints) :
        /\ ConsOf(solvers'[1]) = FirstOf(constraints, m)
        /\ (numAccu + numStep) % Word = (jdx + m - idx - CountAdded) % Word
  BY <1>2
<1>4. /\ numStep \in Int /\ numAccu \in Int
      /\ Len(constraints) \in Nat /\ Len(constraints') \in Nat /\ Len(constraints) <= Len(constraints')
  BY ListFacts, LenProperties DEF ItemEffect
<1>5. jdx \in Nat /\ idx \in Nat /\ idx' = idx + 1 /\ CountAdded \in Int /\ idx >= 1
  <2>1. idx \in 1..Len(constraints)
    BY <1>1
  <2>2. idx >= 1
    BY <2>1, <1>4
  <2> QED BY <2>2, <1>1, <1>2, Parts DEF TypeInv
<1>6. m \in Nat /\ idx <= m /\ m <= Len(constraints)
  <2> DEFINE N == Len(constraints)
  <2>1. N \in Nat /\ m \in idx..N
    BY <1>4
  <2> HIDE DEF N
  <2>2. m \in Nat /\ idx <= m /\ m <= N
    BY <2>1, <1>5
  <2> QED BY <2>2 DEF N
<1>7. jdx' = jdx + (k + 1) /\ jdx' \in Nat /\ idx' \in Nat
  <2>1. jdx' = jdx + (k + 1)
    BY DEF ItemEffect
  <2> QED BY <2>1, <1>5
<1>8. numStep' \in Int /\ (numAccu + numStep') % Word = (jdx' + m - idx') % Word
  <2> DEFINE a == CountAdded
             n == jdx + m - idx - a
             j == a + k
  <2>1. a \in Int
    BY <1>5
  <2>2. numStep' = (numStep + j) % Word /\ (numAccu + numStep) % Word = n % Word
    BY <1>3 DEF ItemEffect
  <2> HIDE DEF a
  <2>3. n \in Int /\ j \in Int
    BY <2>1, <1>5, <1>6
  <2>4. n + j = jdx' + m - idx'
    BY <2>1, <1>5, <1>6, <1>7
  <2> HIDE DEF n, j
  <2>5. /\ (numStep + j) % Word \in Int
        /\ (numAccu + ((numStep + j) % Word)) % Word = (n + j) % Word
    BY <2>2, <2>3, <1>4, Counted
  <2> QED BY <2>2, <2>4, <2>5
<1>9. TypeInv'
  <2>1. Len(seen') = Len(solvers') /\ turn' \in 1..Len(solvers')
    BY <1>1, <1>2, Parts DEF TypeInv
  <2> QED BY <2>1, <1>1, <1>2, <1>4, <1>7, <1>8, Parts DEF TypeInv
<1>10. TranslateInv'
  <2>1. m \in 0..Len(constraints') /\ idx' <= m + 1
    BY <1>4, <1>5, <1>6
  <2>2. ConsOf(solvers'[1]) = FirstOf(constraints', m)
    BY <1>3 DEF ItemEffect
  <2> QED BY <2>1, <2>2, <1>1, <1>8 DEF TranslateInv
<1>11. StatesInv' /\ CountInv' /\ ExactInv'
  BY <1>1 DEF StatesInv, CountInv, ExactInv
<1>12. SeenInv'
  BY <1>1, <1>2 DEF SeenInv
<1> QED BY <1>2, <1>9, <1>10, <1>11, <1>12 DEF IInv

\* Exchanging two entries of a list.
LEMMA SwappedList ==
    ASSUME NEW S, NEW list \in Seq(S), NEW i \in 1..Len(list), NEW j \in 1..i
    PROVE  LET new == Swapped(list, i, j) IN
           /\ new \in Seq(S) /\ Len(new) = Len(list)
           /\ new[i] = list[j] /\ new[j] = list[i]
           /\ \A n \in 1..Len(list) : n # i /\ n # j => new[n] = list[n]
           /\ OneToOne(list) => OneToOne(new)
           /\ \A m \in i..Len(list) : FirstOf(new, m) = FirstOf(list, m)
           /\ Elements(new) = Elements(list)
<1> DEFINE N == Len(list)
           new == Swapped(list, i, j)
           At(n) == IF n = i THEN j ELSE IF n = j THEN i ELSE n
<1>1. N \in Nat /\ DOMAIN list = 1..N /\ list \in [1..N -> S]
  BY LenProperties
<1>2. j \in 1..N /\ i \in 1..N
  BY <1>1
<1>3. new = [[list EXCEPT ![i] = list[j]] EXCEPT ![j] = list[i]]
  BY DEF Swapped
<1> HIDE DEF N
<1>4. /\ new \in [1..N -> S]
      /\ \A n \in 1..N : new[n] = list[At(n)]
  BY <1>1, <1>2, <1>3
<1>5. new \in Seq(S) /\ Len(new) = N /\ DOMAIN new = 1..N
  <2> HIDE DEF new
  <2> QED BY <1>1, <1>4
<1> HIDE DEF new
<1>6. \A n \in 1..N : At(n) \in 1..N /\ At(At(n)) = n
  BY <1>2
<1>7. OneToOne(list) => OneToOne(new)
  <2> SUFFICES ASSUME OneToOne(list), NEW m \in 1..N, NEW n \in 1..N, new[m] = new[n]
               PROVE  m = n
    BY <1>5 DEF OneToOne
  <2>1. list[At(m)] = list[At(n)] /\ At(m) \in 1..N /\ At(n) \in 1..N
    BY <1>4, <1>6
  <2>2. At(m) = At(n)
    <3> HIDE DEF At
    <3> QED BY <2>1, <1>1 DEF OneToOne
  <2> QED BY <2>2
<1>8. ASSUME NEW m \in i..N
      PROVE  FirstOf(new, m) = FirstOf(list, m)
  <2>1. m \in Nat /\ i <= m /\ j <= m /\ m <= N /\ 1 <= j /\ 1 <= i
    BY <1>1, <1>2
  <2>2. \A n \in 1..m : n \in 1..N /\ At(n) \in 1..m
    BY <2>1, <1>1, <1>2
  <2>3. \A n \in 1..m : new[n] = list[At(n)] /\ list[n] = new[At(n)]
    <3> SUFFICES ASSUME NEW n \in 1..m
                 PROVE  new[n] = list[At(n)] /\ list[n] = new[At(n)]
      OBVIOUS
    <3>1. n \in 1..N /\ At(n) \in 1..N /\ At(At(n)) = n
      BY <2>2, <1>6
    <3> HIDE DEF At
    <3> QED BY <3>1, <1>4
  <2> HIDE DEF At
  <2> QED BY <2>2, <2>3 DEF FirstOf
<1>9. Elements(new) = Elements(list)
  <2>1. N \in i..N
    BY <1>1, <1>2
  <2>2. Elements(new) = FirstOf(new, N) /\ Elements(list) = FirstOf(list, N)
    BY <1>1, <1>5 DEF Elements, FirstOf
  <2> QED BY <2>1, <2>2, <1>8
<1> QED BY <1>2, <1>4, <1>5, <1>7, <1>8, <1>9 DEF N, new

\* A constraint that is kept goes to the front.
LEMMA KeepStep ==
    ASSUME IInv, TranslateItem, Keep, kind[constraints[idx]] = "minimize" => ~ translateMinimize,
           numStep' = (numStep + CountAdded) % Word
    PROVE  IInv'
<1>1. /\ pc = "translate" /\ pc' = pc /\ minimize' = minimize /\ posted' = posted
      /\ idx' = idx + 1 /\ idx \in 1..Len(constraints) /\ jdx \in 1..idx
  BY ItemStep
<1>2. /\ constraints' = Swapped(constraints, idx, jdx) /\ jdx' = jdx + 1 /\ kind' = kind
      /\ translateMinimize' = translateMinimize /\ inClasp' = inClasp /\ inMinimize' = inMinimize
  BY DEF Keep
<1>3. /\ kind \in Seq(Kinds) /\ constraints \in Seq(1..Len(kind)) /\ Len(kind) \in Nat
      /\ Len(constraints) \in Nat /\ DOMAIN constraints = 1..Len(constraints)
      /\ \A n \in 1..Len(constraints) : constraints[n] \in Elements(constraints)
      /\ OneToOne(constraints)
      /\ \A c \in Elements(constraints) : kind[c] = "minimize" => c = minimize
      /\ \A c \in Elements(constraints) : c = minimize => kind[c] = "minimize"
  BY <1>1, ListFacts
<1>4. LET new == Swapped(constraints, idx, jdx) IN
      /\ new \in Seq(1..Len(kind)) /\ Len(new) = Len(constraints)
      /\ new[idx] = constraints[jdx] /\ new[jdx] = constraints[idx]
      /\ \A n \in 1..Len(constraints) : n # idx /\ n # jdx => new[n] = constraints[n]
      /\ OneToOne(constraints) => OneToOne(new)
      /\ \A m \in idx..Len(constraints) : FirstOf(new, m) = FirstOf(constraints, m)
      /\ Elements(new) = Elements(constraints)
  <2>1. constraints \in Seq(1..Len(kind))
    BY <1>3
  <2>2. idx \in 1..Len(constraints) /\ jdx \in 1..idx
    BY <1>1
  <2> QED BY <2>1, <2>2, SwappedList
<1>5. /\ constraints' \in Seq(1..Len(kind')) /\ Len(constraints') = Len(constraints)
      /\ constraints'[idx] = constraints[jdx] /\ constraints'[jdx] = constraints[idx]
      /\ \A n \in 1..Len(constraints) : n # idx /\ n # jdx => constraints'[n] = constraints[n]
      /\ OneToOne(constraints')
      /\ \A m \in idx..Len(constraints) : FirstOf(constraints', m) = FirstOf(constraints, m)
      /\ Elements(constraints') = Elements(constraints)
      /\ DOMAIN constraints' = 1..Len(constraints)
  <2>1. OneToOne(constraints)
    BY <1>3
  <2>2. constraints' \in Seq(1..Len(kind)) /\ Len(constraints') = Len(constraints)
    BY <1>2, <1>4
  <2>3. DOMAIN constraints' = 1..Len(constraints)
    BY <2>2, LenProperties
  <2> QED BY <2>1, <2>2, <2>3, <1>2, <1>4
<1>6. jdx \in Nat /\ idx \in Nat /\ 1 <= jdx /\ jdx <= idx /\ idx <= Len(constraints)
  <2>1. jdx \in Nat /\ idx \in Nat
    BY Parts DEF TypeInv
  <2> QED BY <2>1, <1>1, <1>3
<1>7. ListInv'
  <2>1. 1 <= jdx' /\ jdx' <= idx' /\ idx' <= Len(constraints') + 1
    BY <1>1, <1>2, <1>3, <1>5, <1>6
  <2>2. minimize # None => minimize \in Elements(constraints) /\ kind[minimize] = "minimize"
    BY <1>1, Parts DEF ListInv
  <2> QED BY <2>1, <2>2, <1>1, <1>2, <1>3, <1>5 DEF ListInv
<1>8. ObjectiveInv'
  <2>1. \A n \in 1..Len(constraints) : constraints[n] = minimize =>
            \/ n < jdx /\ ~ translateMinimize /\ inMinimize # {}
            \/ jdx <= n /\ n < idx /\ translateMinimize /\ inMinimize = {}
            \/ idx <= n /\ inMinimize # {}
    BY <1>1, <1>3, Parts DEF ObjectiveInv
  <2>2. ASSUME NEW n \in 1..Len(constraints), constraints'[n] = minimize
        PROVE  \/ n < jdx + 1 /\ ~ translateMinimize /\ inMinimize # {}
               \/ jdx + 1 <= n /\ n < idx + 1 /\ translateMinimize /\ inMinimize = {}
               \/ idx + 1 <= n /\ inMinimize # {}
    <3>1. CASE n = jdx
      <4>1. constraints[idx] = minimize
        BY <3>1, <2>2, <1>5
      <4>2. kind[constraints[idx]] = "minimize"
        BY <4>1, <1>1, <1>3
      <4>3. inMinimize # {}
        BY <4>1, <2>1, <1>1, <1>6
      <4> QED BY <4>2, <4>3, <3>1, <1>6
    <3>2. CASE n = idx /\ n # jdx
      <4>1. constraints[jdx] = minimize /\ jdx \in 1..Len(constraints)
        BY <3>2, <2>2, <1>3, <1>5, <1>6
      <4>2. jdx < idx
        BY <3>2, <1>6
      <4>3. translateMinimize /\ inMinimize = {}
        BY <4>1, <4>2, <2>1, <1>6
      <4> QED BY <4>2, <4>3, <3>2, <1>6
    <3>3. CASE n # idx /\ n # jdx
      <4>1. constraints[n] = minimize
        BY <3>3, <2>2, <1>5
      <4>2. n \in Nat
        OBVIOUS
      <4> QED BY <4>1, <4>2, <3>3, <2>1, <1>6
    <3> QED BY <3>1, <3>2, <3>3
  <2> QED BY <2>2, <1>1, <1>2, <1>5, Parts DEF ObjectiveInv
<1>9. ItemEffect(0)
  <2>1. CountAdded + 0 = CountAdded
    BY DEF CountAdded
  <2> QED BY <2>1, <1>2, <1>3, <1>5, <1>6 DEF ItemEffect
<1>10. translateMinimize' \in BOOLEAN
  BY <1>2, Parts DEF TypeInv
<1>11. kind' \in Seq(Kinds) /\ Len(kind) <= Len(kind') /\ \A i \in 1..Len(kind) : kind'[i] = kind[i]
  BY <1>2, <1>3
<1> QED BY <1>5, <1>7, <1>8, <1>9, <1>10, <1>11, ItemDone

\* An objective that is given to clasp stays where it is.
LEMMA GiveMinimizeStep ==
    ASSUME IInv, TranslateItem, Give, kind[constraints[idx]] = "minimize",
           numStep' = (numStep + CountAdded - 1) % Word
    PROVE  IInv'
<1>1. /\ pc = "translate" /\ pc' = pc /\ minimize' = minimize /\ posted' = posted
      /\ idx' = idx + 1 /\ idx \in 1..Len(constraints) /\ jdx \in 1..idx
  BY ItemStep
<1>2. /\ jdx' = jdx /\ translateMinimize' = TRUE /\ kind' = kind /\ constraints' = constraints
      /\ inClasp' = inClasp \union inMinimize /\ inMinimize' = {}
  BY DEF Give
<1>3. /\ kind \in Seq(Kinds) /\ constraints \in Seq(1..Len(kind)) /\ Len(kind) \in Nat
      /\ Len(constraints) \in Nat /\ DOMAIN constraints = 1..Len(constraints)
      /\ \A n \in 1..Len(constraints) : constraints[n] \in Elements(constraints)
      /\ OneToOne(constraints)
      /\ \A c \in Elements(constraints) : kind[c] = "minimize" => c = minimize
  BY <1>1, ListFacts
<1>4. jdx \in Nat /\ idx \in Nat /\ 1 <= jdx /\ jdx <= idx /\ idx <= Len(constraints)
  <2>1. jdx \in Nat /\ idx \in Nat
    BY Parts DEF TypeInv
  <2> QED BY <2>1, <1>1, <1>3
<1>5. ListInv'
  <2>1. 1 <= jdx' /\ jdx' <= idx' /\ idx' <= Len(constraints') + 1
    BY <1>1, <1>2, <1>3, <1>4
  <2>2. minimize # None => minimize \in Elements(constraints) /\ kind[minimize] = "minimize"
    BY <1>1, Parts DEF ListInv
  <2> QED BY <2>1, <2>2, <1>1, <1>2, <1>3 DEF ListInv
<1>6. ObjectiveInv'
  <2>1. constraints[idx] = minimize
    BY <1>1, <1>3
  <2>2. \A n \in 1..Len(constraints) : constraints[n] = minimize => n = idx
    BY <2>1, <1>1, <1>3 DEF OneToOne
  <2>3. \A n \in 1..Len(constraints) : constraints[n] = minimize => jdx <= n /\ n < idx + 1
    BY <2>2, <1>4
  <2> QED BY <2>3, <1>1, <1>2, <1>3, Parts DEF ObjectiveInv
<1>7. ItemEffect(-1)
  <2>1. CountAdded + (-1) = CountAdded - 1
    BY DEF CountAdded
  <2>2. numStep + CountAdded - 1 = numStep + (CountAdded + (-1))
    BY ListFacts DEF CountAdded
  <2>3. jdx' = jdx + (-1 + 1)
    BY <1>2, <1>4
  <2> QED BY <2>2, <2>3, <1>2, <1>3 DEF ItemEffect
<1>8. kind' \in Seq(Kinds) /\ Len(kind) <= Len(kind') /\ \A i \in 1..Len(kind) : kind'[i] = kind[i]
  BY <1>2, <1>3
<1>9. constraints' \in Seq(1..Len(kind')) /\ translateMinimize' \in BOOLEAN
  BY <1>2, <1>3
<1> QED BY <1>5, <1>6, <1>7, <1>8, <1>9, ItemDone

\* Adding the n constraints with the next identifiers.
LEMMA ListExtended ==
    ASSUME NEW N \in Nat, NEW n \in Nat, NEW list \in Seq(1..N), OneToOne(list)
    PROVE  LET new == list \o [k \in 1..n |-> N + k] IN
           /\ new \in Seq(1..(N + n)) /\ Len(new) = Len(list) + n
           /\ \A m \in 1..Len(list) : new[m] = list[m]
           /\ \A m \in 1..(Len(list) + n) : m > Len(list) => new[m] > N
           /\ OneToOne(new)
           /\ Elements(list) \subseteq Elements(new)
           /\ \A x \in Elements(new) : x \in Elements(list) \/ x > N
<1> DEFINE L == Len(list)
           tail == [k \in 1..n |-> N + k]
           new == list \o tail
<1>1. L \in Nat /\ DOMAIN list = 1..L /\ \A m \in 1..L : list[m] \in 1..N
  BY LenProperties
<1>2. list \in Seq(1..(N + n))
  <2>1. 1..N \subseteq 1..(N + n)
    OBVIOUS
  <2> QED BY <2>1, SeqMonotonic
<1>3. tail \in [1..n -> 1..(N + n)] /\ Len(tail) = n
  OBVIOUS
<1>4. tail \in Seq(1..(N + n))
  <2> HIDE DEF tail
  <2> QED BY <1>3
<1>5. /\ new \in Seq(1..(N + n)) /\ Len(new) = L + n
      /\ \A m \in 1..(L + n) : new[m] = IF m <= L THEN list[m] ELSE tail[m - L]
  <2> HIDE DEF tail
  <2> QED BY <1>2, <1>3, <1>4, ConcatProperties
<1>6. DOMAIN new = 1..(L + n)
  <2> HIDE DEF new
  <2> QED BY <1>5, LenProperties
<1> HIDE DEF new, L
<1>7. \A m \in 1..(L + n) : m <= L => new[m] = list[m] /\ new[m] \in 1..N
  <2> HIDE DEF tail
  <2> SUFFICES ASSUME NEW m \in 1..(L + n), m <= L
               PROVE  new[m] = list[m] /\ new[m] \in 1..N
    OBVIOUS
  <2>1. m \in 1..L
    BY <1>1
  <2>2. new[m] = list[m]
    BY <1>5
  <2> QED BY <2>1, <2>2, <1>1
<1>8. \A m \in 1..(L + n) : m > L => new[m] = N + (m - L) /\ new[m] > N
  <2> SUFFICES ASSUME NEW m \in 1..(L + n), m > L
               PROVE  new[m] = N + (m - L) /\ new[m] > N
    OBVIOUS
  <2>1. new[m] = tail[m - L] /\ m - L \in 1..n
    BY <1>1, <1>5
  <2> QED BY <2>1, <1>1
<1> HIDE DEF tail
<1>9. OneToOne(new)
  <2> SUFFICES ASSUME NEW i \in 1..(L + n), NEW j \in 1..(L + n), new[i] = new[j]
               PROVE  i = j
    BY <1>6 DEF OneToOne
  <2>1. CASE i <= L /\ j <= L
    <3>1. list[i] = list[j] /\ i \in DOMAIN list /\ j \in DOMAIN list
      BY <2>1, <1>1, <1>7
    <3> QED BY <3>1 DEF OneToOne
  <2>2. CASE i > L /\ j > L
    BY <2>2, <1>1, <1>8
  <2>3. CASE i <= L /\ j > L
    BY <2>3, <1>1, <1>7, <1>8
  <2>4. CASE i > L /\ j <= L
    BY <2>4, <1>1, <1>7, <1>8
  <2> QED BY <2>1, <2>2, <2>3, <2>4, <1>1
<1>10. Elements(list) \subseteq Elements(new)
  <2>1. \A m \in 1..L : m \in 1..(L + n) /\ new[m] = list[m]
    BY <1>1, <1>7
  <2> QED BY <2>1, <1>1, <1>6 DEF Elements
<1>11. \A x \in Elements(new) : x \in Elements(list) \/ x > N
  <2> SUFFICES ASSUME NEW m \in 1..(L + n)
               PROVE  new[m] \in Elements(list) \/ new[m] > N
    BY <1>6 DEF Elements
  <2>1. CASE m <= L
    BY <2>1, <1>1, <1>7 DEF Elements
  <2>2. CASE m > L
    BY <2>2, <1>8
  <2> QED BY <2>1, <2>2, <1>1
<1>12. \A m \in 1..L : new[m] = list[m]
  BY <1>1, <1>7
<1> QED BY <1>5, <1>8, <1>9, <1>10, <1>11, <1>12 DEF L, new, tail

\* Constraints are translated to clauses, and to sums that are added at the end.
LEMMA GiveOtherStep ==
    ASSUME IInv, TranslateItem, Give, kind[constraints[idx]] # "minimize",
           numStep' = (numStep + CountAdded - 1) % Word
    PROVE  IInv'
<1>1. /\ pc = "translate" /\ pc' = pc /\ minimize' = minimize /\ posted' = posted
      /\ idx' = idx + 1 /\ idx \in 1..Len(constraints) /\ jdx \in 1..idx
  BY ItemStep
<1>2. /\ jdx' = jdx /\ translateMinimize' = translateMinimize
      /\ inClasp' = inClasp /\ inMinimize' = inMinimize
  BY DEF Give
<1>3. PICK n \in {0, 2} :
        /\ kind' = kind \o [k \in 1..n |-> "sum"]
        /\ constraints' = constraints \o [k \in 1..n |-> Len(kind) + k]
  BY DEF Give
<1>4. /\ kind \in Seq(Kinds) /\ constraints \in Seq(1..Len(kind)) /\ Len(kind) \in Nat
      /\ Len(constraints) \in Nat /\ DOMAIN constraints = 1..Len(constraints)
      /\ Elements(constraints) \subseteq 1..Len(kind)
      /\ \A i \in 1..Len(constraints) : constraints[i] \in Elements(constraints)
      /\ OneToOne(constraints)
      /\ \A c \in Elements(constraints) : kind[c] = "minimize" => c = minimize
      /\ \A c \in Elements(constraints) : c = minimize => kind[c] = "minimize"
  BY <1>1, ListFacts
<1>5. jdx \in Nat /\ idx \in Nat /\ 1 <= jdx /\ jdx <= idx /\ idx <= Len(constraints)
  <2>1. jdx \in Nat /\ idx \in Nat
    BY Parts DEF TypeInv
  <2> QED BY <2>1, <1>1, <1>4
<1>6. /\ kind' \in Seq(Kinds) /\ Len(kind') = Len(kind) + n
      /\ \A i \in 1..Len(kind) : kind'[i] = kind[i]
      /\ \A i \in 1..Len(kind') : i > Len(kind) => kind'[i] = "sum"
  <2> DEFINE tail == [k \in 1..n |-> "sum"]
             N == Len(kind)
  <2>1. tail \in [1..n -> Kinds] /\ Len(tail) = n /\ n \in Nat
    BY DEF Kinds
  <2>2. \A i \in 1..n : tail[i] = "sum"
    OBVIOUS
  <2>3. kind' = kind \o tail
    BY <1>3
  <2> HIDE DEF tail
  <2>4. tail \in Seq(Kinds)
    BY <2>1
  <2>5. /\ kind' \in Seq(Kinds) /\ Len(kind') = N + n
        /\ \A i \in 1..(N + n) : kind'[i] = IF i <= N THEN kind[i] ELSE tail[i - N]
    BY <2>1, <2>3, <2>4, <1>4, ConcatProperties
  <2>6. N \in Nat
    BY <1>4
  <2> HIDE DEF N
  <2>7. \A i \in 1..(N + n) : i > N => i - N \in 1..n /\ kind'[i] = tail[i - N]
    BY <2>1, <2>5, <2>6
  <2>8. \A i \in 1..N : kind'[i] = kind[i]
    BY <2>1, <2>5, <2>6
  <2> QED BY <2>2, <2>5, <2>7, <2>8 DEF N
<1>7. LET new == constraints \o [k \in 1..n |-> Len(kind) + k] IN
      /\ new \in Seq(1..(Len(kind) + n)) /\ Len(new) = Len(constraints) + n
      /\ \A m \in 1..Len(constraints) : new[m] = constraints[m]
      /\ \A m \in 1..(Len(constraints) + n) : m > Len(constraints) => new[m] > Len(kind)
      /\ OneToOne(new)
      /\ Elements(constraints) \subseteq Elements(new)
      /\ \A x \in Elements(new) : x \in Elements(constraints) \/ x > Len(kind)
  <2>1. n \in Nat /\ Len(kind) \in Nat
    BY <1>4
  <2>2. constraints \in Seq(1..Len(kind)) /\ OneToOne(constraints)
    BY <1>4
  <2> QED BY <2>1, <2>2, ListExtended
<1>8. /\ constraints' \in Seq(1..Len(kind')) /\ Len(constraints') = Len(constraints) + n
      /\ \A m \in 1..Len(constraints) : constraints'[m] = constraints[m]
      /\ \A m \in 1..(Len(constraints) + n) : m > Len(constraints) => constraints'[m] > Len(kind)
      /\ OneToOne(constraints')
      /\ Elements(constraints) \subseteq Elements(constraints')
      /\ \A x \in Elements(constraints') : x \in Elements(constraints) \/ x > Len(kind)
  BY <1>3, <1>6, <1>7
<1>9. /\ DOMAIN constraints' = 1..(Len(constraints) + n)
      /\ Elements(constraints') \subseteq 1..Len(kind')
      /\ Len(kind) <= Len(kind') /\ Len(constraints) <= Len(constraints')
  <2>1. DOMAIN constraints' = 1..Len(constraints') /\ Elements(constraints') \subseteq 1..Len(kind')
    BY <1>8, ElementsOf
  <2>2. n \in Nat
    OBVIOUS
  <2> QED BY <2>1, <2>2, <1>4, <1>6, <1>8
<1>10. minimize # None => minimize \in Elements(constraints) /\ kind[minimize] = "minimize" /\ minimize \in 1..Len(kind)
  BY <1>1, <1>4, Parts DEF ListInv
<1>11. ListInv'
  <2>1. 1 <= jdx' /\ jdx' <= idx' /\ idx' <= Len(constraints') + 1
    BY <1>1, <1>2, <1>4, <1>5, <1>9
  <2>2. \A c \in Elements(constraints') : kind'[c] = "minimize" => c = minimize
    <3> SUFFICES ASSUME NEW c \in Elements(constraints'), kind'[c] = "minimize"
                 PROVE  c = minimize
      OBVIOUS
    <3>1. c \in Elements(constraints)
      BY <1>6, <1>8, <1>9
    <3> QED BY <3>1, <1>4, <1>6
  <2>3. minimize # None => minimize \in Elements(constraints') /\ kind'[minimize] = "minimize"
    BY <1>6, <1>8, <1>10
  <2> QED BY <2>1, <2>2, <2>3, <1>1, <1>8 DEF ListInv
<1>12. ObjectiveInv'
  <2>1. \A m \in 1..Len(constraints) : constraints[m] = minimize =>
            \/ m < jdx /\ ~ translateMinimize /\ inMinimize # {}
            \/ jdx <= m /\ m < idx /\ translateMinimize /\ inMinimize = {}
            \/ idx <= m /\ inMinimize # {}
    BY <1>1, <1>4, Parts DEF ObjectiveInv
  <2>2. ASSUME NEW m \in DOMAIN constraints', constraints'[m] = minimize
        PROVE  \/ m < jdx /\ ~ translateMinimize /\ inMinimize # {}
               \/ jdx <= m /\ m < idx + 1 /\ translateMinimize /\ inMinimize = {}
               \/ idx + 1 <= m /\ inMinimize # {}
    <3>1. m \in 1..Len(constraints) /\ constraints[m] = minimize
      <4>1. m \in 1..(Len(constraints) + n)
        BY <1>9
      <4>2. ~(minimize > Len(kind))
        BY <1>4, <1>10 DEF None
      <4>3. m <= Len(constraints)
        BY <4>1, <4>2, <2>2, <1>4, <1>8
      <4>4. m \in 1..Len(constraints)
        BY <4>1, <4>3, <1>4
      <4> QED BY <4>4, <2>2, <1>8
    <3>2. m # idx
      <4>1. kind[constraints[m]] = "minimize"
        BY <3>1, <1>4
      <4> QED BY <4>1, <1>3
    <3>3. m \in Nat
      BY <3>1
    <3> QED BY <3>1, <3>2, <3>3, <2>1, <1>5
  <2> QED BY <2>2, <1>1, <1>2, Parts DEF ObjectiveInv
<1>13. ItemEffect(-1)
  <2>1. CountAdded + (-1) = CountAdded - 1
    BY DEF CountAdded
  <2>2. numStep + CountAdded - 1 = numStep + (CountAdded + (-1))
    BY ListFacts DEF CountAdded
  <2>3. jdx' = jdx + (-1 + 1)
    BY <1>2, <1>5
  <2>4. ASSUME NEW m \in idx..Len(constraints)
        PROVE  FirstOf(constraints', m) = FirstOf(constraints, m)
    <3>1. 1..m \subseteq 1..Len(constraints)
      BY <1>4, <1>5
    <3> QED BY <3>1, <1>8 DEF FirstOf
  <2> QED BY <2>2, <2>3, <2>4, <1>9 DEF ItemEffect
<1>14. translateMinimize' \in BOOLEAN
  BY <1>2, Parts DEF TypeInv
<1> QED BY <1>6, <1>8, <1>9, <1>11, <1>12, <1>13, <1>14, ItemDone

\* One iteration of translate.
LEMMA TranslateItemStep ==
    ASSUME IInv, TranslateItem
    PROVE  IInv'
<1>1. \/ /\ kind[constraints[idx]] = "minimize" => ~ translateMinimize
         /\ Keep
         /\ numStep' = (numStep + CountAdded) % Word
      \/ /\ Give
         /\ numStep' = (numStep + CountAdded - 1) % Word
  BY ItemStep
<1> QED BY <1>1, KeepStep, GiveMinimizeStep, GiveOtherStep

\* What was translated is removed from the list of constraints, and its states from the master.
LEMMA TranslateEndStep ==
    ASSUME IInv, TranslateEnd
    PROVE  IInv'
<1> DEFINE L == Len(constraints)
           gone == {constraints[n] : n \in jdx..L}
           s == solvers[1]
           gs == {st \in s.states : st.cons \in gone}
           r == IF gone = {} THEN s ELSE WithoutStates(s, gs)
<1>1. /\ pc = "translate" /\ idx > L /\ step' = step /\ kind' = kind
      /\ constraints' = SubSeq(constraints, 1, jdx - 1)
      /\ solvers' = IF gone = {} THEN solvers ELSE Master(WithoutStates(s, gs))
      /\ minimize' = IF translateMinimize THEN None ELSE minimize
      /\ (pc' = "threads" \/ pc' = "unsat")
      /\ translateMinimize' = translateMinimize /\ idx' = idx /\ jdx' = jdx
      /\ turn' = turn /\ status' = status /\ numStep' = numStep /\ numAccu' = numAccu /\ seen' = seen
      /\ inClasp' = inClasp /\ posted' = posted /\ inMinimize' = inMinimize
  BY DEF TranslateEnd, statVars, ghostVars
<1>2. /\ kind \in Seq(Kinds) /\ constraints \in Seq(1..Len(kind)) /\ Len(kind) \in Nat
      /\ L \in Nat /\ DOMAIN constraints = 1..L
      /\ \A i \in 1..L : constraints[i] \in Elements(constraints)
      /\ Elements(constraints) \subseteq 1..Len(kind)
      /\ OneToOne(constraints)
      /\ \A c \in Elements(constraints) : kind[c] = "minimize" => c = minimize
      /\ minimize \in Nat
  BY ListFacts
<1>3. idx \in Nat /\ jdx \in Nat /\ 1 <= jdx /\ jdx <= idx /\ idx <= L + 1
  BY <1>1, Parts DEF TypeInv, ListInv
<1>4. PICK m \in 0..L :
        /\ idx <= m + 1
        /\ ConsOf(s) = FirstOf(constraints, m)
        /\ (numAccu + numStep) % Word = (jdx + m - idx) % Word
  BY <1>1, Parts DEF TranslateInv
<1>5. 1 \in DOMAIN solvers /\ SolverOk(s, kind) /\ s.levels = <<>> /\ NothingMissed(s, seen[1])
  <2>1. 1 \in DOMAIN solvers
    BY Parts, SolversType
  <2> QED BY <2>1, <1>1, LevelZero, Parts DEF SolversInv, SeenInv
<1> HIDE DEF L
<1>6. m = L /\ jdx - 1 \in 0..L /\ jdx + m - idx = jdx - 1 /\ idx = L + 1
  <2>1. idx > L
    BY <1>1
  <2> QED BY <2>1, <1>2, <1>3, <1>4
<1>7. ConsOf(s) = Elements(constraints) /\ (numAccu + numStep) % Word = (jdx - 1) % Word
  <2>1. FirstOf(constraints, L) = Elements(constraints)
    BY <1>2 DEF FirstOf, Elements
  <2> QED BY <2>1, <1>4, <1>6
<1>8. gone = Behind(constraints, jdx - 1)
  <2>1. \A n \in 1..L : n > jdx - 1 <=> n \in jdx..L
    BY <1>2, <1>3
  <2>2. jdx..L \subseteq 1..L
    BY <1>2, <1>3
  <2>3. {j \in DOMAIN constraints : j > jdx - 1} = jdx..L
    BY <2>1, <2>2, <1>2
  <2> QED BY <2>3 DEF Behind
<1>9. LET new == SubSeq(constraints, 1, jdx - 1) IN
      /\ new \in Seq(1..Len(kind)) /\ Len(new) = jdx - 1 /\ DOMAIN new = 1..(jdx - 1)
      /\ \A n \in 1..(jdx - 1) : new[n] = constraints[n]
      /\ Elements(new) \subseteq Elements(constraints)
      /\ Elements(constraints) = Elements(new) \union Behind(constraints, jdx - 1)
      /\ OneToOne(constraints) => OneToOne(new) /\ Elements(new) \intersect Behind(constraints, jdx - 1) = {}
  <2>1. constraints \in Seq(1..Len(kind)) /\ jdx - 1 \in 0..Len(constraints)
    BY <1>2, <1>6 DEF L
  <2> QED BY <2>1, Prefix
<1>10. /\ constraints' \in Seq(1..Len(kind)) /\ Len(constraints') = jdx - 1 /\ DOMAIN constraints' = 1..(jdx - 1)
       /\ \A n \in 1..(jdx - 1) : constraints'[n] = constraints[n]
       /\ OneToOne(constraints')
       /\ Elements(constraints') = Elements(constraints) \ gone /\ gone \subseteq Elements(constraints)
  <2> HIDE DEF gone
  <2>1. constraints' = SubSeq(constraints, 1, jdx - 1) /\ OneToOne(constraints)
    BY <1>1, <1>2
  <2> QED BY <2>1, <1>8, <1>9
<1> HIDE DEF gone
<1>11. /\ SolverOk(r, kind) /\ r.levels = <<>> /\ ConsOf(r) = Elements(constraints')
       /\ NothingMissed(r, seen[1])
  <2>1. CASE gone = {}
    BY <2>1, <1>5, <1>7, <1>10
  <2>2. CASE gone # {}
    <3> DEFINE w == WithoutStates(s, gs)
    <3>1. r = w
      BY <2>2
    <3>2. WellFormed(s)
      BY <1>5 DEF SolverOk
    <3> HIDE DEF s, r
    <3>3. /\ WellFormed(w) /\ w.levels = <<>>
          /\ Elements(w.inactive) = Elements(s.inactive) \ gs
          /\ w.states = s.states \ gs
          /\ Elements(w.todo) = Elements(s.todo) \ gs
      <4> HIDE DEF gs
      <4> QED BY <3>2, <1>5, StatesRemoved
    <3> HIDE DEF w
    <3>4. SolverOk(w, kind)
      BY <3>3, <1>5 DEF SolverOk
    <3>5. ConsOf(w) = Elements(constraints) \ gone
      <4>1. w.states = {st \in s.states : st.cons \notin gone}
        BY <3>3
      <4>2. ConsOf(w) = ConsOf(s) \ gone
        BY <4>1 DEF ConsOf
      <4> QED BY <4>2, <1>7
    <3>6. NothingMissed(w, seen[1])
      <4> HIDE DEF gs
      <4> QED BY <3>3, <1>5 DEF NothingMissed
    <3> QED BY <3>1, <3>3, <3>4, <3>5, <3>6, <1>10
  <2> QED BY <2>1, <2>2
<1>12. /\ solvers' \in Seq(SolverSet) /\ Len(solvers') = Len(solvers) /\ solvers'[1] = r
       /\ SolversInv'
  <2>1. CASE gone = {}
    <3>1. solvers' = solvers /\ r = s
      BY <2>1, <1>1
    <3>2. SolversInv'
      BY <3>1, <1>1, LevelZero, Parts DEF SolversInv
    <3> QED BY <3>1, <3>2, Parts DEF TypeInv
  <2>2. CASE gone # {}
    <3>1. solvers' = Master(r)
      BY <2>2, <1>1
    <3>2. /\ kind' \in Seq(Kinds) /\ Len(kind) <= Len(kind')
          /\ \A i \in 1..Len(kind) : kind'[i] = kind[i]
          /\ SolverOk(r, kind')
      BY <1>1, <1>2, <1>11
    <3>3. pc \notin {"search", "unsat"}
      BY <1>1
    <3> HIDE DEF r
    <3> QED BY <3>1, <3>2, <3>3, <1>11, MasterChanged
  <2> QED BY <2>1, <2>2
<1> HIDE DEF r
<1>13. ASSUME minimize # None
       PROVE  \E n \in 1..L : /\ constraints[n] = minimize
                              /\ \/ n < jdx /\ ~ translateMinimize /\ inMinimize # {}
                                 \/ jdx <= n /\ translateMinimize /\ inMinimize = {}
  <2>1. minimize \in Elements(constraints)
    BY <1>1, <1>13, Parts DEF ListInv
  <2>2. PICK n \in 1..L : constraints[n] = minimize
    BY <2>1, <1>2 DEF Elements
  <2>3. \/ n < jdx /\ ~ translateMinimize /\ inMinimize # {}
        \/ jdx <= n /\ n < idx /\ translateMinimize /\ inMinimize = {}
        \/ idx <= n /\ inMinimize # {}
    BY <2>2, <1>1, <1>2, Parts DEF ObjectiveInv
  <2>4. ~(idx <= n)
    BY <1>2, <1>6
  <2> QED BY <2>2, <2>3, <2>4
<1>14. (minimize' # None <=> inMinimize # {}) /\ (translateMinimize => inMinimize = {})
  <2>1. minimize = None => inMinimize = {}
    BY <1>1, Parts DEF ObjectiveInv
  <2> QED BY <2>1, <1>1, <1>13
<1>15. ListInv'
  <2>1. ASSUME NEW c \in Elements(constraints'), kind[c] = "minimize"
        PROVE  c = minimize'
    <3>1. c = minimize /\ c # None /\ c \notin gone
      BY <2>1, <1>2, <1>10 DEF None
    <3>2. PICK n \in 1..L : /\ constraints[n] = minimize
                            /\ \/ n < jdx /\ ~ translateMinimize /\ inMinimize # {}
                               \/ jdx <= n /\ translateMinimize /\ inMinimize = {}
      BY <3>1, <1>13
    <3>3. ~(jdx <= n)
      <4>1. n \in jdx..L => constraints[n] \in gone
        BY DEF gone
      <4>2. jdx <= n => n \in jdx..L
        BY <1>2, <1>3
      <4> QED BY <4>1, <4>2, <3>1, <3>2
    <3> QED BY <3>1, <3>2, <3>3, <1>1
  <2>2. ASSUME minimize' # None
        PROVE  minimize' \in Elements(constraints') /\ kind[minimize'] = "minimize"
    <3>1. minimize' = minimize /\ ~ translateMinimize /\ minimize # None
      BY <2>2, <1>1
    <3>2. PICK n \in 1..L : constraints[n] = minimize /\ n < jdx
      BY <3>1, <1>13
    <3>3. n \in 1..(jdx - 1)
      BY <3>2, <1>2, <1>3
    <3>4. minimize \in Elements(constraints')
      BY <3>2, <3>3, <1>10 DEF Elements
    <3> QED BY <3>1, <3>4, <1>1, Parts DEF ListInv
  <2> QED BY <2>1, <2>2, <1>1, <1>10 DEF ListInv
<1>16. ObjectiveInv'
  BY <1>1, <1>14, Parts DEF ObjectiveInv
<1>17. TypeInv'
  <2>1. Len(seen') = Len(solvers') /\ turn' \in 1..Len(solvers')
    BY <1>1, <1>12, Parts DEF TypeInv
  <2>2. pc' \in Phases /\ minimize' \in Nat /\ constraints' \in Seq(1..Len(kind'))
    BY <1>1, <1>2, <1>10 DEF Phases, None
  <2> QED BY <2>1, <2>2, <1>1, <1>12, Parts DEF TypeInv
<1>18. CountInv' /\ StatesInv' /\ SeenInv'
  BY <1>1, <1>7, <1>10, <1>11, <1>12 DEF CountInv, StatesInv, SeenInv
<1>19. TranslateInv' /\ ExactInv'
  BY <1>1 DEF TranslateInv, ExactInv
<1> QED BY <1>12, <1>15, <1>16, <1>17, <1>18, <1>19 DEF IInv

\* The other threads get copies of the master.
LEMMA ThreadsStep ==
    ASSUME IInv, Threads
    PROVE  IInv'
<1> DEFINE s == solvers[1]
<1>1. /\ pc = "threads" /\ pc' = "search" /\ step' = step /\ constraints' = constraints /\ kind' = kind
      /\ minimize' = minimize /\ translateMinimize' = translateMinimize /\ idx' = idx /\ jdx' = jdx
      /\ turn' = 1 /\ status' = "fresh" /\ numStep' = numStep /\ numAccu' = numAccu
      /\ inClasp' = inClasp /\ posted' = posted /\ inMinimize' = inMinimize
  BY DEF Threads, initVars, statVars, ghostVars
<1>2. PICK n \in 1..MaxThreads :
        /\ solvers' = [t \in 1..n |-> IF t = 1 THEN s ELSE CopyTo(t, s)]
        /\ seen' = [t \in 1..n |-> seen[1]]
  BY DEF Threads
<1>3. n \in Nat /\ 1 \in 1..n
  BY LifeCycleAssumption
<1>4. /\ SolverOk(s, kind) /\ s.levels = <<>> /\ ConsOf(s) = Elements(constraints)
      /\ NothingMissed(s, seen[1]) /\ seen[1] \subseteq Nat /\ step \in Nat
  <2>1. 1 \in DOMAIN solvers /\ seen[1] \subseteq Nat
    BY Parts, SolversType
  <2> QED BY <2>1, <1>1, LevelZero, Parts DEF SolversInv, SeenInv, StatesInv, TypeInv
<1> HIDE DEF s
<1>5. ASSUME NEW t \in 1..n
      PROVE  /\ SolverOk(solvers'[t], kind) /\ solvers'[t].levels = <<>>
             /\ ConsOf(solvers'[t]) = Elements(constraints)
             /\ NothingMissed(solvers'[t], seen[1])
  <2>1. CASE t = 1
    <3>1. solvers'[t] = s
      BY <2>1, <1>2
    <3> QED BY <3>1, <1>4
  <2>2. CASE t # 1
    <3> DEFINE r == CopyTo(t, s)
    <3>1. solvers'[t] = r /\ t \in Nat
      BY <2>2, <1>2
    <3>2. WellFormed(s)
      BY <1>4 DEF SolverOk
    <3>3. /\ WellFormed(r) /\ r.levels = <<>>
          /\ r.states = {Own(t, x) : x \in s.states}
          /\ Elements(r.inactive) = {Own(t, x) : x \in Elements(s.inactive)}
          /\ Elements(r.todo) = {Own(t, x) : x \in Elements(s.todo)}
      BY <3>1, <3>2, <1>4, Copied
    <3> HIDE DEF r
    <3>4. \A x \in s.states : Own(t, x).cons = x.cons
      <4>1. s.states \subseteq StateSet
        BY <3>2, FieldTypes DEF WellFormed
      <4> QED BY <4>1 DEF Own, StateSet
    <3>5. Elements(s.inactive) \subseteq s.states
      BY <3>2 DEF WellFormed, Refers, Listed
    <3>6. SolverOk(r, kind)
      BY <3>3, <3>4, <3>5, <1>4 DEF SolverOk
    <3>7. ConsOf(r) = ConsOf(s)
      BY <3>3, <3>4 DEF ConsOf
    <3>8. NothingMissed(r, seen[1])
      BY <3>3, <3>4, <1>4 DEF NothingMissed
    <3> QED BY <3>1, <3>3, <3>6, <3>7, <3>8, <1>4
  <2> QED BY <2>1, <2>2
<1>6. /\ solvers' \in Seq(SolverSet) /\ Len(solvers') = n /\ DOMAIN solvers' = 1..n
      /\ seen' \in Seq(SUBSET Nat) /\ Len(seen') = n /\ \A t \in 1..n : seen'[t] = seen[1]
  <2>1. \A t \in 1..n : solvers'[t] \in SolverSet
    BY <1>5 DEF SolverOk, WellFormed
  <2>2. \A t \in 1..n : solvers'[t] = IF t = 1 THEN s ELSE CopyTo(t, s)
    BY <1>2
  <2>3. solvers' \in [1..n -> SolverSet]
    BY <2>1, <2>2, <1>2
  <2>4. seen' \in [1..n -> SUBSET Nat] /\ \A t \in 1..n : seen'[t] = seen[1]
    BY <1>2, <1>4
  <2> QED BY <2>3, <2>4, <1>3
<1>7. TypeInv'
  BY <1>1, <1>3, <1>6, Parts DEF TypeInv, Phases
<1>8. SolversInv' /\ ExactInv'
  <2>1. SolversInv'
    BY <1>1, <1>5, <1>6 DEF SolversInv
  <2>2. ExactInv'
    BY <1>1, <1>6 DEF ExactInv
  <2> QED BY <2>1, <2>2
<1>9. StatesInv' /\ SeenInv'
  BY <1>1, <1>5, <1>6 DEF StatesInv, SeenInv
<1>10. ObjectiveInv'
  BY <1>1, Parts DEF ObjectiveInv
<1>11. ListInv' /\ CountInv' /\ TranslateInv'
  BY <1>1, Parts DEF ListInv, CountInv, TranslateInv
<1> QED BY <1>7, <1>8, <1>9, <1>10, <1>11 DEF IInv

-----------------------------------------------------------------------------
(* The theorems.                                                           *)

\* The invariant holds in all reachable states.
THEOREM LifeCycleInvariance == Spec => []IInv
<1>1. Init => IInv
  BY InitInvariant
<1>2. IInv /\ [Next]_vars => IInv'
  <2> SUFFICES ASSUME IInv, [Next]_vars
               PROVE  IInv'
    OBVIOUS
  <2>1. CASE RemoveMinimize
    BY <2>1, RemoveMinimizeStep
  <2>2. CASE ParseConstraint
    BY <2>2, ParseConstraintStep
  <2>3. CASE ParseObjective
    BY <2>3, ParseObjectiveStep
  <2>4. CASE ParseEnd
    BY <2>4, ParseEndStep
  <2>5. CASE Simplify
    BY <2>5, SimplifyStep
  <2>6. CASE AddMinimize
    BY <2>6, AddMinimizeStep
  <2>7. CASE TranslateItem
    BY <2>7, TranslateItemStep
  <2>8. CASE TranslateEnd
    BY <2>8, TranslateEndStep
  <2>9. CASE Threads
    BY <2>9, ThreadsStep
  <2>10. CASE Notice
    BY <2>10, NoticeStep
  <2>11. CASE Check
    BY <2>11, CheckStep
  <2>12. CASE Decide
    BY <2>12, DecideStep
  <2>13. CASE Undo
    BY <2>13, UndoStep
  <2>14. CASE NextThread
    BY <2>14, NextThreadStep
  <2>15. CASE NextStep
    BY <2>15, NextStepStep
  <2>16. CASE UNCHANGED vars
    BY <2>16, Stuttering
  <2> QED BY <2>1, <2>2, <2>3, <2>4, <2>5, <2>6, <2>7, <2>8, <2>9, <2>10, <2>11, <2>12, <2>13,
             <2>14, <2>15, <2>16 DEF Next
<1> QED BY <1>1, <1>2, PTL DEF Spec

\* The level on which an entry of the inactive list was added is the number of
\* levels that were opened before.
LEMMA LevelsBelow ==
    ASSUME NEW s \in SolverSet, NEW n, NEW k \in Nat, AtLevel(s, n, k)
    PROVE  Cardinality({l \in DOMAIN s.levels : s.levels[l].inactive < n}) = k
<1>1. Len(s.levels) \in Nat /\ DOMAIN s.levels = 1..Len(s.levels)
  BY FieldTypes
<1>2. {l \in DOMAIN s.levels : s.levels[l].inactive < n} = 1..k
  BY <1>1 DEF AtLevel
<1>3. Cardinality(1..k) = IF 1 > k THEN 0 ELSE k - 1 + 1
  BY FS_Interval
<1>4. Cardinality(1..k) = k
  <2>1. (IF 1 > k THEN 0 ELSE k - 1 + 1) = k
    OBVIOUS
  <2> QED BY <2>1, <1>3
<1> QED BY <1>2, <1>4, Zenon

\* States that differ in their constraints are as many as these.
LEMMA AsManyStates ==
    ASSUME NEW N \in Nat, NEW list \in Seq(1..N), NEW states,
           {st.cons : st \in states} = Elements(list), \A x, y \in states : x.cons = y.cons => x = y
    PROVE  Cardinality(states) = Cardinality(Elements(list))
<1> DEFINE f == [st \in states |-> st.cons]
<1>1. f \in [states -> Elements(list)]
  OBVIOUS
<1>2. \A a, b \in states : f[a] = f[b] => a = b
  OBVIOUS
<1>3. \A c \in Elements(list) : \E st \in states : f[st] = c
  <2> SUFFICES ASSUME NEW c \in Elements(list)
               PROVE  \E st \in states : f[st] = c
    OBVIOUS
  <2>1. \E st \in states : st.cons = c
    OBVIOUS
  <2> QED BY <2>1
<1> HIDE DEF f
<1>4. ExistsBijection(states, Elements(list))
  <2>1. f \in Bijection(states, Elements(list))
    BY <1>1, <1>2, <1>3, Fun_IsBij
  <2> QED BY <2>1, Fun_ExistsBij
<1>5. IsFiniteSet(Elements(list))
  <2>1. Elements(list) \subseteq 1..N
    BY ElementsOf
  <2>2. IsFiniteSet(1..N)
    BY FS_Interval
  <2> QED BY <2>1, <2>2, FS_Subset
<1>6. ExistsBijection(Elements(list), states)
  BY <1>4, Fun_ExistsBijSymmetric
<1> QED BY <1>5, <1>6, FS_Bijection

\* The invariant implies the property.
LEMMA StatesMatch ==
    ASSUME IInv
    PROVE  StatesMatchConstraints
<1>1. ASSUME NEW t \in DOMAIN solvers
      PROVE  WellFormed(solvers[t]) /\ solvers[t] \in SolverSet /\ Refers(solvers[t])
  BY Parts DEF SolversInv, SolverOk, WellFormed
<1>2. NoDanglingStates
  BY <1>1 DEF NoDanglingStates, Refers
<1>3. MarksAreListed
  <2> SUFFICES ASSUME NEW t \in DOMAIN solvers
               PROVE  LET s == solvers[t] IN
                      /\ s.flagged \subseteq Elements(s.todo)
                      /\ \A st \in s.states : s.mark[st] > 0 =>
                           \E n \in DOMAIN s.inactive :
                             /\ s.inactive[n] = st
                             /\ s.mark[st] = 1 + Cardinality({l \in DOMAIN s.levels : s.levels[l].inactive < n})
    BY DEF MarksAreListed
  <2> DEFINE s == solvers[t]
  <2>1. WellFormed(s) /\ s \in SolverSet /\ Refers(s)
    BY <1>1
  <2> HIDE DEF s
  <2>2. s.flagged \subseteq Elements(s.todo)
    BY <2>1 DEF Refers
  <2>3. ASSUME NEW st \in s.states, s.mark[st] > 0
        PROVE  \E n \in DOMAIN s.inactive :
                 /\ s.inactive[n] = st
                 /\ s.mark[st] = 1 + Cardinality({l \in DOMAIN s.levels : s.levels[l].inactive < n})
    <3>1. PICK n \in DOMAIN s.inactive : s.inactive[n] = st /\ AtLevel(s, n, s.mark[st] - 1)
      BY <2>1, <2>3 DEF WellFormed, MarkedListed
    <3> DEFINE k == s.mark[st] - 1
    <3>2. s.mark[st] \in Nat
      BY <2>1 DEF Refers
    <3>3. k \in Nat /\ s.mark[st] = 1 + k
      BY <3>2, <2>3
    <3> HIDE DEF k
    <3>4. Cardinality({l \in DOMAIN s.levels : s.levels[l].inactive < n}) = k
      <4>1. AtLevel(s, n, k)
        BY <3>1 DEF k
      <4> QED BY <4>1, <2>1, <3>3, LevelsBelow
    <3> QED BY <3>1, <3>3, <3>4
  <2> QED BY <2>2, <2>3 DEF s
<1>4. ConstraintsCounted
  BY Parts DEF CountInv, ConstraintsCounted
<1>5. ASSUME pc = "search", NEW t \in DOMAIN solvers
      PROVE  LET s == solvers[t] IN
             /\ {st.cons : st \in s.states} = Elements(constraints)
             /\ Cardinality(s.states) = Cardinality(Elements(constraints))
             /\ s.lits = s.states
             /\ s.watches = s.states \ Elements(s.removed)
             /\ \A st \in Elements(s.removed) : s.mark[st] \in 1..LevelOf(s)
  <2> DEFINE s == solvers[t]
  <2>1. WellFormed(s) /\ s \in SolverSet /\ Refers(s)
    BY <1>1
  <2>2. {st.cons : st \in s.states} = Elements(constraints)
    BY <1>5, Parts DEF StatesInv, ConsOf
  <2> HIDE DEF s
  <2>3. s.lits = s.states /\ s.watches = s.states \ Elements(s.removed)
    BY <2>1 DEF Refers
  <2>4. \A st \in Elements(s.removed) : s.mark[st] \in 1..LevelOf(s)
    BY <2>1 DEF WellFormed, RemovedMarked, Elements, LevelOf
  <2>5. Cardinality(s.states) = Cardinality(Elements(constraints))
    <3>1. \A x, y \in s.states : x.cons = y.cons => x = y
      BY <2>1 DEF Refers
    <3>2. constraints \in Seq(1..Len(kind)) /\ Len(kind) \in Nat
      BY ListFacts
    <3> QED BY <3>1, <3>2, <2>2, AsManyStates
  <2> QED BY <2>2, <2>3, <2>4, <2>5 DEF s
<1> QED BY <1>2, <1>3, <1>4, <1>5 DEF StatesMatchConstraints

\* States and constraints match.
THEOREM StatesAlwaysMatch == Spec => []StatesMatchConstraints
BY LifeCycleInvariance, StatesMatch, PTL

\* Every constraint is propagated.
THEOREM AllPropagated == Spec => []EveryConstraintPropagated
<1>1. IInv => EveryConstraintPropagated
  BY DEF IInv, SeenInv, EveryConstraintPropagated
<1> QED BY <1>1, LifeCycleInvariance, PTL

\* The objective stays whole.
THEOREM ObjectiveStaysWhole == Spec => []ObjectiveUndivided
<1>1. IInv => ObjectiveUndivided
  BY DEF IInv, ListInv, ObjectiveInv, ObjectiveUndivided
<1> QED BY <1>1, LifeCycleInvariance, PTL
=============================================================================
