------------------------ MODULE ConstraintTypes_proofs ------------------------
(***************************************************************************)
(* The clauses that disjoint, nonlinear and distinct constraints add       *)
(* follow from them, what they remember between calls of propagate is      *)
(* right, and at a fixpoint nothing they have to detect was missed, for    *)
(* any numbers of variables, intervals and elements and any bounds and     *)
(* coefficients. The invariants rest on that of their solver's side, which *)
(* comes first.                                                            *)
(***************************************************************************)
EXTENDS ConstraintTypes, Sums_proofs, FiniteSetTheorems

-----------------------------------------------------------------------------
(* What the solver's side of a constraint state guarantees to every type:  *)
(* bounds get tighter with the levels and always leave a value, and what   *)
(* the constraint was told lies between two levels.                        *)

\* The bounds of the variables.
Bounds == [lo : [Vars -> Int], up : [Vars -> Int]]

\* No variable is without a value.
NonEmpty(b) == \A v \in Vars : b.lo[v] <= b.up[v]

\* The bounds b are within the bounds c.
Tighter(b, c) == \A v \in Vars : c.lo[v] <= b.lo[v] /\ b.up[v] <= c.up[v]

\* Bounds get tighter from level to level and always leave a value.
TrailOK(t) ==
    /\ t \in Seq(Bounds) /\ Len(t) \in Nat \ {0}
    /\ \A l \in 1..Len(t) : NonEmpty(t[l])
    /\ \A l \in 1..(Len(t) - 1) : Tighter(t[l + 1], t[l])

-----------------------------------------------------------------------------
(* What the actions of the host do to the trail.                           *)

\* The bounds of each level.
LEMMA TrailBounds ==
    ASSUME NEW t, TrailOK(t)
    PROVE  /\ \A l \in 1..Len(t) : t[l] \in Bounds
           /\ t[Len(t)] \in Bounds /\ NonEmpty(t[Len(t)])
           /\ Len(t) \in Nat /\ Len(t) > 0 /\ Len(t) \in 1..Len(t)
BY DEF TrailOK

\* Being tighter is reflexive and transitive.
LEMMA TighterOrder ==
    /\ \A b \in Bounds : Tighter(b, b)
    /\ \A b, c, d \in Bounds : Tighter(b, c) /\ Tighter(c, d) => Tighter(b, d)
BY DEF Tighter, Bounds

\* Opening a level.
LEMMA TrailPush ==
    ASSUME NEW t, TrailOK(t), NEW b \in Bounds, NonEmpty(b), Tighter(b, t[Len(t)])
    PROVE  /\ TrailOK(Append(t, b))
           /\ Len(Append(t, b)) = Len(t) + 1
           /\ Append(t, b)[Len(t) + 1] = b
           /\ \A l \in 1..Len(t) : Append(t, b)[l] = t[l]
<1>1. t \in Seq(Bounds) /\ Len(t) \in Nat
  BY DEF TrailOK
<1>2. /\ Append(t, b) \in Seq(Bounds)
      /\ Len(Append(t, b)) = Len(t) + 1
      /\ Append(t, b)[Len(t) + 1] = b
      /\ \A l \in 1..Len(t) : Append(t, b)[l] = t[l]
  BY <1>1
<1>3. \A l \in 1..(Len(t) + 1) : NonEmpty(Append(t, b)[l])
  BY <1>1, <1>2 DEF TrailOK
<1>4. ASSUME NEW l \in 1..Len(t)
      PROVE  Tighter(Append(t, b)[l + 1], Append(t, b)[l])
  <2>1. CASE l = Len(t)
    BY <1>1, <1>2, <2>1
  <2>2. CASE l < Len(t)
    <3>1. l \in 1..(Len(t) - 1) /\ l + 1 \in 1..Len(t)
      BY <1>1, <2>2
    <3> QED BY <1>2, <3>1 DEF TrailOK
  <2> QED BY <1>1, <2>1, <2>2
<1> QED BY <1>1, <1>2, <1>3, <1>4 DEF TrailOK

\* Tightening bounds on the last level.
LEMMA TrailNarrow ==
    ASSUME NEW t, TrailOK(t), NEW b \in Bounds, NonEmpty(b), Tighter(b, t[Len(t)])
    PROVE  LET u == [t EXCEPT ![Len(t)] = b] IN
           /\ TrailOK(u)
           /\ Len(u) = Len(t) /\ u[Len(t)] = b
           /\ \A l \in 1..(Len(t) - 1) : u[l] = t[l]
<1> DEFINE u == [t EXCEPT ![Len(t)] = b]
<1>1. t \in Seq(Bounds) /\ Len(t) \in Nat /\ Len(t) > 0
  BY DEF TrailOK
<1>2. /\ u \in Seq(Bounds)
      /\ Len(u) = Len(t) /\ u[Len(t)] = b
      /\ \A l \in 1..(Len(t) - 1) : u[l] = t[l]
  BY <1>1
<1> HIDE DEF u
<1>3. \A l \in 1..Len(t) : NonEmpty(u[l])
  BY <1>1, <1>2 DEF TrailOK
<1>4. ASSUME NEW l \in 1..(Len(t) - 1)
      PROVE  Tighter(u[l + 1], u[l])
  <2>1. Tighter(t[l + 1], t[l]) /\ t[l] \in Bounds /\ t[l + 1] \in Bounds
    BY <1>1 DEF TrailOK
  <2>2. CASE l + 1 = Len(t)
    <3>1. u[l + 1] = b /\ u[l] = t[l] /\ Tighter(b, t[l + 1])
      BY <1>2, <2>2
    <3> QED BY <2>1, <3>1, TighterOrder
  <2>3. CASE l + 1 < Len(t)
    BY <1>1, <1>2, <2>1, <2>3
  <2> QED BY <1>1, <2>2, <2>3
<1>5. TrailOK(u)
  BY <1>1, <1>2, <1>3, <1>4 DEF TrailOK
<1> QED BY <1>2, <1>5 DEF u

\* Going back one level.
LEMMA TrailPop ==
    ASSUME NEW t, TrailOK(t), Len(t) > 1
    PROVE  /\ TrailOK(SubSeq(t, 1, Len(t) - 1))
           /\ Len(SubSeq(t, 1, Len(t) - 1)) = Len(t) - 1
           /\ \A l \in 1..(Len(t) - 1) : SubSeq(t, 1, Len(t) - 1)[l] = t[l]
<1>1. t \in Seq(Bounds) /\ Len(t) \in Nat
  BY DEF TrailOK
<1>2. /\ SubSeq(t, 1, Len(t) - 1) \in Seq(Bounds)
      /\ Len(SubSeq(t, 1, Len(t) - 1)) = Len(t) - 1
      /\ \A l \in 1..(Len(t) - 1) : SubSeq(t, 1, Len(t) - 1)[l] = t[l]
  BY <1>1
<1> QED BY <1>1, <1>2 DEF TrailOK

\* A literal that is neither true nor false, when it becomes true.
LEMMA TightenedBounds ==
    ASSUME NEW b \in Bounds, NonEmpty(b), NEW l, l.var \in Vars, l.value \in Int,
           ~TrueIn(l, b), ~FalseIn(l, b)
    PROVE  /\ Tightened(b, l) \in Bounds /\ NonEmpty(Tightened(b, l))
           /\ Tighter(Tightened(b, l), b)
<1>1. CASE l.kind = "le"
  <2>1. Tightened(b, l) = [b EXCEPT !.up = [b.up EXCEPT ![l.var] = l.value]]
    BY <1>1 DEF Tightened
  <2>2. b.up[l.var] > l.value /\ b.lo[l.var] <= l.value
    BY <1>1 DEF TrueIn, FalseIn, Bounds
  <2> QED BY <2>1, <2>2 DEF Bounds, NonEmpty, Tighter
<1>2. CASE l.kind # "le"
  <2>1. Tightened(b, l) = [b EXCEPT !.lo = [b.lo EXCEPT ![l.var] = l.value + 1]]
    BY <1>2 DEF Tightened
  <2>2. b.lo[l.var] <= l.value /\ b.up[l.var] > l.value
    BY <1>2 DEF TrueIn, FalseIn, Bounds
  <2> QED BY <2>1, <2>2 DEF Bounds, NonEmpty, Tighter
<1> QED BY <1>1, <1>2

\* The literals clasp may decide.
LEMMA OpenLitsOpen ==
    ASSUME Top \in Bounds, NEW l \in OpenLits
    PROVE  /\ l.var \in Vars /\ l.value \in Int
           /\ ~TrueIn(l, Top) /\ ~FalseIn(l, Top)
<1>1. PICK v \in Vars, k \in UNION {Top.lo[w]..Top.up[w] : w \in Vars} : l \in {LE(v, k), GT(v, k)}
  BY DEF OpenLits
<1>2. k \in Int
  OBVIOUS
<1> QED BY <1>1, <1>2 DEF OpenLits, LE, GT, OrderLit

-----------------------------------------------------------------------------
(* Arithmetic and differences between bounds.                             *)

\* Products are integers, the same for equal factors, and grow with a factor.
LEMMA Product ==
    /\ \A c, x \in Int : c * x \in Int
    /\ \A c, x, y \in Int : c > 0 /\ x <= y => c * x <= c * y
    /\ \A c, x, y \in Int : ~(c > 0) /\ x <= y => c * y <= c * x
    /\ \A c, x, y \in Int : c # 0 /\ c * x = c * y => x = y
    /\ \A x \in Int : 0 * x = 0
<1>1. \A c, x \in Int : c * x \in Int
  OBVIOUS
<1>2. ASSUME NEW c \in Int, NEW x \in Int, NEW y \in Int, c > 0, x <= y
      PROVE  c * x <= c * y
  BY <1>2
<1>3. ASSUME NEW c \in Int, NEW x \in Int, NEW y \in Int, ~(c > 0), x <= y
      PROVE  c * y <= c * x
  BY <1>3
<1>4. ASSUME NEW c \in Int, NEW x \in Int, NEW y \in Int, c # 0, c * x = c * y
      PROVE  x = y
  <2>1. c * (x - y) = 0
    BY <1>4
  <2>2. x - y = 0
    BY <1>4, <2>1
  <2> QED BY <2>2
<1>5. \A x \in Int : 0 * x = 0
  OBVIOUS
<1> QED BY <1>1, <1>2, <1>3, <1>4, <1>5

\* A difference to looser bounds stays one when the bounds get tighter still.
LEMMA DiffGrows ==
    ASSUME NEW b \in Bounds, NEW c \in Bounds, NEW d \in Bounds,
           Tighter(b, c), Tighter(c, d)
    PROVE  /\ LowerDiff(c, d) \subseteq LowerDiff(b, d)
           /\ UpperDiff(c, d) \subseteq UpperDiff(b, d)
           /\ LowerDiff(b, c) \subseteq LowerDiff(b, d)
           /\ UpperDiff(b, c) \subseteq UpperDiff(b, d)
<1>1. ASSUME NEW v \in Vars
      PROVE  /\ d.lo[v] <= c.lo[v] /\ c.lo[v] <= b.lo[v]
             /\ b.up[v] <= c.up[v] /\ c.up[v] <= d.up[v]
             /\ b.lo[v] \in Int /\ c.lo[v] \in Int /\ d.lo[v] \in Int
             /\ b.up[v] \in Int /\ c.up[v] \in Int /\ d.up[v] \in Int
  BY DEF Tighter, Bounds
<1>2. LowerDiff(c, d) \subseteq LowerDiff(b, d) /\ LowerDiff(b, c) \subseteq LowerDiff(b, d)
  BY <1>1 DEF LowerDiff
<1>3. UpperDiff(c, d) \subseteq UpperDiff(b, d) /\ UpperDiff(b, c) \subseteq UpperDiff(b, d)
  BY <1>1 DEF UpperDiff
<1> QED BY <1>2, <1>3

-----------------------------------------------------------------------------
(* The host's part of the invariant.                                       *)

\* Literals of clauses.
LitOK(l) == l.var \in Vars /\ l.kind \in {"le", "gt"} /\ l.value \in Int

\* What the constraint was told lies between the bounds of the level below
\* and the current ones.
FlushOK ==
    /\ Tighter(Top, flushed)
    /\ dl > 0 => Tighter(flushed, Previous)
    /\ pc = "fixpoint" => flushed = Top

HostInv ==
    /\ start \in Starts
    /\ TrailOK(trail) /\ flushed \in Bounds
    /\ clit \in {"free", "true", "false"} /\ clitLevel \in 0..dl
    /\ inactive \in 0..(dl + 1) /\ todo \in BOOLEAN
    /\ \A l \in pending : LitOK(l)
    /\ pc \in {"propagate", "fixpoint", "conflict", "unsat"}
    /\ FlushOK

\* What holds of the last bounds.
LEMMA TopFacts ==
    ASSUME HostInv
    PROVE  /\ Top \in Bounds /\ NonEmpty(Top) /\ flushed \in Bounds
           /\ Len(trail) \in Nat /\ Len(trail) > 0 /\ dl \in Nat /\ dl = Len(trail) - 1
           /\ \A l \in 1..Len(trail) : trail[l] \in Bounds
           /\ clitLevel \in Nat /\ inactive \in Nat
           /\ dl > 0 => Previous \in Bounds /\ Previous = trail[dl]
<1>1. TrailOK(trail) /\ flushed \in Bounds
  BY DEF HostInv
<1>2. Len(trail) \in Nat /\ Len(trail) > 0 /\ \A l \in 1..Len(trail) : trail[l] \in Bounds
  BY <1>1, TrailBounds
<1>3. dl \in Nat /\ dl = Len(trail) - 1
  BY <1>2 DEF dl
<1>4. clitLevel \in 0..dl /\ inactive \in 0..(dl + 1)
  BY DEF HostInv
<1>5. dl > 0 => Previous \in Bounds /\ Previous = trail[dl]
  BY <1>2, <1>3 DEF Previous
<1>6. Top \in Bounds /\ NonEmpty(Top)
  BY <1>1, TrailBounds DEF Top
<1> QED BY <1>1, <1>2, <1>3, <1>4, <1>5, <1>6

\* The state in which the constraint is attached.
LEMMA HostInitInv ==
    ASSUME HostStarts, HostInit
    PROVE  HostInv
<1> DEFINE b == [lo |-> start.lo, up |-> start.up]
<1>1. /\ start \in Starts /\ b \in Bounds /\ NonEmpty(b)
      /\ start.clit \in {"free", "true"}
  BY DEF HostStarts, HostInit, Bounds, NonEmpty
<1>2. trail = <<b>> /\ flushed = b
  BY DEF HostInit
<1> HIDE DEF b
<1>3. TrailOK(trail) /\ dl = 0 /\ Top = b
  BY <1>1, <1>2 DEF TrailOK, dl, Top
<1>4. FlushOK
  BY <1>1, <1>2, <1>3, TighterOrder DEF FlushOK
<1>5. /\ clit \in {"free", "true", "false"} /\ clitLevel = 0 /\ inactive = 0 /\ todo = TRUE
      /\ pending = {} /\ pc = "propagate"
  BY <1>1 DEF HostInit
<1>6. /\ clitLevel \in 0..dl /\ inactive \in 0..(dl + 1) /\ todo \in BOOLEAN
      /\ \A l \in pending : LitOK(l)
      /\ pc \in {"propagate", "fixpoint", "conflict", "unsat"}
  BY <1>3, <1>5
<1> QED BY <1>1, <1>2, <1>3, <1>4, <1>5, <1>6 DEF HostInv

\* Opening a level or changing the bounds of the last one: what the actions
\* of clasp have in common. The bounds the constraint was told stay.
Pushed(b) ==
    /\ b \in Bounds /\ NonEmpty(b) /\ Tighter(b, Top)
    /\ trail' = Append(trail, b)
Narrowed(b) ==
    /\ b \in Bounds /\ NonEmpty(b) /\ Tighter(b, Top)
    /\ trail' = [trail EXCEPT ![Len(trail)] = b]

\* The levels after a new one is opened.
LEMMA PushedTrail ==
    ASSUME HostInv, NEW b, Pushed(b)
    PROVE  /\ TrailOK(trail') /\ Len(trail') = Len(trail) + 1 /\ dl' = dl + 1
           /\ Top' = b /\ Previous' = Top
           /\ \A l \in 1..Len(trail) : trail'[l] = trail[l]
<1>1. TrailOK(trail) /\ b \in Bounds /\ NonEmpty(b) /\ Tighter(b, trail[Len(trail)])
  BY DEF HostInv, Pushed, Top
<1>2. trail' = Append(trail, b)
  BY DEF Pushed
<1>3. /\ TrailOK(trail') /\ Len(trail') = Len(trail) + 1
      /\ trail'[Len(trail) + 1] = b
      /\ \A l \in 1..Len(trail) : trail'[l] = trail[l]
  BY <1>1, <1>2, TrailPush
<1>4. Len(trail) \in Nat /\ Len(trail) \in 1..Len(trail)
  BY <1>1, TrailBounds
<1>5. Top' = b /\ dl' = dl + 1
  BY <1>3, <1>4 DEF Top, dl
<1>6. Previous' = Top
  <2>1. Previous' = trail'[Len(trail') - 1] /\ Len(trail') - 1 = Len(trail)
    BY <1>3, <1>4 DEF Previous
  <2> QED BY <2>1, <1>3, <1>4 DEF Top
<1> QED BY <1>3, <1>5, <1>6

\* The levels after the last one changed.
LEMMA NarrowedTrail ==
    ASSUME HostInv, NEW b, Narrowed(b)
    PROVE  /\ TrailOK(trail') /\ Len(trail') = Len(trail) /\ dl' = dl
           /\ Top' = b /\ (dl > 0 => Previous' = Previous)
           /\ \A l \in 1..dl : trail'[l] = trail[l]
<1>1. TrailOK(trail) /\ b \in Bounds /\ NonEmpty(b) /\ Tighter(b, trail[Len(trail)])
  BY DEF HostInv, Narrowed, Top
<1>2. trail' = [trail EXCEPT ![Len(trail)] = b]
  BY DEF Narrowed
<1>3. /\ TrailOK(trail') /\ Len(trail') = Len(trail)
      /\ trail'[Len(trail)] = b
      /\ \A l \in 1..(Len(trail) - 1) : trail'[l] = trail[l]
  <2>1. PICK t, u : t = trail /\ u = [t EXCEPT ![Len(t)] = b]
    OBVIOUS
  <2>2. TrailOK(t) /\ Tighter(b, t[Len(t)]) /\ trail' = u
    BY <1>1, <1>2, <2>1
  <2>3. TrailOK(u) /\ Len(u) = Len(t) /\ u[Len(t)] = b /\ \A l \in 1..(Len(t) - 1) : u[l] = t[l]
    <3>1. b \in Bounds /\ NonEmpty(b)
      BY <1>1
    <3>2. LET w == [t EXCEPT ![Len(t)] = b] IN
          TrailOK(w) /\ Len(w) = Len(t) /\ w[Len(t)] = b /\ \A l \in 1..(Len(t) - 1) : w[l] = t[l]
      BY ONLY <2>2, <3>1, TrailNarrow, Zenon
    <3> QED BY <2>1, <3>2
  <2> QED BY <2>1, <2>2, <2>3
<1>4. Len(trail) \in Nat /\ Len(trail) > 0 /\ dl = Len(trail) - 1
  BY TopFacts
<1>5. Top' = b /\ dl' = dl
  BY <1>3, <1>4 DEF Top, dl
<1>6. dl > 0 => Previous' = Previous
  <2>1. Previous' = trail'[Len(trail) - 1]
    BY <1>3 DEF Previous
  <2> QED BY <2>1, <1>3, <1>4 DEF Previous
<1> QED BY <1>3, <1>4, <1>5, <1>6

\* A literal decided or propagated gives bounds within the current ones.
LEMMA OpenLitNarrows ==
    ASSUME HostInv, NEW l \in OpenLits
    PROVE  /\ Tightened(Top, l) \in Bounds /\ NonEmpty(Tightened(Top, l))
           /\ Tighter(Tightened(Top, l), Top)
BY TopFacts, OpenLitsOpen, TightenedBounds

\* A decision opens a level.
LEMMA DecidePushes ==
    ASSUME HostInv, Decide
    PROVE  \E b : Pushed(b)
<1>1. CASE \E l \in OpenLits : trail' = Append(trail, Tightened(Top, l))
  BY <1>1, OpenLitNarrows DEF Pushed
<1>2. CASE trail' = Append(trail, Top)
  BY <1>2, TopFacts, TighterOrder DEF Pushed
<1> QED BY <1>1, <1>2 DEF Decide

\* Unit propagation and the literals made true change the last level.
LEMMA UnitNarrows ==
    ASSUME HostInv, UnitPropagate \/ Deliver
    PROVE  UNCHANGED trail \/ \E b : Narrowed(b)
<1>1. ASSUME NEW l, LitOK(l), ~FalseIn(l, Top),
             trail' = IF TrueIn(l, Top) THEN trail
                      ELSE [trail EXCEPT ![Len(trail)] = Tightened(@, l)]
      PROVE  UNCHANGED trail \/ \E b : Narrowed(b)
  <2>1. CASE TrueIn(l, Top)
    BY <1>1, <2>1
  <2>2. CASE ~TrueIn(l, Top)
    <3>1. /\ Tightened(Top, l) \in Bounds /\ NonEmpty(Tightened(Top, l))
          /\ Tighter(Tightened(Top, l), Top)
      BY <1>1, <2>2, TopFacts, TightenedBounds DEF LitOK
    <3>2. trail' = [trail EXCEPT ![Len(trail)] = Tightened(Top, l)]
      BY <1>1, <2>2 DEF Top
    <3> QED BY <3>1, <3>2 DEF Narrowed
  <2> QED BY <2>1, <2>2
<1>2. CASE UnitPropagate
  <2>1. CASE UNCHANGED trail
    BY <2>1
  <2>2. CASE \E l \in OpenLits : trail' = [trail EXCEPT ![Len(trail)] = Tightened(@, l)]
    <3>1. PICK l \in OpenLits : trail' = [trail EXCEPT ![Len(trail)] = Tightened(Top, l)]
      BY <2>2 DEF Top
    <3> QED BY <3>1, OpenLitNarrows DEF Narrowed
  <2> QED BY <1>2, <2>1, <2>2 DEF UnitPropagate
<1>3. CASE Deliver
  <2>1. PICK l \in pending :
          IF FalseIn(l, Top) THEN UNCHANGED trail
          ELSE trail' = IF TrueIn(l, Top) THEN trail
                        ELSE [trail EXCEPT ![Len(trail)] = Tightened(@, l)]
    BY <1>3 DEF Deliver
  <2>2. LitOK(l)
    BY DEF HostInv
  <2> QED BY <1>1, <2>1, <2>2
<1> QED BY <1>2, <1>3

\* What a change of the constraint literal keeps.
LEMMA ClitKeeps ==
    ASSUME HostInv, NEW level \in Nat, dl <= level,
           AssignClit(level) \/ UNCHANGED <<litVars, todo>>
    PROVE  /\ clit' \in {"free", "true", "false"} /\ clitLevel' \in 0..level
           /\ todo' \in BOOLEAN
<1>1. /\ clit \in {"free", "true", "false"} /\ clitLevel \in 0..dl /\ dl \in Nat
      /\ todo \in BOOLEAN
  BY TopFacts DEF HostInv
<1>2. CASE AssignClit(level)
  <2>1. clitLevel' = level /\ clit' \in {"true", "false"} /\ level \in 0..level
    BY <1>2 DEF AssignClit
  <2>2. todo' \in BOOLEAN
    BY <1>1, <1>2 DEF AssignClit
  <2> QED BY <2>1, <2>2
<1>3. CASE UNCHANGED <<litVars, todo>>
  <2>1. clitLevel' = clitLevel /\ clit' = clit /\ todo' = todo
    BY <1>3 DEF litVars
  <2>2. clitLevel \in 0..level
    BY <1>1
  <2> QED BY <1>1, <2>1, <2>2
<1> QED BY <1>2, <1>3

\* A decision keeps the invariant.
LEMMA DecideHostInv ==
    ASSUME HostInv, Decide, UNCHANGED start
    PROVE  HostInv'
<1>1. PICK b : Pushed(b)
  BY DecidePushes
<1>2. /\ TrailOK(trail') /\ Len(trail') = Len(trail) + 1 /\ dl' = dl + 1
      /\ Top' = b /\ Previous' = Top
  BY <1>1, PushedTrail
<1>3. /\ dl \in Nat /\ inactive \in 0..(dl + 1) /\ flushed \in Bounds /\ Top \in Bounds
      /\ flushed = Top /\ b \in Bounds /\ Tighter(b, Top)
  BY <1>1, TopFacts DEF HostInv, FlushOK, Decide, Pushed
<1>4. /\ flushed' = flushed /\ inactive' = inactive /\ pending' = pending
      /\ pc' = "propagate" /\ start' = start
      /\ AssignClit(dl + 1) \/ UNCHANGED <<litVars, todo>>
  BY DEF Decide
<1>5. /\ clit' \in {"free", "true", "false"} /\ clitLevel' \in 0..(dl + 1)
      /\ todo' \in BOOLEAN
  BY <1>3, <1>4, ClitKeeps
<1>6. FlushOK'
  BY <1>2, <1>3, <1>4, TighterOrder DEF FlushOK
<1>7. start' \in Starts /\ \A l \in pending' : LitOK(l)
  BY <1>4 DEF HostInv
<1> QED BY <1>2, <1>3, <1>4, <1>5, <1>6, <1>7 DEF HostInv

\* Unit propagation keeps it and changes the last level only.
LEMMA UnitHostInv ==
    ASSUME HostInv, UnitPropagate \/ Deliver, UNCHANGED start
    PROVE  /\ HostInv' /\ dl' = dl
           /\ \A l \in 1..dl : trail'[l] = trail[l]
<1>1. /\ TrailOK(trail) /\ dl \in Nat /\ inactive \in 0..(dl + 1) /\ flushed \in Bounds
      /\ Top \in Bounds /\ Tighter(Top, flushed) /\ (dl > 0 => Tighter(flushed, Previous))
      /\ \A l \in pending : LitOK(l)
  BY TopFacts DEF HostInv, FlushOK
<1>2. /\ TrailOK(trail') /\ dl' = dl /\ (dl > 0 => Previous' = Previous)
      /\ Top' \in Bounds /\ Tighter(Top', Top)
      /\ \A l \in 1..dl : trail'[l] = trail[l]
  <2>1. CASE UNCHANGED trail
    BY <1>1, <2>1, TighterOrder DEF dl, Top, Previous
  <2>2. CASE \E b : Narrowed(b)
    <3>1. PICK b : Narrowed(b)
      BY <2>2
    <3>2. b \in Bounds /\ Tighter(b, Top)
      BY <3>1 DEF Narrowed
    <3> QED BY <3>1, <3>2, NarrowedTrail
  <2> QED BY <2>1, <2>2, UnitNarrows
<1>3. /\ flushed' = flushed /\ inactive' = inactive /\ start' = start
      /\ AssignClit(dl) \/ UNCHANGED <<litVars, todo>>
  BY DEF UnitPropagate, Deliver
<1>4. pc' \in {"propagate", "conflict", "unsat"} /\ pending' \subseteq pending
  BY DEF UnitPropagate, Deliver, ConflictPc
<1>5. /\ clit' \in {"free", "true", "false"} /\ clitLevel' \in 0..dl
      /\ todo' \in BOOLEAN
  BY <1>1, <1>3, ClitKeeps
<1>6. FlushOK'
  BY <1>1, <1>2, <1>3, <1>4, TighterOrder DEF FlushOK
<1>7. start' \in Starts /\ \A l \in pending' : LitOK(l)
  BY <1>1, <1>3, <1>4 DEF HostInv
<1>8. HostInv'
  BY <1>1, <1>2, <1>3, <1>4, <1>5, <1>6, <1>7 DEF HostInv
<1> QED BY <1>2, <1>8

\* A check tells the constraint the current bounds.
LEMMA FlushKeeps ==
    ASSUME HostInv, FlushBounds, UNCHANGED trail
    PROVE  /\ TrailOK(trail') /\ flushed' \in Bounds /\ FlushOK'
           /\ dl' = dl /\ Top' = Top /\ Previous' = Previous /\ todo' \in BOOLEAN
<1>1. TrailOK(trail') /\ dl' = dl /\ Top' = Top /\ Previous' = Previous
  BY DEF HostInv, dl, Top, Previous
<1>2. flushed' = Top /\ todo' = FALSE
  BY DEF FlushBounds
<1>3. /\ Top \in Bounds /\ flushed \in Bounds /\ Tighter(Top, flushed)
      /\ dl > 0 => Tighter(flushed, Previous) /\ Previous \in Bounds
  BY TopFacts DEF HostInv, FlushOK
<1>4. FlushOK'
  BY <1>1, <1>2, <1>3, TighterOrder DEF FlushOK
<1> QED BY <1>1, <1>2, <1>3, <1>4

\* A check without a call of propagate.
LEMMA IdleHostInv ==
    ASSUME HostInv, CheckIdle \/ CheckFalse, UNCHANGED start
    PROVE  /\ HostInv'
           /\ inactive' = inactive \/ (inactive = 0 /\ inactive' = dl + 1 /\ clit = "false")
<1>1. /\ FlushBounds /\ UNCHANGED <<trail, clit, clitLevel, start, pending>>
      /\ pc' = "fixpoint"
  BY DEF CheckIdle, CheckFalse, litVars
<1>2. /\ TrailOK(trail') /\ flushed' \in Bounds /\ FlushOK' /\ dl' = dl /\ todo' \in BOOLEAN
  BY <1>1, FlushKeeps
<1>3. /\ dl \in Nat /\ inactive \in 0..(dl + 1) /\ clitLevel \in 0..dl
      /\ clit \in {"free", "true", "false"} /\ start \in Starts /\ \A l \in pending : LitOK(l)
  BY TopFacts DEF HostInv
<1>4. inactive' = inactive \/ (inactive = 0 /\ inactive' = dl + 1 /\ clit = "false")
  BY DEF CheckIdle, CheckFalse, MarkInactive
<1>5. inactive' \in 0..(dl + 1)
  BY <1>1, <1>3, <1>4
<1>6. HostInv'
  BY <1>1, <1>2, <1>3, <1>5 DEF HostInv
<1> QED BY <1>4, <1>6

\* The literals of clauses that are made true.
LEMMA UnitLits ==
    ASSUME NEW cs, \A c \in cs : \A l \in c.lits : LitOK(l)
    PROVE  \A l \in Units(cs) : LitOK(l)
BY DEF Units, OpenPart

\* A call of propagate.
LEMMA ClausesHostInv ==
    ASSUME HostInv, CheckPropagate, FlushBounds, UNCHANGED <<trail, start>>, MarkInactive \/ UNCHANGED inactive,
           NEW cs, \A c \in cs : \A l \in c.lits : LitOK(l),
           AddClauses(cs) \/ ClauseFails(cs)
    PROVE  /\ HostInv' /\ added' = cs
           /\ clit' = clit \/ clit' = "false"
<1>1. /\ TrailOK(trail') /\ flushed' \in Bounds /\ FlushOK' /\ dl' = dl /\ todo' \in BOOLEAN
  BY FlushKeeps
<1>2. /\ dl \in Nat /\ inactive \in 0..(dl + 1) /\ clitLevel \in 0..dl
      /\ clit \in {"free", "true", "false"} /\ start \in Starts /\ \A l \in pending : LitOK(l)
  BY TopFacts DEF HostInv
<1>3. inactive' \in 0..(dl + 1)
  BY <1>2 DEF MarkInactive
<1>4. /\ clit' \in {"free", "true", "false"} /\ clitLevel' \in 0..dl
      /\ \A l \in pending' : LitOK(l)
      /\ pc' \in {"propagate", "fixpoint", "conflict", "unsat"}
      /\ added' = cs /\ (clit' = clit \/ clit' = "false")
  <2>1. CASE AddClauses(cs)
    <3>1. pending' \subseteq Units(cs)
      BY <2>1 DEF AddClauses
    <3>2. \A l \in Units(cs) : LitOK(l)
      BY UnitLits
    <3>3. /\ added' = cs /\ pc' \in {"propagate", "fixpoint"}
          /\ (clit' = "false" /\ clitLevel' = dl) \/ (clit' = clit /\ clitLevel' = clitLevel)
      BY <2>1 DEF AddClauses, litVars
    <3> QED BY <1>2, <3>1, <3>2, <3>3
  <2>2. CASE ClauseFails(cs)
    BY <1>2, <2>2 DEF ClauseFails, ConflictPc, litVars
  <2> QED BY <2>1, <2>2
<1>5. HostInv'
  BY <1>1, <1>2, <1>3, <1>4 DEF HostInv
<1> QED BY <1>3, <1>4, <1>5

\* Undoing a level.
LEMMA UndoHostInv ==
    ASSUME HostInv, HostUndo, UNCHANGED start
    PROVE  /\ HostInv' /\ dl' = dl - 1 /\ dl > 0 /\ flushed' = Top' /\ Top' = Previous
           /\ inactive' = IF inactive = dl + 1 THEN 0 ELSE inactive
           /\ \A l \in 1..dl : trail'[l] = trail[l]
<1>1. /\ TrailOK(trail) /\ dl \in Nat /\ Len(trail) = dl + 1 /\ Len(trail) \in Nat
      /\ inactive \in 0..(dl + 1) /\ clitLevel \in 0..dl
      /\ clit \in {"free", "true", "false"} /\ start \in Starts
      /\ dl > 0 => Previous \in Bounds /\ Previous = trail[dl]
  BY TopFacts DEF HostInv
<1>2. /\ dl > 0 /\ trail' = SubSeq(trail, 1, Len(trail) - 1) /\ flushed' = Previous
      /\ inactive' = (IF inactive = dl + 1 THEN 0 ELSE inactive)
      /\ todo' = FALSE /\ pending' = {} /\ pc' = "propagate"
      /\ IF clitLevel = dl THEN clit' = "free" /\ clitLevel' = 0
                           ELSE clit' = clit /\ clitLevel' = clitLevel
  BY DEF HostUndo, InactiveAfterUndo, litVars
<1>3. /\ TrailOK(trail') /\ Len(trail') = Len(trail) - 1
      /\ \A l \in 1..(Len(trail) - 1) : trail'[l] = trail[l]
  BY <1>1, <1>2, TrailPop
<1>4. dl' = dl - 1 /\ Top' = Previous
  <2>1. Len(trail') = dl /\ dl \in 1..(Len(trail) - 1)
    BY <1>1, <1>2, <1>3
  <2>2. trail'[dl] = trail[dl]
    BY <1>3, <2>1
  <2>3. Top' = trail'[dl] /\ dl' = dl - 1
    BY <2>1 DEF Top, dl
  <2> QED BY <1>1, <1>2, <2>2, <2>3
<1>5. dl' > 0 => Tighter(flushed', Previous')
  <2>1. dl' > 0 => Previous' = trail'[dl' + 1 - 1] /\ dl \in 1..(Len(trail) - 1) /\ dl - 1 \in 1..(Len(trail) - 1)
    BY <1>1, <1>3, <1>4 DEF Previous, dl
  <2>2. dl' > 0 => Previous' = trail[dl - 1] /\ flushed' = trail[(dl - 1) + 1]
    BY <1>1, <1>2, <1>3, <1>4, <2>1
  <2>3. dl' > 0 => Tighter(trail[(dl - 1) + 1], trail[dl - 1])
    BY <1>1, <2>1 DEF TrailOK
  <2> QED BY <2>2, <2>3
<1>6. FlushOK'
  BY <1>1, <1>2, <1>4, <1>5, TighterOrder DEF FlushOK
<1>7. inactive' \in 0..(dl' + 1)
  BY <1>1, <1>2, <1>4
<1>8. /\ clit' \in {"free", "true", "false"} /\ clitLevel' \in 0..dl' /\ start' \in Starts
  BY <1>1, <1>2, <1>4
<1>9. HostInv'
  BY <1>1, <1>2, <1>3, <1>6, <1>7, <1>8 DEF HostInv
<1> QED BY <1>1, <1>2, <1>3, <1>4, <1>9

-----------------------------------------------------------------------------
(* Constraints that mark themselves inactive only if their literal is      *)
(* false.                                                                  *)

\* The mark goes not later than the literal.
MarkOK == inactive > 0 => clit = "false" /\ clitLevel < inactive

\* What clasp and checks do keeps it.
LEMMA MarkKept ==
    ASSUME HostInv, MarkOK,
           \/ Decide \/ UnitPropagate \/ Deliver \/ CheckIdle \/ CheckFalse
           \/ HostUndo
           \/ CheckPropagate /\ UNCHANGED inactive
    PROVE  MarkOK'
<1>1. /\ inactive \in Nat /\ clitLevel \in 0..dl /\ inactive \in 0..(dl + 1) /\ dl \in Nat
  BY TopFacts DEF HostInv
<1>2. CASE inactive' = inactive /\ UNCHANGED litVars
  BY <1>2 DEF MarkOK, litVars
<1>3. CASE inactive' = inactive /\ clit # "false"
  BY <1>3 DEF MarkOK
<1>4. CASE Decide \/ UnitPropagate \/ Deliver
  <2>1. inactive' = inactive /\ (clit = "false" => UNCHANGED litVars)
    BY <1>4 DEF Decide, UnitPropagate, Deliver, AssignClit
  <2> QED BY <1>2, <1>3, <2>1
<1>5. CASE CheckIdle
  BY <1>2, <1>5 DEF CheckIdle
<1>6. CASE CheckFalse
  BY <1>1, <1>6 DEF CheckFalse, MarkInactive, MarkOK, litVars
<1>7. CASE HostUndo
  <2>1. /\ inactive' = (IF inactive = dl + 1 THEN 0 ELSE inactive) /\ dl > 0
        /\ clitLevel # dl => clit' = clit /\ clitLevel' = clitLevel
    BY <1>7 DEF HostUndo, InactiveAfterUndo, litVars
  <2> QED BY <1>1, <2>1 DEF MarkOK
<1>8. CASE CheckPropagate /\ UNCHANGED inactive
  BY <1>3, <1>8 DEF CheckPropagate
<1> QED BY <1>4, <1>5, <1>6, <1>7, <1>8

-----------------------------------------------------------------------------
(* The bounds of elements.                                                 *)

\* The summands of the bounds of an element.
LowerPart(e, b) == [v \in Vars |-> Coef[e][v] * (IF Coef[e][v] > 0 THEN b.lo[v] ELSE b.up[v])]
UpperPart(e, b) == [v \in Vars |-> Coef[e][v] * (IF Coef[e][v] > 0 THEN b.up[v] ELSE b.lo[v])]

\* The bounds of an element are integers.
LEMMA ElemBoundsType ==
    ASSUME DistinctElements, NEW e \in Elems, NEW b \in Bounds
    PROVE  /\ NumVars \in Nat /\ Vars = 1..NumVars
           /\ Coef[e] \in [Vars -> Int] /\ Fixed[e] \in Int
           /\ LowerPart(e, b) \in [1..NumVars -> Int] /\ UpperPart(e, b) \in [1..NumVars -> Int]
           /\ ElemBounds(e, b) = [lo |-> Fixed[e] + Sum(NumVars, LowerPart(e, b)),
                                  up |-> Fixed[e] + Sum(NumVars, UpperPart(e, b))]
           /\ ElemBounds(e, b) \in [lo : Int, up : Int]
<1>1. /\ NumVars \in Nat /\ Vars = 1..NumVars
      /\ Coef[e] \in [Vars -> Int] /\ Fixed[e] \in Int
  BY DEF DistinctElements, Vars
<1>2. \A v \in Vars : Coef[e][v] \in Int /\ b.lo[v] \in Int /\ b.up[v] \in Int
  BY <1>1 DEF Bounds
<1>3. \A v \in Vars : /\ Coef[e][v] * (IF Coef[e][v] > 0 THEN b.lo[v] ELSE b.up[v]) \in Int
                      /\ Coef[e][v] * (IF Coef[e][v] > 0 THEN b.up[v] ELSE b.lo[v]) \in Int
  BY <1>2, Product
<1>4. LowerPart(e, b) \in [1..NumVars -> Int] /\ UpperPart(e, b) \in [1..NumVars -> Int]
  BY <1>1, <1>3 DEF LowerPart, UpperPart
<1>5. ElemBounds(e, b) = [lo |-> Fixed[e] + Sum(NumVars, LowerPart(e, b)),
                          up |-> Fixed[e] + Sum(NumVars, UpperPart(e, b))]
  BY DEF ElemBounds, LowerPart, UpperPart
<1>6. Sum(NumVars, LowerPart(e, b)) \in Int /\ Sum(NumVars, UpperPart(e, b)) \in Int
  BY <1>1, <1>4, SumType
<1>7. ElemBounds(e, b) \in [lo : Int, up : Int]
  BY <1>1, <1>5, <1>6
<1> QED BY <1>1, <1>4, <1>5, <1>7

\* They depend on the bounds of its variables only.
LEMMA ElemBoundsSame ==
    ASSUME DistinctElements, NEW e \in Elems, NEW b \in Bounds, NEW c \in Bounds,
           e \notin ElemsWith(LowerDiff(b, c) \union UpperDiff(b, c))
    PROVE  ElemBounds(e, b) = ElemBounds(e, c)
<1>1. ASSUME NEW v \in Vars
      PROVE  LowerPart(e, b)[v] = LowerPart(e, c)[v] /\ UpperPart(e, b)[v] = UpperPart(e, c)[v]
  <2>1. Coef[e][v] \in Int /\ b.lo[v] \in Int /\ b.up[v] \in Int /\ c.lo[v] \in Int /\ c.up[v] \in Int
    BY DEF DistinctElements, Bounds
  <2>2. CASE Coef[e][v] = 0
    <3>1. \A x \in Int : Coef[e][v] * x = 0
      BY <2>2, Product
    <3> QED BY <2>1, <3>1 DEF LowerPart, UpperPart
  <2>3. CASE Coef[e][v] # 0
    <3>1. v \in VarsOf(e)
      BY <2>3 DEF VarsOf
    <3>2. v \notin LowerDiff(b, c) \union UpperDiff(b, c)
      BY <3>1 DEF ElemsWith
    <3>3. b.lo[v] = c.lo[v] /\ b.up[v] = c.up[v]
      BY <3>2 DEF LowerDiff, UpperDiff
    <3> QED BY <3>3 DEF LowerPart, UpperPart
  <2> QED BY <2>2, <2>3
<1>2. LowerPart(e, b) = LowerPart(e, c) /\ UpperPart(e, b) = UpperPart(e, c)
  BY <1>1 DEF LowerPart, UpperPart
<1> QED BY <1>2, ElemBoundsType

-----------------------------------------------------------------------------
(* The cached bounds and the lists of elements.                            *)

ElemTypes ==
    /\ assigned \in [Elems -> [lo : Int, up : Int]]
    /\ dirty \subseteq Elems /\ todoLower \subseteq Elems /\ todoUpper \subseteq Elems

\* The bounds the constraint was told last: where it is inactive those of the
\* level of its mark, the others were kept from it.
Reference == IF Removable THEN trail[inactive] ELSE flushed

\* The cached bounds of elements that are not dirty are those of these bounds.
CacheOK == \A e \in Elems \ dirty : assigned[e] = ElemBounds(e, Reference)

\* Elements stay in the lists only if a check was cut short or the literal
\* is false, and then some bound of theirs changed on the level whose undo
\* clears the lists.
Listed == todoLower \union todoUpper
ClearedWith == IF inactive > 0 THEN inactive ELSE Len(trail)
Below == trail[ClearedWith - 1]
ChangedVars(b, c) == LowerDiff(b, c) \union UpperDiff(b, c)
ListsOK ==
    /\ Listed # {} => inactive > 0 \/ pc \in {"conflict", "unsat"}
    /\ ClearedWith > 1 => \A e \in Listed : e \in ElemsWith(ChangedVars(Reference, Below))

DistinctInv == HostInv /\ MarkOK /\ ElemTypes /\ CacheOK /\ ListsOK

\* The reference is a level's bounds, or what was flushed last.
LEMMA ReferenceFacts ==
    ASSUME HostInv
    PROVE  /\ Reference \in Bounds
           /\ Removable => inactive \in 1..dl /\ Reference = trail[inactive]
           /\ ~Removable => /\ Reference = flushed
                            /\ inactive = 0 \/ inactive = Len(trail)
                            /\ ClearedWith = Len(trail)
           /\ ClearedWith \in 1..Len(trail)
           /\ ClearedWith > 1 => Below \in Bounds
           /\ (~Removable /\ dl > 0) => Below = Previous
<1>1. /\ Len(trail) \in Nat /\ Len(trail) > 0 /\ dl = Len(trail) - 1 /\ flushed \in Bounds
      /\ \A l \in 1..Len(trail) : trail[l] \in Bounds
      /\ inactive \in Nat
      /\ dl > 0 => Previous = trail[dl]
  BY TopFacts
<1>2. inactive \in 0..(dl + 1)
  BY DEF HostInv
<1>3. Removable => inactive \in 1..dl /\ Reference = trail[inactive]
  BY <1>1, <1>2 DEF Removable, Reference
<1>4. ~Removable => /\ Reference = flushed
                    /\ inactive = 0 \/ inactive = Len(trail)
                    /\ ClearedWith = Len(trail)
  BY <1>1, <1>2 DEF Removable, Reference, ClearedWith
<1>5. ClearedWith \in 1..Len(trail)
  BY <1>1, <1>2 DEF ClearedWith
<1>6. Reference \in Bounds
  BY <1>1, <1>3, <1>4
<1>7. ClearedWith > 1 => Below \in Bounds
  BY <1>1, <1>5 DEF Below
<1>8. (~Removable /\ dl > 0) => Below = Previous
  BY <1>1, <1>4 DEF Below
<1> QED BY <1>3, <1>4, <1>5, <1>6, <1>7, <1>8

\* Elements with a changed variable.
LEMMA ListedElems ==
    ASSUME NEW vs \in SUBSET Vars, NEW ws \in SUBSET Vars, vs \subseteq ws, DistinctElements
    PROVE  /\ ListedLower(vs) \subseteq ElemsWith(ws) /\ ListedUpper(vs) \subseteq ElemsWith(ws)
           /\ ElemsWith(vs) \subseteq ElemsWith(ws) /\ ElemsWith(ws) \subseteq Elems
           /\ vs = {} => ListedLower(vs) = {} /\ ListedUpper(vs) = {} /\ ElemsWith(vs) = {}
<1>1. \A e \in Elems, v \in Vars : Coef[e][v] > 0 \/ Coef[e][v] < 0 => v \in VarsOf(e)
  BY DEF DistinctElements, VarsOf
<1> QED BY <1>1 DEF ListedLower, ListedUpper, ElemsWith

\* The variables told are those with a changed bound, none if removable.
LEMMA ToldFacts ==
    /\ ~Removable => Told = ChangedVars(Top, flushed)
    /\ Removable => Told = {}
    /\ Told \in SUBSET Vars
BY DEF Told, ToldLower, ToldUpper, ChangedVars, LowerDiff, UpperDiff

\* The invariant holds when the constraint is attached.
LEMMA DistinctInitInv ==
    ASSUME HostStarts, DistinctElements, DistinctInit
    PROVE  DistinctInv
<1>1. HostInv
  BY HostInitInv DEF DistinctInit
<1>2. /\ inactive = 0 /\ flushed = [lo |-> start.lo, up |-> start.up]
      /\ assigned = [e \in Elems |-> ElemBounds(e, start)]
      /\ dirty = {} /\ todoLower = {} /\ todoUpper = {} /\ flushed \in Bounds
  BY <1>1 DEF DistinctInit, HostInit, HostInv
<1>3. Reference = flushed
  BY <1>2 DEF Reference, Removable
<1>4. \A e \in Elems : ElemBounds(e, start) = ElemBounds(e, flushed)
  BY <1>2 DEF ElemBounds
<1>5. CacheOK
  BY <1>2, <1>3, <1>4 DEF CacheOK
<1>6. ElemTypes
  BY <1>2, <1>4, ElemBoundsType DEF ElemTypes
<1>7. ListsOK /\ MarkOK
  BY <1>2 DEF ListsOK, Listed, MarkOK
<1> QED BY <1>1, <1>5, <1>6, <1>7 DEF DistinctInv

\* What clasp does between checks leaves the constraint alone.
LEMMA DistinctClaspInv ==
    ASSUME DistinctInv, Decide \/ UnitPropagate \/ Deliver, UNCHANGED <<start, elemVars>>
    PROVE  DistinctInv'
<1>1. HostInv /\ MarkOK /\ ElemTypes /\ CacheOK /\ ListsOK
  BY DEF DistinctInv
<1>2. /\ flushed' = flushed /\ inactive' = inactive
      /\ assigned' = assigned /\ dirty' = dirty /\ todoLower' = todoLower /\ todoUpper' = todoUpper
  BY DEF Decide, UnitPropagate, Deliver, elemVars
<1>3. /\ Len(trail) \in Nat /\ Len(trail) > 0 /\ dl = Len(trail) - 1 /\ inactive \in Nat
      /\ inactive \in 0..(dl + 1)
  BY <1>1, TopFacts DEF HostInv
<1>4. /\ HostInv'
      /\ \A l \in 1..dl : trail'[l] = trail[l]
      /\ Reference' = Reference
  <2>1. CASE Decide
    <3>1. HostInv'
      BY <1>1, <2>1, DecideHostInv
    <3>2. PICK b : Pushed(b)
      BY <1>1, <2>1, DecidePushes
    <3>3. dl' = dl + 1 /\ \A l \in 1..Len(trail) : trail'[l] = trail[l]
      BY <1>1, <3>2, PushedTrail
    <3>4. flushed = Top
      BY <1>1, <2>1 DEF HostInv, FlushOK, Decide
    <3>5. Reference' = Reference
      <4>1. CASE inactive = dl + 1
        <5>1. Reference' = trail'[inactive] /\ Reference = flushed
          BY <1>2, <1>3, <3>3, <4>1 DEF Reference, Removable
        <5> QED BY <1>3, <3>3, <3>4, <4>1, <5>1 DEF Top
      <4>2. CASE inactive # dl + 1
        BY <1>2, <1>3, <3>3, <4>2 DEF Reference, Removable
      <4> QED BY <4>1, <4>2
    <3> QED BY <1>3, <3>1, <3>3, <3>5
  <2>2. CASE UnitPropagate \/ Deliver
    <3>1. HostInv' /\ dl' = dl /\ \A l \in 1..dl : trail'[l] = trail[l]
      BY <1>1, <2>2, UnitHostInv
    <3>2. Reference' = Reference
      BY <1>2, <1>3, <3>1 DEF Reference, Removable
    <3> QED BY <3>1, <3>2
  <2> QED BY <2>1, <2>2
<1>5. CacheOK' /\ ElemTypes'
  BY <1>1, <1>2, <1>4 DEF CacheOK, ElemTypes
<1>6. ListsOK'
  <2>1. CASE Listed = {}
    BY <1>2, <2>1 DEF ListsOK, Listed
  <2>2. CASE Listed # {}
    <3>1. pc \in {"propagate", "fixpoint"}
      BY DEF Decide, UnitPropagate, Deliver
    <3>2. inactive > 0
      BY <1>1, <2>2, <3>1 DEF ListsOK
    <3>3. ClearedWith = inactive /\ ClearedWith' = inactive
      BY <1>2, <3>2 DEF ClearedWith
    <3>4. inactive > 1 => Below' = Below
      <4>1. inactive > 1 => inactive - 1 \in 1..dl
        BY <1>3
      <4> QED BY <1>4, <3>3, <4>1 DEF Below
    <3>5. inactive > 1 => \A e \in Listed : e \in ElemsWith(ChangedVars(Reference, Below))
      BY <1>1, <3>3 DEF ListsOK
    <3>6. inactive > 1 => ElemsWith(ChangedVars(Reference, Below))' = ElemsWith(ChangedVars(Reference, Below))
      BY <1>4, <3>4 DEF ElemsWith, ChangedVars, LowerDiff, UpperDiff
    <3> QED BY <1>2, <3>2, <3>3, <3>5, <3>6 DEF ListsOK, Listed
  <2> QED BY <2>1, <2>2
<1>7. MarkOK'
  BY <1>1, MarkKept
<1> QED BY <1>4, <1>5, <1>6, <1>7 DEF DistinctInv

\* After the changes were told, elements that are not dirty have the current
\* bounds.
LEMMA ToldCache ==
    ASSUME HostInv, CacheOK, DistinctElements, ~Removable
    PROVE  \A e \in Elems \ DirtyNow : assigned[e] = ElemBounds(e, Top)
<1>1. Top \in Bounds /\ flushed \in Bounds
  BY TopFacts
<1>2. Reference = flushed /\ Told = ChangedVars(Top, flushed)
  BY ReferenceFacts, ToldFacts
<1>3. ASSUME NEW e \in Elems \ DirtyNow
      PROVE  assigned[e] = ElemBounds(e, Top)
  <2>1. e \notin dirty /\ e \notin ElemsWith(Told)
    BY <1>3 DEF DirtyNow
  <2>2. assigned[e] = ElemBounds(e, flushed)
    BY <1>2, <2>1 DEF CacheOK
  <2>3. e \notin ElemsWith(LowerDiff(Top, flushed) \union UpperDiff(Top, flushed))
    BY <1>2, <2>1 DEF ChangedVars
  <2> QED BY <1>1, <2>2, <2>3, ElemBoundsSame
<1> QED BY <1>3

\* The elements in the lists have a variable that changed on this level.
LEMMA ToldLists ==
    ASSUME HostInv, ListsOK, DistinctElements, ~Removable, dl > 0
    PROVE  \A e \in TodoLowerNow \union TodoUpperNow : e \in ElemsWith(ChangedVars(Top, Previous))
<1>1. /\ Top \in Bounds /\ flushed \in Bounds /\ Previous \in Bounds
      /\ Tighter(Top, flushed) /\ Tighter(flushed, Previous)
      /\ Len(trail) = dl + 1 /\ dl \in Nat
  BY TopFacts DEF HostInv, FlushOK
<1>2. /\ Reference = flushed /\ Told = ChangedVars(Top, flushed) /\ Told \in SUBSET Vars
      /\ Below = Previous /\ ClearedWith > 1
  BY <1>1, ReferenceFacts, ToldFacts
<1>3. /\ ChangedVars(Top, flushed) \subseteq ChangedVars(Top, Previous)
      /\ ChangedVars(flushed, Previous) \subseteq ChangedVars(Top, Previous)
  BY <1>1, DiffGrows DEF ChangedVars
<1>4. ChangedVars(Top, Previous) \in SUBSET Vars /\ ChangedVars(flushed, Previous) \in SUBSET Vars
  BY DEF ChangedVars, LowerDiff, UpperDiff
<1>5. /\ ListedLower(Told) \subseteq ElemsWith(ChangedVars(Top, Previous))
      /\ ListedUpper(Told) \subseteq ElemsWith(ChangedVars(Top, Previous))
  BY <1>2, <1>3, <1>4, ListedElems
<1>6. \A e \in Listed : e \in ElemsWith(ChangedVars(flushed, Previous))
  BY <1>2 DEF ListsOK
<1>7. ElemsWith(ChangedVars(flushed, Previous)) \subseteq ElemsWith(ChangedVars(Top, Previous))
  BY <1>3, <1>4, ListedElems
<1> QED BY <1>5, <1>6, <1>7 DEF TodoLowerNow, TodoUpperNow, Listed

\* The changes told put elements into the sets.
LEMMA UpdateTypes ==
    ASSUME ElemTypes, DistinctElements
    PROVE  DirtyNow \subseteq Elems /\ TodoLowerNow \subseteq Elems /\ TodoUpperNow \subseteq Elems
<1>1. Told \in SUBSET Vars
  BY ToldFacts
<1>2. /\ ElemsWith(Told) \subseteq Elems /\ ListedLower(Told) \subseteq Elems
      /\ ListedUpper(Told) \subseteq Elems
  BY DEF ElemsWith, ListedLower, ListedUpper
<1> QED BY <1>2 DEF ElemTypes, DirtyNow, TodoLowerNow, TodoUpperNow

\* A check that does not propagate.
LEMMA DistinctIdleInv ==
    ASSUME DistinctInv, DistinctElements, CheckIdle \/ CheckFalse, UpdateElems, UNCHANGED start
    PROVE  DistinctInv'
<1>1. HostInv /\ MarkOK /\ ElemTypes /\ CacheOK /\ ListsOK
  BY DEF DistinctInv
<1>2. HostInv' /\ (inactive' = inactive \/ (inactive = 0 /\ inactive' = dl + 1))
  BY <1>1, IdleHostInv
<1>3. /\ flushed' = Top /\ trail' = trail /\ pc = "propagate" /\ pc' = "fixpoint"
      /\ dirty' = DirtyNow /\ todoLower' = TodoLowerNow /\ todoUpper' = TodoUpperNow
      /\ assigned' = assigned
  BY DEF CheckIdle, CheckFalse, CheckStart, FlushBounds, UpdateElems
<1>4. /\ Len(trail) \in Nat /\ Len(trail) > 0 /\ dl = Len(trail) - 1 /\ inactive \in Nat
      /\ inactive \in 0..(dl + 1) /\ dl' = dl
      /\ Top \in Bounds /\ flushed \in Bounds /\ (dl > 0 => Previous \in Bounds)
      /\ dl > 0 => Previous = trail[dl]
  BY <1>1, <1>3, TopFacts DEF HostInv, dl
<1>5. ElemTypes'
  BY <1>1, <1>3, UpdateTypes DEF ElemTypes
<1>5a. MarkOK'
  BY <1>1, MarkKept
<1>6. CASE Removable
  <2>1. inactive > 0 /\ inactive <= dl /\ inactive' = inactive
    BY <1>2, <1>4, <1>6 DEF Removable
  <2>2. Told = {}
    BY <1>6, ToldFacts
  <2>3. ElemsWith(Told) = {} /\ ListedLower(Told) = {} /\ ListedUpper(Told) = {}
    BY <2>2, ListedElems
  <2>4. dirty' = dirty /\ todoLower' = todoLower /\ todoUpper' = todoUpper
    BY <1>3, <2>3 DEF DirtyNow, TodoLowerNow, TodoUpperNow
  <2>5. Reference' = Reference
    BY <1>3, <1>4, <2>1 DEF Reference, Removable
  <2>6. CacheOK'
    BY <1>1, <1>3, <2>4, <2>5 DEF CacheOK
  <2>7. ClearedWith' = ClearedWith /\ Below' = Below
    BY <1>3, <2>1 DEF ClearedWith, Below
  <2>8. ElemsWith(ChangedVars(Reference, Below))' = ElemsWith(ChangedVars(Reference, Below))
    BY <2>5, <2>7 DEF ElemsWith, ChangedVars, LowerDiff, UpperDiff
  <2>9. ListsOK'
    BY <1>1, <2>1, <2>4, <2>7, <2>8 DEF ListsOK, Listed
  <2> QED BY <1>2, <1>5, <1>5a, <2>6, <2>9 DEF DistinctInv
<1>7. CASE ~Removable
  <2>1. inactive = 0 \/ inactive = dl + 1
    BY <1>4, <1>7 DEF Removable
  <2>2. ~Removable' /\ Reference' = Top
    BY <1>2, <1>3, <1>4, <2>1 DEF Removable, Reference
  <2>3. CacheOK'
    BY <1>1, <1>3, <1>7, <2>2, ToldCache DEF CacheOK
  <2>4. Listed' # {} => inactive' > 0
    <3>1. CASE CheckFalse
      BY <1>4, <3>1 DEF CheckFalse, MarkInactive
    <3>2. CASE CheckIdle /\ inactive = 0
      <4>1. Listed = {}
        BY <1>1, <1>3, <3>2 DEF ListsOK
      <4>2. Told = {}
        BY <3>2 DEF CheckIdle, Enqueued, Told
      <4>3. ListedLower(Told) = {} /\ ListedUpper(Told) = {}
        BY <4>2, ListedElems
      <4> QED BY <1>3, <4>1, <4>3 DEF Listed, TodoLowerNow, TodoUpperNow
    <3>3. CASE CheckIdle /\ inactive # 0
      BY <1>4, <3>3 DEF CheckIdle
    <3> QED BY <3>1, <3>2, <3>3
  <2>5. ClearedWith' = dl + 1
    BY <1>2, <1>3, <1>4, <2>1 DEF ClearedWith
  <2>6. ASSUME dl > 0, NEW e \in Listed'
        PROVE  e \in ElemsWith(ChangedVars(Reference, Below))'
    <3>1. e \in ElemsWith(ChangedVars(Top, Previous))
      BY <1>1, <1>3, <1>7, <2>6, ToldLists DEF Listed
    <3>2. Below' = Previous
      BY <1>3, <1>4, <2>5, <2>6 DEF Below
    <3> QED BY <2>2, <3>1, <3>2 DEF ElemsWith, ChangedVars, LowerDiff, UpperDiff
  <2>7. ListsOK'
    BY <1>4, <2>4, <2>5, <2>6 DEF ListsOK
  <2> QED BY <1>2, <1>5, <1>5a, <2>3, <2>7 DEF DistinctInv
<1> QED BY <1>6, <1>7

\* Recalculating the dirty elements makes all bounds current.
LEMMA RecalculatedExact ==
    ASSUME DistinctInv, DistinctElements, CheckPropagate
    PROVE  /\ inactive = 0 /\ ~Removable /\ Listed = {}
           /\ Recalculated = [e \in Elems |-> ElemBounds(e, Top)]
<1>1. HostInv /\ MarkOK /\ ElemTypes /\ CacheOK /\ ListsOK
  BY DEF DistinctInv
<1>2. inactive = 0 /\ ~Removable
  BY <1>1, TopFacts DEF HostInv, MarkOK, CheckPropagate, Removable
<1>3. Listed = {}
  BY <1>1, <1>2 DEF ListsOK, CheckPropagate, CheckStart
<1>4. \A e \in Elems \ DirtyNow : assigned[e] = ElemBounds(e, Top)
  BY <1>1, <1>2, ToldCache
<1>5. Recalculated = [e \in Elems |-> ElemBounds(e, Top)]
  BY <1>4 DEF Recalculated
<1> QED BY <1>2, <1>3, <1>5

\* The clauses consist of literals over the variables.
LEMMA SeparateLits ==
    ASSUME DistinctElements, Top \in Bounds, NEW s \in Int, NEW i \in Elems, NEW j \in Elems
    PROVE  \A l \in Separate(s, i, j).lits : LitOK(l)
<1>1. \A v \in Vars : Top.lo[v] \in Int /\ Top.up[v] \in Int
  BY DEF Bounds
<1>2. ASSUME NEW e \in Elems, NEW v \in VarsOf(e)
      PROVE  /\ LitOK(GT(v, Top.up[v])) /\ LitOK(LE(v, Top.lo[v] - 1))
             /\ LitOK(LE(v, Top.up[v] - 1)) /\ LitOK(GT(v, Top.lo[v]))
  BY <1>1 DEF VarsOf, LitOK, GT, LE, OrderLit
<1>3. \A l \in AssignedReason(i) : LitOK(l)
  BY <1>2 DEF AssignedReason
<1>4. \A l \in AtBound(s, j) : LitOK(l)
  <2>1. ASSUME NEW l \in AtBound(s, j)
        PROVE  \E v \in VarsOf(j) : l \in LeavesBound(s, j, v)
    BY DEF AtBound
  <2> QED BY <1>2, <2>1 DEF LeavesBound
<1> QED BY <1>3, <1>4 DEF Separate, Clause

-----------------------------------------------------------------------------
(* The clauses added.                                                      *)

\* What separates elements is right: i is assigned and the bound of j
\* selected by s has the value of i.
Meets(s, i, j) ==
    /\ i # j
    /\ ElemBounds(i, Top).lo = ElemBounds(i, Top).up
    /\ s = 1 \/ s = -1
    /\ s = 1 => ElemBounds(j, Top).up = ElemBounds(i, Top).lo
    /\ s = -1 => ElemBounds(j, Top).lo = ElemBounds(i, Top).lo

\* Among elements with a property there is the first one.
LEMMA FirstElem ==
    ASSUME DistinctElements, NEW S, S \subseteq Elems, S # {}
    PROVE  (CHOOSE k \in S : \A k2 \in S : k <= k2) \in S
<1>1. S \subseteq Nat
  BY DEF DistinctElements
<1>2. \E k \in S : \A k2 \in S : k <= k2
  BY <1>1, LeastNatural
<1> QED BY <1>2

\* Every clause of a propagation separates two elements that meet.
LEMMA ClausesSeparate ==
    ASSUME DistinctElements, ElemTypes,
           NEW as, as = [e \in Elems |-> ElemBounds(e, Top)],
           NEW c \in DistinctClauses(as)
    PROVE  \E s \in {1, -1}, i \in Elems, j \in Elems : c = Separate(s, i, j) /\ Meets(s, i, j)
<1>1. TodoLowerNow \subseteq Elems /\ TodoUpperNow \subseteq Elems
  BY UpdateTypes
<1>2. \A e \in Elems : as[e] = ElemBounds(e, Top)
  OBVIOUS
<1> DEFINE Ok(d) == \E s \in {1, -1}, i \in Elems, j \in Elems : d = Separate(s, i, j) /\ Meets(s, i, j)
<1>3. ASSUME NEW i \in Elems, Fix(as, i), NEW d \in FromAssigned(as, i)
      PROVE  Ok(d)
  <2>1. CASE \E j \in Elems \ {i} : as[j].up = as[i].lo /\ d = Separate(1, i, j)
    BY <1>2, <1>3, <2>1 DEF Meets, Fix
  <2>2. CASE \E j \in Elems \ {i} : as[j].lo = as[i].lo /\ d = Separate(-1, i, j)
    BY <1>2, <1>3, <2>2 DEF Meets, Fix
  <2> QED BY <1>3, <2>1, <2>2 DEF FromAssigned
<1>4. ASSUME NEW i \in Elems, ~Fix(as, i), NEW s \in {1, -1}, NEW same \in SUBSET Elems,
             NEW d \in FromBound(as, s, i, same),
             \A j \in same : IF s = 1 THEN as[j].up = as[i].up ELSE as[j].lo = as[i].lo
      PROVE  Ok(d)
  <2> DEFINE met == {j \in same : Fix(as, j)}
             j == CHOOSE k \in met : \A k2 \in met : k <= k2
  <2>1. met # {} /\ d = Separate(s, j, i)
    BY <1>4 DEF FromBound
  <2>2. j \in met
    <3> HIDE DEF met
    <3>1. met \subseteq Elems
      BY DEF met
    <3> QED BY <2>1, <3>1, FirstElem
  <2> HIDE DEF j
  <2>3. j \in Elems /\ Fix(as, j) /\ j # i
    BY <1>4, <2>2
  <2>4. Meets(s, j, i)
    BY <1>2, <1>4, <2>2, <2>3 DEF Meets, Fix
  <2> QED BY <2>1, <2>3, <2>4
<1>5. ASSUME NEW i \in TodoLowerNow, c \in LowerClauses(as, i)
      PROVE  Ok(c)
  <2> HIDE DEF Ok
  <2>1. i \in Elems /\ \A j \in {k \in Elems : as[k].lo = as[i].lo} : IF -1 = 1 THEN as[j].up = as[i].up ELSE as[j].lo = as[i].lo
    BY <1>1, <1>5
  <2> QED BY <1>3, <1>4, <1>5, <2>1 DEF LowerClauses
<1>6. ASSUME NEW i \in TodoUpperNow, c \in UpperClauses(as, i)
      PROVE  Ok(c)
  <2> HIDE DEF Ok
  <2>1. i \in Elems /\ \A j \in {k \in Elems : as[k].up = as[i].up} : IF 1 = 1 THEN as[j].up = as[i].up ELSE as[j].lo = as[i].lo
    BY <1>1, <1>6
  <2> QED BY <1>3, <1>4, <1>6, <2>1 DEF UpperClauses
<1>7. \/ \E i \in TodoLowerNow : c \in LowerClauses(as, i)
      \/ \E i \in TodoUpperNow : c \in UpperClauses(as, i)
  BY DEF DistinctClauses
<1>8. Ok(c)
  <2> HIDE DEF Ok
  <2> QED BY <1>5, <1>6, <1>7
<1> QED BY <1>8

\* Its literals are over the variables.
LEMMA DistinctClauseLits ==
    ASSUME DistinctElements, ElemTypes, Top \in Bounds,
           NEW as, as = [e \in Elems |-> ElemBounds(e, Top)]
    PROVE  \A c \in DistinctClauses(as) : \A l \in c.lits : LitOK(l)
<1>1. ASSUME NEW c \in DistinctClauses(as)
      PROVE  \A l \in c.lits : LitOK(l)
  <2>1. PICK s \in {1, -1}, i \in Elems, j \in Elems : c = Separate(s, i, j)
    BY ClausesSeparate
  <2>2. s \in Int
    OBVIOUS
  <2> QED BY <2>1, <2>2, SeparateLits
<1> QED BY <1>1

\* A propagation.
LEMMA PropagateDistinctInv ==
    ASSUME DistinctInv, DistinctElements, PropagateDistinct, UNCHANGED start
    PROVE  DistinctInv'
<1>1. HostInv /\ MarkOK /\ ElemTypes /\ CacheOK /\ ListsOK
  BY DEF DistinctInv
<1>2. CheckPropagate /\ FlushBounds /\ UNCHANGED <<trail, inactive>> /\ assigned' = Recalculated /\ dirty' = {}
  BY DEF PropagateDistinct
<1>3. /\ inactive = 0 /\ ~Removable /\ Listed = {}
      /\ Recalculated = [e \in Elems |-> ElemBounds(e, Top)]
  BY <1>2, RecalculatedExact
<1> DEFINE cs == DistinctClauses(Recalculated)
<1>4. \/ AddClauses(cs) /\ todoLower' = {} /\ todoUpper' = {}
      \/ ClauseFails(cs) /\ todoLower' = TodoLowerNow /\ todoUpper' = TodoUpperNow
  BY DEF PropagateDistinct
<1>5. Top \in Bounds /\ (dl > 0 => Previous \in Bounds) /\ Len(trail) \in Nat /\ dl = Len(trail) - 1 /\ dl \in Nat
  BY <1>1, TopFacts
<1>6. \A c \in cs : \A l \in c.lits : LitOK(l)
  BY <1>1, <1>3, <1>5, DistinctClauseLits
<1> HIDE DEF cs
<1>7. HostInv'
  BY <1>1, <1>2, <1>4, <1>6, ClausesHostInv
<1>8. Reference' = Top
  BY <1>2, <1>3, <1>5 DEF Reference, Removable, FlushBounds
<1>9. CacheOK'
  BY <1>2, <1>3, <1>8 DEF CacheOK
<1>10. ElemTypes'
  <2>1. \A e \in Elems : ElemBounds(e, Top) \in [lo : Int, up : Int]
    BY <1>5, ElemBoundsType
  <2> QED BY <1>1, <1>2, <1>3, <1>4, <2>1, UpdateTypes DEF ElemTypes
<1>11. ListsOK'
  <2>1. CASE AddClauses(cs) /\ todoLower' = {} /\ todoUpper' = {}
    BY <2>1 DEF ListsOK, Listed
  <2>2. CASE ClauseFails(cs) /\ todoLower' = TodoLowerNow /\ todoUpper' = TodoUpperNow
    <3>1. pc' \in {"conflict", "unsat"}
      BY <2>2 DEF ClauseFails, ConflictPc
    <3>2. ClearedWith' = dl + 1 /\ (dl > 0 => Below' = Previous)
      BY <1>2, <1>3, <1>5 DEF ClearedWith, Below, Previous
    <3>3. dl > 0 => \A e \in Listed' : e \in ElemsWith(ChangedVars(Top, Previous))
      BY <1>1, <1>3, <2>2, ToldLists DEF Listed
    <3>4. dl > 0 => ElemsWith(ChangedVars(Reference, Below))' = ElemsWith(ChangedVars(Top, Previous))
      BY <1>8, <3>2 DEF ElemsWith, ChangedVars, LowerDiff, UpperDiff
    <3> QED BY <1>5, <3>1, <3>2, <3>3, <3>4 DEF ListsOK
  <2> QED BY <1>4, <2>1, <2>2
<1>12. MarkOK'
  BY <1>1, MarkKept DEF PropagateDistinct
<1> QED BY <1>7, <1>9, <1>10, <1>11, <1>12 DEF DistinctInv

\* Going back one level.
LEMMA UndoDistinctInv ==
    ASSUME DistinctInv, DistinctElements, UndoDistinct, UNCHANGED start
    PROVE  DistinctInv'
<1>1. HostInv /\ MarkOK /\ ElemTypes /\ CacheOK /\ ListsOK
  BY DEF DistinctInv
<1>2. /\ HostInv' /\ dl' = dl - 1 /\ dl > 0 /\ flushed' = Top' /\ Top' = Previous
      /\ inactive' = IF inactive = dl + 1 THEN 0 ELSE inactive
      /\ \A l \in 1..dl : trail'[l] = trail[l]
  BY <1>1, UndoHostInv DEF UndoDistinct
<1>3. /\ dirty' = dirty \union ElemsWith(TakenBack) /\ assigned' = assigned
      /\ todoLower' = AfterUndo(todoLower) /\ todoUpper' = AfterUndo(todoUpper)
  BY DEF UndoDistinct, MarkTakenBack
<1>4. /\ Len(trail) \in Nat /\ Len(trail) > 0 /\ dl = Len(trail) - 1 /\ dl \in Nat /\ inactive \in Nat
      /\ Previous \in Bounds /\ Previous = trail[dl] /\ flushed \in Bounds
  BY <1>1, <1>2, TopFacts
<1>5. ElemTypes'
  BY <1>1, <1>3 DEF ElemTypes, AfterUndo, ElemsWith
<1>5a. MarkOK'
  BY <1>1, MarkKept DEF UndoDistinct
<1>6. CASE Removable
  <2>1. inactive \in 1..dl /\ Reference = trail[inactive] /\ inactive' = inactive
    BY <1>1, <1>2, <1>4, <1>6, ReferenceFacts
  <2>2. ElemsWith(TakenBack) = {}
    BY <1>6 DEF TakenBack, ElemsWith
  <2>3. dirty' = dirty /\ todoLower' = todoLower /\ todoUpper' = todoUpper
    BY <1>3, <2>2 DEF AfterUndo
  <2>4. Reference' = Reference
    <3>1. CASE inactive = dl
      BY <1>2, <1>4, <2>1, <3>1 DEF Reference, Removable
    <3>2. CASE inactive < dl
      BY <1>2, <1>4, <2>1, <3>2 DEF Reference, Removable
    <3> QED BY <1>4, <2>1, <3>1, <3>2
  <2>5. CacheOK'
    BY <1>1, <1>3, <2>3, <2>4 DEF CacheOK
  <2>6. ClearedWith = inactive /\ ClearedWith' = inactive
    BY <1>4, <2>1 DEF ClearedWith
  <2>7. inactive > 1 => Below' = Below
    <3>1. inactive > 1 => inactive - 1 \in 1..dl
      BY <1>4, <2>1
    <3> QED BY <1>2, <2>6, <3>1 DEF Below
  <2>8. inactive > 1 => ElemsWith(ChangedVars(Reference, Below))' = ElemsWith(ChangedVars(Reference, Below))
    BY <2>4, <2>7 DEF ElemsWith, ChangedVars, LowerDiff, UpperDiff
  <2>9. ListsOK'
    BY <1>1, <1>4, <2>1, <2>3, <2>6, <2>8 DEF ListsOK, Listed
  <2> QED BY <1>2, <1>5, <1>5a, <2>5, <2>9 DEF DistinctInv
<1>7. CASE ~Removable
  <2>1. /\ Reference = flushed /\ (inactive = 0 \/ inactive = Len(trail)) /\ ClearedWith = Len(trail)
        /\ Below = Previous
    BY <1>1, <1>2, <1>7, ReferenceFacts
  <2>2. inactive' = 0
    BY <1>2, <1>4, <2>1
  <2>3. ~Removable' /\ Reference' = Previous
    BY <1>2, <2>2 DEF Removable, Reference
  <2>4. TakenBack = ChangedVars(flushed, Previous)
    BY <1>7 DEF TakenBack, ChangedVars
  <2>5. ASSUME NEW e \in Elems \ dirty'
        PROVE  assigned'[e] = ElemBounds(e, Previous)
    <3>1. e \in Elems \ dirty /\ e \notin ElemsWith(LowerDiff(flushed, Previous) \union UpperDiff(flushed, Previous))
      BY <1>3, <2>4, <2>5 DEF ChangedVars
    <3>2. assigned[e] = ElemBounds(e, flushed)
      BY <1>1, <2>1, <3>1 DEF CacheOK
    <3> QED BY <1>3, <1>4, <3>1, <3>2, ElemBoundsSame
  <2>6. CacheOK'
    BY <2>3, <2>5 DEF CacheOK
  <2>7. Listed' = {}
    <3>1. CASE ElemsWith(TakenBack) # {}
      BY <1>3, <3>1 DEF AfterUndo, Listed
    <3>2. CASE ElemsWith(TakenBack) = {}
      <4>1. \A e \in Listed : e \in ElemsWith(TakenBack)
        BY <1>1, <1>2, <1>4, <2>1, <2>4 DEF ListsOK
      <4>2. Listed = {}
        BY <3>2, <4>1
      <4> QED BY <1>3, <3>2, <4>2 DEF AfterUndo, Listed
    <3> QED BY <3>1, <3>2
  <2>8. ListsOK'
    BY <2>7 DEF ListsOK
  <2> QED BY <1>2, <1>5, <1>5a, <2>6, <2>8 DEF DistinctInv
<1> QED BY <1>6, <1>7

-----------------------------------------------------------------------------
(* The theorems.                                                           *)

\* Every step keeps it.
LEMMA DistinctStepInv ==
    ASSUME DistinctElements, DistinctInv, [DistinctNext]_distinctVars
    PROVE  DistinctInv'
<1>1. CASE UNCHANGED distinctVars
  <2>1. UNCHANGED <<start, trail, flushed, clit, clitLevel, inactive, todo, pending, added, pc,
                    assigned, dirty, todoLower, todoUpper>>
    BY <1>1 DEF distinctVars, hostVars, litVars, elemVars
  <2>2. HostInv' /\ MarkOK'
    BY <2>1 DEF DistinctInv, HostInv, FlushOK, MarkOK, Top, dl, Previous
  <2>3. Reference' = Reference /\ Below' = Below /\ ClearedWith' = ClearedWith
    BY <2>1 DEF Reference, Removable, dl, Below, ClearedWith
  <2>4. CacheOK' /\ ElemTypes'
    BY <2>1, <2>3 DEF DistinctInv, CacheOK, ElemTypes
  <2>5. ElemsWith(ChangedVars(Reference, Below))' = ElemsWith(ChangedVars(Reference, Below))
    BY <2>3 DEF ElemsWith, ChangedVars, LowerDiff, UpperDiff
  <2>6. ListsOK'
    BY <2>1, <2>3, <2>5 DEF DistinctInv, ListsOK, Listed
  <2> QED BY <2>2, <2>4, <2>6 DEF DistinctInv
<1>2. CASE DistinctNext
  <2>1. DistinctStep /\ UNCHANGED start
    BY <1>2 DEF DistinctNext
  <2>2. CASE (Decide \/ UnitPropagate \/ Deliver) /\ UNCHANGED elemVars
    BY <2>1, <2>2, DistinctClaspInv
  <2>3. CASE (CheckIdle \/ CheckFalse) /\ UpdateElems
    BY <2>1, <2>3, DistinctIdleInv
  <2>4. CASE PropagateDistinct
    BY <2>1, <2>4, PropagateDistinctInv
  <2>5. CASE UndoDistinct
    BY <2>1, <2>5, UndoDistinctInv
  <2> QED BY <2>1, <2>2, <2>3, <2>4, <2>5 DEF DistinctStep
<1> QED BY <1>1, <1>2

\* The inductive invariant: bounds get tighter with the levels, what the
\* constraint was told lies between two of them, an inactive constraint has a
\* false literal, its cache is that of the level of the mark, and lists left
\* behind belong to a level whose undo clears them.
THEOREM DistinctInvariance ==
    ASSUME HostStarts, DistinctElements
    PROVE  DistinctSpec => []DistinctInv
<1>1. DistinctInit => DistinctInv
  BY DistinctInitInv
<1>2. DistinctInv /\ [DistinctNext]_distinctVars => DistinctInv'
  BY DistinctStepInv
<1> QED BY <1>1, <1>2, PTL DEF DistinctSpec

\* It contains what the run checks.
LEMMA InvCaches ==
    ASSUME DistinctInv
    PROVE  CachesConsistent
<1>1. HostInv /\ MarkOK /\ ElemTypes /\ CacheOK /\ ListsOK
  BY DEF DistinctInv
<1>2. HostTypeOK
  <2>1. trail \in Seq([lo : [Vars -> Int], up : [Vars -> Int]]) /\ trail # <<>>
    BY <1>1 DEF HostInv, TrailOK, Bounds
  <2> QED BY <1>1, <2>1 DEF HostInv, HostTypeOK, Bounds, LitOK
<1>3. DistinctTypeOK
  BY <1>1, <1>2 DEF DistinctTypeOK, ElemTypes
<1>4. CacheMatches
  <2>1. ~Removable => Reference = flushed
    BY <1>1, ReferenceFacts
  <2> QED BY <1>1, <2>1 DEF CacheMatches, CacheOK
<1>5. ListsEmptyAtFixpoint
  <2>1. inactive \in Nat
    BY <1>1, TopFacts
  <2> QED BY <1>1, <2>1 DEF ListsEmptyAtFixpoint, ListsOK, Listed
<1> QED BY <1>3, <1>4, <1>5 DEF CachesConsistent

\* What the constraint remembers of its elements is right, for any number of
\* variables, elements and levels.
THEOREM CachesAlwaysConsistent ==
    ASSUME HostStarts, DistinctElements
    PROVE  DistinctSpec => []CachesConsistent
<1>1. DistinctInv => CachesConsistent
  BY InvCaches
<1> QED BY <1>1, DistinctInvariance, PTL

-----------------------------------------------------------------------------
(* The clauses follow from the constraint.                                 *)

\* The summands of the value of an element.
ValuePart(e, a) == [v \in Vars |-> Coef[e][v] * a[v]]

\* Values of elements are integers.
LEMMA ValueType ==
    ASSUME DistinctElements, NEW e \in Elems, NEW a \in [Vars -> Int]
    PROVE  /\ ValuePart(e, a) \in [1..NumVars -> Int]
           /\ ValueOf(e, a) = Fixed[e] + Sum(NumVars, ValuePart(e, a))
           /\ ValueOf(e, a) \in Int
<1>1. NumVars \in Nat /\ Vars = 1..NumVars /\ Coef[e] \in [Vars -> Int] /\ Fixed[e] \in Int
  BY DEF DistinctElements, Vars
<1>2. \A v \in Vars : Coef[e][v] * a[v] \in Int
  BY <1>1, Product
<1>3. ValuePart(e, a) \in [1..NumVars -> Int]
  BY <1>1, <1>2 DEF ValuePart
<1>4. ValueOf(e, a) = Fixed[e] + Sum(NumVars, ValuePart(e, a))
  BY DEF ValueOf, ValuePart
<1>5. Sum(NumVars, ValuePart(e, a)) \in Int
  BY <1>1, <1>3, SumType
<1> QED BY <1>1, <1>3, <1>4, <1>5

\* The value of an element lies between its bounds.
LEMMA ValueWithin ==
    ASSUME DistinctElements, NEW e \in Elems, NEW b \in Bounds, NEW a \in [Vars -> Int],
           \A v \in VarsOf(e) : b.lo[v] <= a[v] /\ a[v] <= b.up[v]
    PROVE  ElemBounds(e, b).lo <= ValueOf(e, a) /\ ValueOf(e, a) <= ElemBounds(e, b).up
<1>1. /\ NumVars \in Nat /\ Vars = 1..NumVars /\ Coef[e] \in [Vars -> Int] /\ Fixed[e] \in Int
      /\ LowerPart(e, b) \in [1..NumVars -> Int] /\ UpperPart(e, b) \in [1..NumVars -> Int]
      /\ ElemBounds(e, b) = [lo |-> Fixed[e] + Sum(NumVars, LowerPart(e, b)),
                             up |-> Fixed[e] + Sum(NumVars, UpperPart(e, b))]
  BY ElemBoundsType
<1>2. /\ ValuePart(e, a) \in [1..NumVars -> Int]
      /\ ValueOf(e, a) = Fixed[e] + Sum(NumVars, ValuePart(e, a))
  BY ValueType
<1>3. ASSUME NEW v \in Vars
      PROVE  LowerPart(e, b)[v] <= ValuePart(e, a)[v] /\ ValuePart(e, a)[v] <= UpperPart(e, b)[v]
  <2>1. Coef[e][v] \in Int /\ b.lo[v] \in Int /\ b.up[v] \in Int /\ a[v] \in Int
    BY <1>1 DEF Bounds
  <2>2. /\ LowerPart(e, b)[v] = Coef[e][v] * (IF Coef[e][v] > 0 THEN b.lo[v] ELSE b.up[v])
        /\ UpperPart(e, b)[v] = Coef[e][v] * (IF Coef[e][v] > 0 THEN b.up[v] ELSE b.lo[v])
        /\ ValuePart(e, a)[v] = Coef[e][v] * a[v]
    BY DEF LowerPart, UpperPart, ValuePart
  <2>3. CASE Coef[e][v] = 0
    <3>1. LowerPart(e, b)[v] = 0 /\ UpperPart(e, b)[v] = 0 /\ ValuePart(e, a)[v] = 0
      <4>1. Coef[e][v] * a[v] = 0 /\ Coef[e][v] * b.lo[v] = 0 /\ Coef[e][v] * b.up[v] = 0
        BY <2>1, <2>3, Product
      <4> QED BY <2>2, <2>3, <4>1
    <3> QED BY <3>1
  <2>4. CASE Coef[e][v] # 0
    <3>1. b.lo[v] <= a[v] /\ a[v] <= b.up[v]
      BY <2>4 DEF VarsOf
    <3>2. CASE Coef[e][v] > 0
      <4>1. /\ Coef[e][v] * b.lo[v] <= Coef[e][v] * a[v]
            /\ Coef[e][v] * a[v] <= Coef[e][v] * b.up[v]
        BY <2>1, <3>1, <3>2, Product
      <4> QED BY <2>2, <3>2, <4>1
    <3>3. CASE ~(Coef[e][v] > 0)
      <4>1. /\ Coef[e][v] * b.up[v] <= Coef[e][v] * a[v]
            /\ Coef[e][v] * a[v] <= Coef[e][v] * b.lo[v]
        BY <2>1, <3>1, <3>3, Product
      <4> QED BY <2>2, <3>3, <4>1
    <3> QED BY <3>2, <3>3
  <2> QED BY <2>3, <2>4
<1>4. /\ Sum(NumVars, LowerPart(e, b)) <= Sum(NumVars, ValuePart(e, a))
      /\ Sum(NumVars, ValuePart(e, a)) <= Sum(NumVars, UpperPart(e, b))
  BY <1>1, <1>2, <1>3, SumMonotone
<1>5. /\ Sum(NumVars, LowerPart(e, b)) \in Int /\ Sum(NumVars, ValuePart(e, a)) \in Int
      /\ Sum(NumVars, UpperPart(e, b)) \in Int
  BY <1>1, <1>2, SumType
<1> QED BY <1>1, <1>2, <1>4, <1>5

\* It is a bound if all variables have the bounds that make it.
LEMMA ValueAtBound ==
    ASSUME DistinctElements, NEW e \in Elems, NEW b \in Bounds, NEW a \in [Vars -> Int]
    PROVE  /\ (\A v \in VarsOf(e) : a[v] = IF Coef[e][v] > 0 THEN b.up[v] ELSE b.lo[v])
                => ValueOf(e, a) = ElemBounds(e, b).up
           /\ (\A v \in VarsOf(e) : a[v] = IF Coef[e][v] > 0 THEN b.lo[v] ELSE b.up[v])
                => ValueOf(e, a) = ElemBounds(e, b).lo
<1>1. ElemBounds(e, b) = [lo |-> Fixed[e] + Sum(NumVars, LowerPart(e, b)),
                          up |-> Fixed[e] + Sum(NumVars, UpperPart(e, b))]
  BY ElemBoundsType
<1>2. ValueOf(e, a) = Fixed[e] + Sum(NumVars, ValuePart(e, a))
  BY ValueType
<1>3. \A v \in Vars : /\ Coef[e][v] \in Int /\ b.lo[v] \in Int /\ b.up[v] \in Int /\ a[v] \in Int
                      /\ Coef[e][v] # 0 => v \in VarsOf(e)
                      /\ Coef[e][v] = 0 => \A x \in Int : Coef[e][v] * x = 0
  BY Product DEF DistinctElements, Bounds, VarsOf
<1>4. ASSUME \A v \in VarsOf(e) : a[v] = IF Coef[e][v] > 0 THEN b.up[v] ELSE b.lo[v]
      PROVE  ValuePart(e, a) = UpperPart(e, b)
  <2>1. \A v \in Vars : Coef[e][v] * a[v] = Coef[e][v] * (IF Coef[e][v] > 0 THEN b.up[v] ELSE b.lo[v])
    BY <1>3, <1>4
  <2> QED BY <2>1 DEF ValuePart, UpperPart
<1>5. ASSUME \A v \in VarsOf(e) : a[v] = IF Coef[e][v] > 0 THEN b.lo[v] ELSE b.up[v]
      PROVE  ValuePart(e, a) = LowerPart(e, b)
  <2>1. \A v \in Vars : Coef[e][v] * a[v] = Coef[e][v] * (IF Coef[e][v] > 0 THEN b.lo[v] ELSE b.up[v])
    BY <1>3, <1>5
  <2> QED BY <2>1 DEF ValuePart, LowerPart
<1> QED BY <1>1, <1>2, <1>4, <1>5

\* An assignment with none of the literals of the clause gives both elements
\* the same value.
LEMMA SeparateEntailed ==
    ASSUME DistinctElements, Top \in Bounds, NEW s \in {1, -1}, NEW i \in Elems, NEW j \in Elems,
           Meets(s, i, j), NEW a \in [Vars -> Int],
           \A l \in Separate(s, i, j).lits : ~HoldsFor(l, a)
    PROVE  ValueOf(i, a) = ValueOf(j, a)
<1>1. \A v \in Vars : /\ Top.lo[v] \in Int /\ Top.up[v] \in Int /\ a[v] \in Int
                      /\ Coef[j][v] \in Int
  BY DEF Bounds, DistinctElements
<1>2. \A l \in AssignedReason(i) \union AtBound(s, j) : ~HoldsFor(l, a)
  BY DEF Separate, Clause
<1>3. \A v \in Vars, k \in Int : /\ HoldsFor(GT(v, k), a) <=> a[v] > k
                                 /\ HoldsFor(LE(v, k), a) <=> a[v] <= k
  BY DEF HoldsFor, GT, LE, OrderLit
<1>4. ASSUME NEW v \in VarsOf(i)
      PROVE  Top.lo[v] <= a[v] /\ a[v] <= Top.up[v]
  <2>1. GT(v, Top.up[v]) \in AssignedReason(i) /\ LE(v, Top.lo[v] - 1) \in AssignedReason(i) /\ v \in Vars
    BY DEF AssignedReason, VarsOf
  <2>2. ~(a[v] > Top.up[v]) /\ ~(a[v] <= Top.lo[v] - 1)
    BY <1>1, <1>2, <1>3, <2>1
  <2> QED BY <1>1, <2>1, <2>2
<1>5. ElemBounds(i, Top).lo <= ValueOf(i, a) /\ ValueOf(i, a) <= ElemBounds(i, Top).up
  BY <1>4, ValueWithin
<1>6. ValueOf(i, a) = ElemBounds(i, Top).lo
  <2>1. ElemBounds(i, Top) \in [lo : Int, up : Int] /\ ValueOf(i, a) \in Int
    BY ElemBoundsType, ValueType
  <2> QED BY <1>5, <2>1 DEF Meets
<1>7. ASSUME NEW v \in VarsOf(j)
      PROVE  a[v] = IF s * Coef[j][v] > 0 THEN Top.up[v] ELSE Top.lo[v]
  <2>1. v \in Vars
    BY DEF VarsOf
  <2>2. CASE s * Coef[j][v] > 0
    <3>1. GT(v, Top.up[v]) \in AtBound(s, j) /\ LE(v, Top.up[v] - 1) \in AtBound(s, j)
      <4>1. GT(v, Top.up[v]) \in LeavesBound(s, j, v) /\ LE(v, Top.up[v] - 1) \in LeavesBound(s, j, v)
        BY <2>2 DEF LeavesBound
      <4> QED BY <4>1 DEF AtBound
    <3>2. ~(a[v] > Top.up[v]) /\ ~(a[v] <= Top.up[v] - 1)
      BY <1>1, <1>2, <1>3, <2>1, <3>1
    <3> QED BY <1>1, <2>1, <2>2, <3>2
  <2>3. CASE ~(s * Coef[j][v] > 0)
    <3>1. LE(v, Top.lo[v] - 1) \in AtBound(s, j) /\ GT(v, Top.lo[v]) \in AtBound(s, j)
      <4>1. LE(v, Top.lo[v] - 1) \in LeavesBound(s, j, v) /\ GT(v, Top.lo[v]) \in LeavesBound(s, j, v)
        BY <2>3 DEF LeavesBound
      <4> QED BY <4>1 DEF AtBound
    <3>2. ~(a[v] <= Top.lo[v] - 1) /\ ~(a[v] > Top.lo[v])
      BY <1>1, <1>2, <1>3, <2>1, <3>1
    <3> QED BY <1>1, <2>1, <2>3, <3>2
  <2> QED BY <2>2, <2>3
<1>8. CASE s = 1
  <2>1. \A v \in VarsOf(j) : a[v] = IF Coef[j][v] > 0 THEN Top.up[v] ELSE Top.lo[v]
    <3>1. \A v \in VarsOf(j) : s * Coef[j][v] = Coef[j][v]
      BY <1>1, <1>8 DEF VarsOf
    <3> QED BY <1>7, <3>1
  <2>2. ValueOf(j, a) = ElemBounds(j, Top).up
    BY <2>1, ValueAtBound
  <2> QED BY <1>6, <1>8, <2>2 DEF Meets
<1>9. CASE s = -1
  <2>1. \A v \in VarsOf(j) : a[v] = IF Coef[j][v] > 0 THEN Top.lo[v] ELSE Top.up[v]
    <3>1. \A v \in VarsOf(j) : /\ Coef[j][v] > 0 => ~(s * Coef[j][v] > 0)
                               /\ ~(Coef[j][v] > 0) => s * Coef[j][v] > 0
      BY <1>1, <1>9 DEF VarsOf
    <3> QED BY <1>7, <3>1
  <2>2. ValueOf(j, a) = ElemBounds(j, Top).lo
    BY <2>1, ValueAtBound
  <2> QED BY <1>6, <1>9, <2>2 DEF Meets
<1> QED BY <1>8, <1>9

\* The assignments give integers to the variables.
LEMMA AssignmentType ==
    ASSUME NEW a \in Assignments
    PROVE  a \in [Vars -> Int]
BY DEF Assignments

\* All clauses of a propagation follow.
LEMMA DistinctClausesEntail ==
    ASSUME DistinctElements, ElemTypes, Top \in Bounds,
           NEW as, as = [e \in Elems |-> ElemBounds(e, Top)],
           NEW c \in DistinctClauses(as)
    PROVE  EntailedBy(c, AllDistinct)
<1>1. PICK s \in {1, -1}, i \in Elems, j \in Elems : c = Separate(s, i, j) /\ Meets(s, i, j)
  BY ClausesSeparate
<1>2. ASSUME NEW a \in Assignments, AllDistinct(a), \A l \in c.lits : ~HoldsFor(l, a)
      PROVE  FALSE
  <2>1. a \in [Vars -> Int]
    BY AssignmentType
  <2>2. ValueOf(i, a) = ValueOf(j, a)
    BY <1>1, <1>2, <2>1, SeparateEntailed
  <2> QED BY <1>1, <1>2, <2>2 DEF AllDistinct, Meets
<1> QED BY <1>2 DEF EntailedBy

\* What a step adds follows from the constraint.
LEMMA DistinctStepClauses ==
    ASSUME DistinctElements, DistinctInv, DistinctClausesEntailed, [DistinctNext]_distinctVars
    PROVE  DistinctClausesEntailed'
<1>1. HostInv /\ ElemTypes /\ Top \in Bounds
  BY TopFacts DEF DistinctInv
<1>2. CASE UNCHANGED distinctVars
  BY <1>2 DEF distinctVars, hostVars, DistinctClausesEntailed, EntailedBy, Assignments
<1>3. CASE DistinctNext
  <2>1. start' = start
    BY <1>3 DEF DistinctNext
  <2>2. CASE PropagateDistinct
    <3>1. Recalculated = [e \in Elems |-> ElemBounds(e, Top)]
      BY <2>2, RecalculatedExact DEF PropagateDistinct
    <3>2. added' = DistinctClauses(Recalculated)
      BY <2>2 DEF PropagateDistinct, AddClauses, ClauseFails
    <3>3. \A c \in added' : EntailedBy(c, AllDistinct)
      BY <1>1, <3>1, <3>2, DistinctClausesEntail
    <3>4. Assignments' = Assignments
      BY <2>1 DEF Assignments
    <3>5. ASSUME NEW c \in added'
          PROVE  \A a \in Assignments' : AllDistinct(a) => \E l \in c.lits : HoldsFor(l, a)
      BY <3>3, <3>4, <3>5 DEF EntailedBy
    <3> QED BY <3>5 DEF DistinctClausesEntailed, EntailedBy
  <2>3. CASE ~PropagateDistinct
    <3>1. added' = {}
      BY <1>3, <2>3 DEF DistinctNext, DistinctStep, Decide, UnitPropagate, Deliver, CheckIdle, CheckFalse, UndoDistinct, HostUndo
    <3> QED BY <3>1 DEF DistinctClausesEntailed
  <2> QED BY <2>2, <2>3
<1> QED BY <1>2, <1>3

\* The clauses added follow from the constraint, for any elements, whatever
\* was remembered from propagations that were cut short.
THEOREM DistinctClausesFollow ==
    ASSUME HostStarts, DistinctElements
    PROVE  DistinctSpec => []DistinctClausesEntailed
<1>1. DistinctInit => DistinctClausesEntailed
  BY DEF DistinctInit, HostInit, DistinctClausesEntailed
<1>2. DistinctInv /\ DistinctClausesEntailed /\ [DistinctNext]_distinctVars => DistinctClausesEntailed'
  BY DistinctStepClauses
<1> QED BY <1>1, <1>2, DistinctInvariance, PTL DEF DistinctSpec

-----------------------------------------------------------------------------
(* Conflict detection.                                                     *)

\* Elements assigned by the bounds b have different values, except for those
\* with the same value in the bounds s.
FixedBy(e, b) == ElemBounds(e, b).lo = ElemBounds(e, b).up
SameBy(d, e, b) == FixedBy(d, b) /\ FixedBy(e, b) /\ ElemBounds(d, b).lo = ElemBounds(e, b).lo
Apart(b, s) == \A d, e \in Elems : d # e /\ SameBy(d, e, b) => SameBy(d, e, s)

\* On the levels below the last one, and where the constraint was told of
\* the bounds, assigned elements differ (or did not from the start)
\* or the literal was false by then.
ApartOrFalse(l) == Apart(trail[l], start) \/ (clit = "false" /\ clitLevel < l)
ApartOK ==
    /\ \A l \in 1..dl : ApartOrFalse(l)
    /\ pc \in {"propagate", "fixpoint"} => Apart(flushed, start) \/ clit = "false"

\* The variables of an assigned element are assigned.
LEMMA FixedVars ==
    ASSUME DistinctElements, NEW e \in Elems, NEW b \in Bounds, NonEmpty(b), FixedBy(e, b),
           NEW v \in VarsOf(e)
    PROVE  b.lo[v] = b.up[v]
<1>1. /\ NumVars \in Nat /\ Vars = 1..NumVars /\ Coef[e] \in [Vars -> Int] /\ Fixed[e] \in Int
      /\ LowerPart(e, b) \in [1..NumVars -> Int] /\ UpperPart(e, b) \in [1..NumVars -> Int]
      /\ ElemBounds(e, b) = [lo |-> Fixed[e] + Sum(NumVars, LowerPart(e, b)),
                             up |-> Fixed[e] + Sum(NumVars, UpperPart(e, b))]
  BY ElemBoundsType
<1>2. ASSUME NEW w \in Vars
      PROVE  /\ LowerPart(e, b)[w] <= UpperPart(e, b)[w]
             /\ Coef[e][w] # 0 /\ LowerPart(e, b)[w] = UpperPart(e, b)[w] => b.lo[w] = b.up[w]
  <2>1. Coef[e][w] \in Int /\ b.lo[w] \in Int /\ b.up[w] \in Int /\ b.lo[w] <= b.up[w]
    BY <1>1 DEF Bounds, NonEmpty
  <2>2. /\ LowerPart(e, b)[w] = Coef[e][w] * (IF Coef[e][w] > 0 THEN b.lo[w] ELSE b.up[w])
        /\ UpperPart(e, b)[w] = Coef[e][w] * (IF Coef[e][w] > 0 THEN b.up[w] ELSE b.lo[w])
    BY DEF LowerPart, UpperPart
  <2>3. CASE Coef[e][w] > 0
    <3>1. Coef[e][w] * b.lo[w] <= Coef[e][w] * b.up[w]
      BY <2>1, <2>3, Product
    <3>2. Coef[e][w] * b.lo[w] = Coef[e][w] * b.up[w] => b.lo[w] = b.up[w]
      BY <2>1, <2>3, Product
    <3> QED BY <2>2, <2>3, <3>1, <3>2
  <2>4. CASE ~(Coef[e][w] > 0)
    <3>1. Coef[e][w] * b.up[w] <= Coef[e][w] * b.lo[w]
      BY <2>1, <2>4, Product
    <3>2. Coef[e][w] # 0 /\ Coef[e][w] * b.up[w] = Coef[e][w] * b.lo[w] => b.up[w] = b.lo[w]
      BY <2>1, Product
    <3> QED BY <2>2, <2>4, <3>1, <3>2
  <2> QED BY <2>3, <2>4
<1>3. v \in 1..NumVars /\ v \in Vars /\ Coef[e][v] # 0
  BY <1>1 DEF VarsOf
<1>4. Sum(NumVars, LowerPart(e, b)) + (UpperPart(e, b)[v] - LowerPart(e, b)[v])
        <= Sum(NumVars, UpperPart(e, b))
  <2>1. \A w \in 1..NumVars : LowerPart(e, b)[w] <= UpperPart(e, b)[w]
    BY <1>1, <1>2
  <2> QED BY <1>1, <1>3, <2>1, SumOneTerm
<1>5. /\ Sum(NumVars, LowerPart(e, b)) \in Int /\ Sum(NumVars, UpperPart(e, b)) \in Int
      /\ LowerPart(e, b)[v] \in Int /\ UpperPart(e, b)[v] \in Int
  BY <1>1, <1>3, SumType
<1>6. Sum(NumVars, LowerPart(e, b)) = Sum(NumVars, UpperPart(e, b))
  <2>1. Fixed[e] + Sum(NumVars, LowerPart(e, b)) = Fixed[e] + Sum(NumVars, UpperPart(e, b))
    BY <1>1 DEF FixedBy
  <2> QED BY <1>1, <1>5, <2>1
<1>7. UpperPart(e, b)[v] = LowerPart(e, b)[v]
  <2>1. LowerPart(e, b)[v] <= UpperPart(e, b)[v]
    BY <1>2, <1>3
  <2> QED BY <1>4, <1>5, <1>6, <2>1
<1> QED BY <1>2, <1>3, <1>7

\* All literals of the clause that separates two assigned elements are false.
LEMMA SeparateFalse ==
    ASSUME DistinctElements, HostInv, NEW d \in Elems, NEW e \in Elems,
           FixedBy(d, Top), FixedBy(e, Top)
    PROVE  OpenPart(Separate(1, d, e)) = {}
<1>1. Top \in Bounds /\ NonEmpty(Top)
  BY TopFacts
<1>2. \A v \in Vars : Top.lo[v] \in Int /\ Top.up[v] \in Int
  BY <1>1 DEF Bounds
<1>3. \A v \in Vars, k \in Int : /\ FalseIn(GT(v, k), Top) <=> Top.up[v] <= k
                                 /\ FalseIn(LE(v, k), Top) <=> Top.lo[v] > k
  BY DEF FalseIn, GT, LE, OrderLit
<1>4. ASSUME NEW v \in Vars
      PROVE  /\ FalseIn(GT(v, Top.up[v]), Top) /\ FalseIn(LE(v, Top.lo[v] - 1), Top)
             /\ Top.lo[v] = Top.up[v] => /\ FalseIn(LE(v, Top.up[v] - 1), Top)
                                         /\ FalseIn(GT(v, Top.lo[v]), Top)
  <2>1. Top.lo[v] - 1 \in Int /\ Top.up[v] - 1 \in Int
    BY <1>2
  <2> QED BY <1>2, <1>3, <2>1
<1>5. \A l \in AssignedReason(d) : FalseIn(l, Top)
  BY <1>4 DEF AssignedReason, VarsOf
<1>6. ASSUME NEW l \in AtBound(1, e)
      PROVE  FalseIn(l, Top)
  <2>1. PICK v \in VarsOf(e) : l \in LeavesBound(1, e, v)
    BY <1>6 DEF AtBound
  <2>2. v \in Vars /\ Top.lo[v] = Top.up[v]
    BY <1>1, FixedVars DEF VarsOf
  <2> QED BY <1>4, <2>1, <2>2 DEF LeavesBound
<1> QED BY <1>5, <1>6 DEF OpenPart, Separate, Clause

\* Elements that became equal give a clause without open literals.
LEMMA PropagateSeparates ==
    ASSUME DistinctElements, DistinctInv, CheckPropagate, Apart(flushed, start), ~Apart(Top, start)
    PROVE  \E c \in DistinctClauses(Recalculated) : OpenPart(c) = {}
<1>1. HostInv /\ ElemTypes /\ Top \in Bounds /\ flushed \in Bounds
  BY TopFacts DEF DistinctInv
<1>2. ~Removable /\ Recalculated = [e \in Elems |-> ElemBounds(e, Top)]
  BY RecalculatedExact
<1>3. Told = ChangedVars(Top, flushed) /\ Told \in SUBSET Vars
  BY <1>2, ToldFacts
<1>4. PICK d \in Elems, e \in Elems : /\ d # e /\ FixedBy(d, Top) /\ FixedBy(e, Top)
                                      /\ ElemBounds(d, Top).lo = ElemBounds(e, Top).lo
                                      /\ ~SameBy(d, e, start)
  BY DEF Apart, SameBy
<1>5. d \in ElemsWith(Told) \/ e \in ElemsWith(Told)
  <2>1. \A k \in {d, e} : k \notin ElemsWith(Told) => ElemBounds(k, Top) = ElemBounds(k, flushed)
    BY <1>1, <1>3, ElemBoundsSame DEF ChangedVars
  <2>2. ~SameBy(d, e, flushed)
    BY <1>4 DEF Apart
  <2> QED BY <1>4, <2>1, <2>2 DEF SameBy, FixedBy
<1>6. PICK i \in {d, e} : i \in ElemsWith(Told)
  BY <1>5
<1>7. PICK j \in {d, e} : j # i
  BY <1>4
<1>8. /\ i \in Elems /\ j \in Elems \ {i} /\ FixedBy(i, Top) /\ FixedBy(j, Top)
      /\ ElemBounds(j, Top).up = ElemBounds(i, Top).lo
  BY <1>4, <1>6, <1>7 DEF FixedBy
<1>9. Separate(1, i, j) \in FromAssigned(Recalculated, i)
  <2>1. Recalculated[j].up = Recalculated[i].lo
    BY <1>2, <1>8
  <2> QED BY <1>8, <2>1 DEF FromAssigned
<1>10. Fix(Recalculated, i)
  BY <1>2, <1>8 DEF Fix, FixedBy
<1>11. i \in TodoLowerNow \union TodoUpperNow
  <2>1. PICK v \in Told : v \in VarsOf(i)
    BY <1>6 DEF ElemsWith
  <2>2. Coef[i][v] > 0 \/ Coef[i][v] < 0
    BY <1>8, <2>1 DEF VarsOf, DistinctElements
  <2> QED BY <1>8, <2>1, <2>2 DEF TodoLowerNow, TodoUpperNow, ListedLower, ListedUpper
<1>12. Separate(1, i, j) \in DistinctClauses(Recalculated)
  <2>1. LowerClauses(Recalculated, i) = FromAssigned(Recalculated, i)
    BY <1>10 DEF LowerClauses
  <2>2. UpperClauses(Recalculated, i) = FromAssigned(Recalculated, i)
    BY <1>10 DEF UpperClauses
  <2> QED BY <1>9, <1>11, <2>1, <2>2 DEF DistinctClauses
<1>13. OpenPart(Separate(1, i, j)) = {}
  BY <1>1, <1>8, SeparateFalse
<1> QED BY <1>12, <1>13

\* Where the bounds and the literal are kept, so is their being apart.
LEMMA ApartKept ==
    ASSUME NEW l, ApartOrFalse(l), trail'[l] = trail[l], start' = start,
           clit = "false" => UNCHANGED litVars
    PROVE  ApartOrFalse(l)'
BY DEF ApartOrFalse, litVars

\* Being apart is about these bounds only.
LEMMA ApartTold ==
    ASSUME NEW b, flushed' = b, start' = start
    PROVE  Apart(flushed, start)' <=> Apart(b, start)
OBVIOUS

\* The invariant of conflict detection is kept.
LEMMA StepApart ==
    ASSUME DistinctElements, DistinctInv, ApartOK, DistinctNext
    PROVE  ApartOK'
<1>1. HostInv /\ DistinctInv /\ MarkOK
  BY DEF DistinctInv
<1>2. /\ Len(trail) \in Nat /\ Len(trail) > 0 /\ dl \in Nat /\ dl = Len(trail) - 1
      /\ clitLevel \in Nat /\ inactive \in Nat /\ clitLevel \in 0..dl
      /\ dl > 0 => Previous = trail[dl]
  BY <1>1, TopFacts DEF HostInv
<1>3. \A l \in 1..dl : ApartOrFalse(l)
  BY DEF ApartOK
<1>4. DistinctStep /\ UNCHANGED start
  BY DEF DistinctNext
<1>5. CASE Decide
  <2>1. PICK b : Pushed(b)
    BY <1>1, <1>5, DecidePushes
  <2>2. dl' = dl + 1 /\ \A l \in 1..Len(trail) : trail'[l] = trail[l]
    BY <1>1, <2>1, PushedTrail
  <2>3. /\ flushed' = flushed /\ flushed = Top /\ pc = "fixpoint"
        /\ clit = "false" => UNCHANGED litVars
    BY <1>1, <1>5 DEF Decide, AssignClit, HostInv, FlushOK
  <2>4. Apart(flushed, start) \/ clit = "false"
    BY <2>3 DEF ApartOK
  <2>5. ApartOrFalse(dl + 1)
    BY <1>2, <2>3, <2>4 DEF ApartOrFalse, Top
  <2>6. ASSUME NEW l \in 1..dl'
        PROVE  ApartOrFalse(l)'
    <3>1. ApartOrFalse(l) /\ trail'[l] = trail[l]
      BY <1>2, <1>3, <2>2, <2>5, <2>6
    <3> QED BY <1>4, <2>3, <3>1, ApartKept
  <2>7. Apart(flushed, start)' \/ clit' = "false"
    BY <1>4, <2>3, <2>4 DEF litVars
  <2> QED BY <2>6, <2>7 DEF ApartOK
<1>6. CASE UnitPropagate \/ Deliver
  <2>1. dl' = dl /\ \A l \in 1..dl : trail'[l] = trail[l]
    BY <1>1, <1>4, <1>6, UnitHostInv
  <2>2. /\ flushed' = flushed /\ pc = "propagate"
        /\ clit = "false" => UNCHANGED litVars
    BY <1>6 DEF UnitPropagate, Deliver, AssignClit
  <2>3. \A l \in 1..dl : ApartOrFalse(l)'
    BY <1>4, <1>3, <2>1, <2>2, ApartKept
  <2>4. Apart(flushed, start)' \/ clit' = "false"
    BY <1>4, <2>2 DEF ApartOK, litVars
  <2> QED BY <2>1, <2>3, <2>4 DEF ApartOK
<1>7. CASE CheckIdle \/ CheckFalse
  <2>1. trail' = trail /\ flushed' = Top /\ clit' = clit /\ clitLevel' = clitLevel /\ pc = "propagate"
    BY <1>7 DEF CheckIdle, CheckFalse, CheckStart, FlushBounds, litVars
  <2>2. dl' = dl /\ \A l \in 1..dl : ApartOrFalse(l)'
    BY <1>4, <1>3, <2>1, ApartKept DEF dl, litVars
  <2>3. Apart(flushed, start)' \/ clit' = "false"
    <3>1. CASE clit = "false"
      BY <2>1, <3>1
    <3>2. CASE clit # "false"
      <4>1. CheckIdle /\ inactive = 0
        BY <1>1, <1>2, <1>7, <3>2 DEF CheckFalse, MarkOK
      <4>2. Told = {} /\ ~Removable
        BY <4>1 DEF CheckIdle, Enqueued, Told, Removable
      <4>3. ChangedVars(Top, flushed) = {}
        BY <4>2, ToldFacts
      <4>4. Top \in Bounds /\ flushed \in Bounds
        BY <1>1, TopFacts
      <4>5. ASSUME NEW e \in Elems
            PROVE  ElemBounds(e, Top) = ElemBounds(e, flushed)
        <5>1. e \notin ElemsWith(LowerDiff(Top, flushed) \union UpperDiff(Top, flushed))
          BY <4>3 DEF ChangedVars, ElemsWith
        <5> QED BY <4>4, <5>1, ElemBoundsSame
      <4>6. Apart(flushed, start)
        BY <2>1, <3>2 DEF ApartOK
      <4>7. Apart(Top, start)
        BY <4>5, <4>6 DEF Apart, SameBy, FixedBy
      <4> QED BY <1>4, <2>1, <4>7, ApartTold
    <3> QED BY <3>1, <3>2
  <2> QED BY <2>2, <2>3 DEF ApartOK
<1>8. CASE PropagateDistinct
  <2>1. /\ trail' = trail /\ flushed' = Top /\ CheckPropagate
        /\ clit # "false" /\ pc = "propagate"
    BY <1>8 DEF PropagateDistinct, FlushBounds, CheckPropagate, CheckStart
  <2>2. dl' = dl /\ \A l \in 1..dl : ApartOrFalse(l)'
    BY <1>4, <1>3, <2>1, ApartKept DEF dl
  <2>3. ASSUME pc' \in {"propagate", "fixpoint"}
        PROVE  Apart(flushed, start)' \/ clit' = "false"
    <3>1. Apart(flushed, start)
      BY <2>1 DEF ApartOK
    <3>2. CASE Apart(Top, start)
      BY <1>4, <2>1, <3>2, ApartTold
    <3>3. CASE ~Apart(Top, start)
      <4>1. PICK c \in DistinctClauses(Recalculated) : OpenPart(c) = {}
        BY <1>1, <2>1, <3>1, <3>3, PropagateSeparates
      <4>2. AddClauses(DistinctClauses(Recalculated))
        BY <1>8, <2>3 DEF PropagateDistinct, ClauseFails, ConflictPc
      <4>3. Guarded(c)
        BY <4>1, <4>2 DEF AddClauses, Conflicting
      <4> QED BY <4>1, <4>2, <4>3 DEF AddClauses
    <3> QED BY <3>2, <3>3
  <2> QED BY <2>2, <2>3 DEF ApartOK
<1>9. CASE UndoDistinct
  <2>1. /\ dl' = dl - 1 /\ dl > 0 /\ flushed' = Top' /\ Top' = Previous
        /\ \A l \in 1..dl : trail'[l] = trail[l]
    BY <1>1, <1>4, <1>9, UndoHostInv DEF UndoDistinct
  <2>2. IF clitLevel = dl THEN clit' = "free" /\ clitLevel' = 0
                          ELSE clit' = clit /\ clitLevel' = clitLevel
    BY <1>9 DEF UndoDistinct, HostUndo, litVars
  <2>3. ASSUME NEW l \in 1..dl
        PROVE  ApartOrFalse(l)'
    <3>1. ApartOrFalse(l) /\ trail'[l] = trail[l]
      BY <1>3, <2>1, <2>3
    <3>2. CASE Apart(trail[l], start)
      <4>1. Apart(trail[l], start)' <=> Apart(trail[l], start)
        BY <1>4, <3>1
      <4> QED BY <3>2, <4>1 DEF ApartOrFalse
    <3>3. CASE clit = "false" /\ clitLevel < l
      BY <1>2, <2>2, <2>3, <3>3 DEF ApartOrFalse
    <3> QED BY <3>1, <3>2, <3>3 DEF ApartOrFalse
  <2>4. Apart(flushed, start)' \/ clit' = "false"
    <3>1. ApartOrFalse(dl) /\ dl \in 1..dl /\ flushed' = trail[dl]
      BY <1>2, <1>3, <2>1
    <3>2. Apart(flushed, start)' <=> Apart(trail[dl], start)
      BY <1>4, <3>1, ApartTold
    <3> QED BY <1>2, <2>2, <3>1, <3>2 DEF ApartOrFalse
  <2>5. \A l \in 1..dl' : ApartOrFalse(l)'
    BY <1>2, <2>1, <2>3
  <2> QED BY <2>4, <2>5 DEF ApartOK
<1> QED BY <1>4, <1>5, <1>6, <1>7, <1>8, <1>9 DEF DistinctStep

\* What it says of a fixpoint.
LEMMA ApartDetects ==
    ASSUME DistinctInv, ApartOK
    PROVE  ConflictDetected
<1>1. pc = "fixpoint" => flushed = Top
  BY DEF DistinctInv, HostInv, FlushOK
<1>2. \A d, e \in Elems : SameBy(d, e, start) => AttachedEqual(d, e)
  BY DEF SameBy, FixedBy, AttachedEqual
<1> QED BY <1>1, <1>2 DEF ApartOK, ConflictDetected, Apart, SameBy, FixedBy

\* It holds at the start.
LEMMA InitApart ==
    ASSUME HostStarts, DistinctElements, DistinctInit
    PROVE  ApartOK
<1>1. /\ start \in Starts /\ start.kind = "distinct"
      /\ flushed = [lo |-> start.lo, up |-> start.up] /\ Len(trail) = 1
  BY DEF DistinctInit, HostInit
<1>2. \A e \in Elems : ElemBounds(e, flushed) = ElemBounds(e, start)
  BY <1>1 DEF ElemBounds
<1>3. Apart(flushed, start)
  BY <1>2 DEF Apart, SameBy, FixedBy
<1>4. dl = 0
  BY <1>1 DEF dl
<1> QED BY <1>3, <1>4 DEF ApartOK

\* Steps keep it.
LEMMA NextApart ==
    ASSUME HostStarts, DistinctElements, DistinctInv, ApartOK, [DistinctNext]_distinctVars
    PROVE  ApartOK'
<1>1. CASE DistinctNext
  BY <1>1, StepApart
<1>2. CASE UNCHANGED distinctVars
  <2>1. /\ trail' = trail /\ UNCHANGED litVars /\ clit' = clit /\ flushed' = flushed /\ pc' = pc
        /\ dl' = dl /\ start' = start
    BY <1>2 DEF distinctVars, hostVars, litVars, dl
  <2>2. \A l \in 1..dl : ApartOrFalse(l)'
    BY <2>1, ApartKept DEF ApartOK
  <2>3. Apart(flushed, start)' <=> Apart(flushed, start)
    BY <2>1, ApartTold
  <2> QED BY <2>1, <2>2, <2>3 DEF ApartOK
<1> QED BY <1>1, <1>2

\* propagate guarantees conflict detection: where clasp may decide and the
\* literal is true, no two assigned elements have the same value, except
\* for constants that had when the constraint was attached.
THEOREM ConflictsDetected ==
    ASSUME HostStarts, DistinctElements
    PROVE  DistinctSpec => []ConflictDetected
<1>1. DistinctInit => ApartOK
  BY InitApart
<1>2. DistinctInv /\ ApartOK /\ [DistinctNext]_distinctVars => ApartOK'
  BY NextApart
<1>3. DistinctInv /\ ApartOK => ConflictDetected
  BY ApartDetects
<1> QED BY <1>1, <1>2, <1>3, DistinctInvariance, PTL DEF DistinctSpec

-----------------------------------------------------------------------------
(* The least and the greatest of the corners.                              *)

\* Four numbers have a least and a greatest one.
LEMMA LeastOfFour ==
    ASSUME NEW p \in Int, NEW q \in Int, NEW r \in Int, NEW s \in Int
    PROVE  /\ Min({p, q, r, s}) \in {p, q, r, s} /\ Max({p, q, r, s}) \in {p, q, r, s}
           /\ \A n \in {p, q, r, s} : Min({p, q, r, s}) <= n /\ n <= Max({p, q, r, s})
<1> DEFINE S == {p, q, r, s}
<1>1. \E m \in S : \A n \in S : m <= n
  OBVIOUS
<1>2. \E m \in S : \A n \in S : m >= n
  OBVIOUS
<1> HIDE DEF S
<1>3. Min(S) \in S /\ \A n \in S : Min(S) <= n
  BY <1>1 DEF Min
<1>4. Max(S) \in S /\ \A n \in S : Max(S) >= n
  BY <1>2 DEF Max
<1>5. S \subseteq Int
  BY DEF S
<1>6. \A n \in S : n <= Max(S)
  BY <1>4, <1>5
<1> QED BY <1>3, <1>4, <1>6 DEF S

\* Between two numbers a product is not smaller than both ends' products, nor
\* larger.
LEMMA ProductBetween ==
    ASSUME NEW c \in Int, NEW x \in Int, NEW l \in Int, NEW u \in Int, l <= x, x <= u
    PROVE  /\ c * l <= c * x \/ c * u <= c * x
           /\ c * x <= c * l \/ c * x <= c * u
<1>1. CASE c > 0
  BY <1>1, Product
<1>2. CASE ~(c > 0)
  BY <1>2, Product
<1> QED BY <1>1, <1>2

\* Factors may be exchanged.
LEMMA ProductSwap ==
    \A c, x, y \in Int : /\ (c * x) * y = (c * y) * x /\ c * x \in Int /\ (c * x) * y \in Int
OBVIOUS

\* The solver has a nonlinear constraint.
NonlinearStart == start \in Starts /\ start.kind = "nonlinear"

\* The types of what the constraint is made of.
LEMMA StartTypes ==
    ASSUME NonlinearStarts, NonlinearStart
    PROVE  /\ X \in Vars /\ Y \in Vars /\ Z \in Vars
           /\ CoA \in Int /\ CoA # 0 /\ CoB \in Int /\ Rhs \in Int
<1>1. PICK s \in Starts : s = start /\ s.kind = "nonlinear"
  BY DEF NonlinearStart
<1>2. /\ {s.x, s.y, s.z} \subseteq Vars
      /\ s.co_a \in Int \ {0} /\ s.co_b \in Int /\ s.rhs \in Int
  BY <1>1 DEF NonlinearStarts
<1> QED BY <1>1, <1>2 DEF X, Y, Z, CoA, CoB, Rhs

\* Over bounds the product is least and greatest in corners.
LEMMA CornersBound ==
    ASSUME NonlinearStarts, NonlinearStart, NEW b \in Bounds
    PROVE  /\ LowerTerm(b) \in Corners(b) /\ UpperTerm(b) \in Corners(b)
           /\ LowerTerm(b) \in Int /\ UpperTerm(b) \in Int
           /\ \A x, y \in Int : /\ b.lo[X] <= x /\ x <= b.up[X]
                                /\ b.lo[Y] <= y /\ y <= b.up[Y]
                => LowerTerm(b) <= CoA * x * y /\ CoA * x * y <= UpperTerm(b)
<1>1. X \in Vars /\ Y \in Vars /\ CoA \in Int
  BY StartTypes
<1>2. b.lo[X] \in Int /\ b.up[X] \in Int /\ b.lo[Y] \in Int /\ b.up[Y] \in Int
  BY <1>1 DEF Bounds
<1> DEFINE xl == b.lo[X]
           xu == b.up[X]
           yl == b.lo[Y]
           yu == b.up[Y]
           p == CoA * xl * yl
           q == CoA * xl * yu
           r == CoA * xu * yl
           s == CoA * xu * yu
<1>3. Corners(b) = {p, q, r, s}
  BY DEF Corners
<1>4. p \in Int /\ q \in Int /\ r \in Int /\ s \in Int
  BY <1>1, <1>2, ProductSwap
<1>5. LowerTerm(b) = Min({p, q, r, s}) /\ UpperTerm(b) = Max({p, q, r, s})
  BY <1>3 DEF LowerTerm, UpperTerm
<1>6. xl \in Int /\ xu \in Int /\ yl \in Int /\ yu \in Int
  BY <1>2
<1> DEFINE LT == LowerTerm(b)
           UT == UpperTerm(b)
<1>7. /\ LT \in {p, q, r, s} /\ UT \in {p, q, r, s}
      /\ \A n \in {p, q, r, s} : LT <= n /\ n <= UT
  <2> HIDE DEF p, q, r, s
  <2> QED BY <1>4, <1>5, LeastOfFour
<1>8. LT \in Int /\ UT \in Int
  <2> HIDE DEF p, q, r, s, LT, UT
  <2> QED BY <1>4, <1>7
<1>9. ASSUME NEW x \in Int, NEW y \in Int, xl <= x, x <= xu, yl <= y, y <= yu
      PROVE  LT <= CoA * x * y /\ CoA * x * y <= UT
  <2>1. ASSUME NEW z \in {yl, yu}
        PROVE  LT <= CoA * x * z /\ CoA * x * z <= UT
    <3>1. z \in Int
      BY <1>6
    <3>2. CoA * x * z = (CoA * z) * x /\ CoA * z \in Int /\ CoA * x * z \in Int
      BY <1>1, <3>1, ProductSwap
    <3>0. CoA \in Int /\ xl \in Int /\ xu \in Int
      BY <1>1, <1>6
    <3>3. /\ (CoA * z) * xl = CoA * xl * z /\ (CoA * z) * xu = CoA * xu * z
          /\ CoA * xl * z \in Int /\ CoA * xu * z \in Int
      BY ONLY <3>0, <3>1, ProductSwap
    <3>4. CoA * xl * z \in {p, q, r, s} /\ CoA * xu * z \in {p, q, r, s}
      OBVIOUS
    <3>5. /\ LT <= CoA * xl * z /\ CoA * xl * z <= UT
          /\ LT <= CoA * xu * z /\ CoA * xu * z <= UT
      BY <1>7, <3>4
    <3> DEFINE c == CoA * z
    <3> HIDE DEF LT, UT, xl, xu, p, q, r, s, c
    <3>6. /\ c * xl <= c * x \/ c * xu <= c * x
          /\ c * x <= c * xl \/ c * x <= c * xu
      <4>1. c \in Int
        BY <3>2 DEF c
      <4> QED BY ONLY <1>6, <1>9, <4>1, ProductBetween
    <3>7. c * x = CoA * x * z /\ c * xl = CoA * xl * z /\ c * xu = CoA * xu * z
      BY <3>2, <3>3 DEF c
    <3> QED BY ONLY <1>8, <3>2, <3>3, <3>5, <3>6, <3>7
  <2>2. /\ LT <= CoA * x * yl /\ CoA * x * yl <= UT
        /\ LT <= CoA * x * yu /\ CoA * x * yu <= UT
    BY <2>1
  <2> DEFINE c == CoA * x
  <2> HIDE DEF LT, UT, xl, xu, yl, yu, p, q, r, s, c
  <2>3. c \in Int /\ c * y \in Int /\ c * yl \in Int /\ c * yu \in Int
    BY <1>1, <1>6, ProductSwap DEF c
  <2>4. /\ c * yl <= c * y \/ c * yu <= c * y
        /\ c * y <= c * yl \/ c * y <= c * yu
    BY ONLY <1>6, <1>9, <2>3, ProductBetween
  <2>5. /\ LT <= c * yl /\ c * yl <= UT /\ LT <= c * yu /\ c * yu <= UT
    BY <2>2 DEF c
  <2>6. LT <= c * y /\ c * y <= UT
    BY ONLY <1>8, <2>3, <2>4, <2>5
  <2> QED BY <2>6 DEF c
<1> QED BY <1>3, <1>7, <1>8, <1>9

\* A corner is a product of values within the bounds.
LEMMA CornerValues ==
    ASSUME NonlinearStarts, NonlinearStart, NEW b \in Bounds, NonEmpty(b), NEW t \in Corners(b)
    PROVE  \E x \in b.lo[X]..b.up[X], y \in b.lo[Y]..b.up[Y] : t = CoA * x * y
<1>1. X \in Vars /\ Y \in Vars
  BY StartTypes
<1>2. /\ b.lo[X] \in Int /\ b.up[X] \in Int /\ b.lo[Y] \in Int /\ b.up[Y] \in Int
      /\ b.lo[X] <= b.up[X] /\ b.lo[Y] <= b.up[Y]
  BY <1>1 DEF Bounds, NonEmpty
<1>3. {b.lo[X], b.up[X]} \subseteq b.lo[X]..b.up[X] /\ {b.lo[Y], b.up[Y]} \subseteq b.lo[Y]..b.up[Y]
  BY <1>2
<1> QED BY <1>3 DEF Corners

-----------------------------------------------------------------------------
(* What holds of bounds.                                                   *)

\* The constraint holds for all values within the bounds b.
Certain(b) == UpperLhs(b) <= Rhs

\* No bound of z is too large for the least product.
Supported(b) == LowerTerm(b) + CoB * b.up[Z] <= Rhs

\* The linear term within bounds.
LEMMA LinearWithin ==
    ASSUME NonlinearStarts, NonlinearStart, NEW b \in Bounds,
           NEW z \in Int, b.lo[Z] <= z, z <= b.up[Z]
    PROVE  /\ CoB * LowerZ(b) <= CoB * z /\ CoB * z <= CoB * UpperZ(b)
           /\ CoB * LowerZ(b) \in Int /\ CoB * z \in Int /\ CoB * UpperZ(b) \in Int
           /\ CoB * b.up[Z] \in Int
<1>1. CoB \in Int /\ b.lo[Z] \in Int /\ b.up[Z] \in Int
  BY StartTypes DEF Bounds
<1>2. CASE CoB > 0
  BY <1>1, <1>2, Product DEF LowerZ, UpperZ
<1>3. CASE CoB < 0
  BY <1>1, <1>3, Product DEF LowerZ, UpperZ
<1>4. CASE CoB = 0
  BY <1>1, <1>4, Product DEF LowerZ, UpperZ
<1> QED BY <1>1, <1>2, <1>3, <1>4

\* A constraint that is certain is supported.
LEMMA CertainSupported ==
    ASSUME NonlinearStarts, NonlinearStart, NEW b \in Bounds, NonEmpty(b), Certain(b)
    PROVE  Supported(b)
<1>1. /\ X \in Vars /\ Y \in Vars /\ Z \in Vars /\ Rhs \in Int
  BY StartTypes
<1>2. /\ b.lo[X] \in Int /\ b.lo[X] <= b.up[X] /\ b.lo[Y] \in Int /\ b.lo[Y] <= b.up[Y]
      /\ b.lo[Z] \in Int /\ b.up[Z] \in Int /\ b.lo[Z] <= b.up[Z]
  BY <1>1 DEF Bounds, NonEmpty
<1>3. /\ LowerTerm(b) <= CoA * b.lo[X] * b.lo[Y] /\ CoA * b.lo[X] * b.lo[Y] <= UpperTerm(b)
      /\ LowerTerm(b) \in Int /\ UpperTerm(b) \in Int
  BY <1>2, CornersBound
<1>4. CoA * b.lo[X] * b.lo[Y] \in Int
  BY <1>2, StartTypes, ProductSwap
<1>5. LowerTerm(b) <= UpperTerm(b)
  <2> DEFINE c == CoA * b.lo[X] * b.lo[Y]
  <2> HIDE DEF c
  <2>1. LowerTerm(b) <= c /\ c <= UpperTerm(b) /\ c \in Int
    BY <1>3, <1>4 DEF c
  <2> QED BY ONLY <1>3, <2>1
<1>6. /\ CoB * b.up[Z] <= CoB * UpperZ(b) /\ CoB * b.up[Z] \in Int /\ CoB * UpperZ(b) \in Int
  BY <1>2, LinearWithin
<1>7. UpperTerm(b) + CoB * UpperZ(b) <= Rhs
  BY DEF Certain, UpperLhs
<1> DEFINE lt == LowerTerm(b)
           ut == UpperTerm(b)
           ez == CoB * b.up[Z]
           uz == CoB * UpperZ(b)
<1>8. /\ lt \in Int /\ ut \in Int /\ ez \in Int /\ uz \in Int
      /\ lt <= ut /\ ez <= uz /\ ut + uz <= Rhs
  BY <1>3, <1>5, <1>6, <1>7
<1>9. lt + ez <= Rhs
  <2> HIDE DEF lt, ut, ez, uz
  <2> QED BY ONLY <1>1, <1>8
<1> QED BY <1>9 DEF Supported

\* Tighter bounds keep it certain.
LEMMA CertainStays ==
    ASSUME NonlinearStarts, NonlinearStart, NEW b \in Bounds, NonEmpty(b), NEW c \in Bounds,
           Tighter(b, c), Certain(c)
    PROVE  Certain(b)
<1>1. /\ X \in Vars /\ Y \in Vars /\ Z \in Vars /\ Rhs \in Int /\ CoA \in Int
  BY StartTypes
<1>2. \A v \in Vars : /\ b.lo[v] \in Int /\ b.up[v] \in Int /\ b.lo[v] <= b.up[v]
                      /\ c.lo[v] \in Int /\ c.up[v] \in Int
                      /\ c.lo[v] <= b.lo[v] /\ b.up[v] <= c.up[v]
  BY DEF Bounds, NonEmpty, Tighter
<1>3. UpperTerm(b) \in Int /\ UpperTerm(c) \in Int /\ UpperTerm(b) \in Corners(b)
  BY CornersBound
<1>4. UpperTerm(b) <= UpperTerm(c)
  <2>1. PICK x \in b.lo[X]..b.up[X], y \in b.lo[Y]..b.up[Y] : UpperTerm(b) = CoA * x * y
    BY <1>3, CornerValues
  <2>2. x \in Int /\ y \in Int /\ c.lo[X] <= x /\ x <= c.up[X] /\ c.lo[Y] <= y /\ y <= c.up[Y]
    BY <1>1, <1>2
  <2>3. CoA * x * y <= UpperTerm(c)
    BY <2>2, CornersBound
  <2> QED BY <2>1, <2>3
<1>5. UpperZ(b) \in Int /\ c.lo[Z] <= UpperZ(b) /\ UpperZ(b) <= c.up[Z]
  <2>1. /\ b.lo[Z] \in Int /\ b.up[Z] \in Int /\ b.lo[Z] <= b.up[Z]
        /\ c.lo[Z] \in Int /\ c.up[Z] \in Int
        /\ c.lo[Z] <= b.lo[Z] /\ b.up[Z] <= c.up[Z]
    BY <1>1, <1>2
  <2>2. UpperZ(b) = b.lo[Z] \/ UpperZ(b) = b.up[Z]
    BY DEF UpperZ
  <2> QED BY <2>1, <2>2
<1>6. /\ CoB * UpperZ(b) <= CoB * UpperZ(c) /\ CoB * UpperZ(b) \in Int /\ CoB * UpperZ(c) \in Int
  BY <1>5, LinearWithin
<1>7. UpperTerm(c) + CoB * UpperZ(c) <= Rhs
  BY DEF Certain, UpperLhs
<1> DEFINE tb == UpperTerm(b)
           tc == UpperTerm(c)
           zb == CoB * UpperZ(b)
           zc == CoB * UpperZ(c)
<1>8. /\ tb \in Int /\ tc \in Int /\ zb \in Int /\ zc \in Int
      /\ tb <= tc /\ zb <= zc /\ tc + zc <= Rhs
  BY <1>3, <1>4, <1>6, <1>7
<1>9. tb + zb <= Rhs
  <2> HIDE DEF tb, tc, zb, zc
  <2> QED BY ONLY <1>1, <1>8
<1> QED BY <1>9 DEF Certain, UpperLhs

\* Where it is certain, all values within the bounds satisfy it.
LEMMA CertainHolds ==
    ASSUME NonlinearStarts, NonlinearStart, NEW b \in Bounds, Certain(b),
           NEW a \in [Vars -> Int], \A v \in Vars : a[v] \in b.lo[v]..b.up[v]
    PROVE  Holds(a)
<1>1. /\ X \in Vars /\ Y \in Vars /\ Z \in Vars /\ Rhs \in Int /\ CoA \in Int
  BY StartTypes
<1>2. \A v \in Vars : /\ a[v] \in Int /\ b.lo[v] \in Int /\ b.up[v] \in Int
                      /\ b.lo[v] <= a[v] /\ a[v] <= b.up[v]
  BY DEF Bounds
<1>3. CoA * a[X] * a[Y] <= UpperTerm(b) /\ UpperTerm(b) \in Int
  BY <1>1, <1>2, CornersBound
<1>4. /\ CoB * a[Z] <= CoB * UpperZ(b) /\ CoB * a[Z] \in Int /\ CoB * UpperZ(b) \in Int
  BY <1>1, <1>2, LinearWithin
<1>5. CoA * a[X] * a[Y] \in Int
  BY <1>1, <1>2, ProductSwap
<1>6. UpperTerm(b) + CoB * UpperZ(b) <= Rhs
  BY DEF Certain, UpperLhs
<1> DEFINE t == CoA * a[X] * a[Y]
           u == UpperTerm(b)
           z == CoB * a[Z]
           w == CoB * UpperZ(b)
<1>7. t \in Int /\ u \in Int /\ z \in Int /\ w \in Int /\ t <= u /\ z <= w /\ u + w <= Rhs
  BY <1>3, <1>4, <1>5, <1>6
<1>8. t + z <= Rhs
  <2> HIDE DEF t, u, z, w
  <2> QED BY ONLY <1>1, <1>7
<1> QED BY <1>8 DEF Holds, Lhs

\* What supported bounds mean: a value of the product for the bound of z, and
\* the constraint itself for a total assignment.
LEMMA SupportedMeans ==
    ASSUME NonlinearStarts, NonlinearStart, NEW b \in Bounds, NonEmpty(b), Supported(b)
    PROVE  /\ \E x \in b.lo[X]..b.up[X], y \in b.lo[Y]..b.up[Y] :
                CoA * x * y + CoB * b.up[Z] <= Rhs
           /\ (\A v \in Vars : b.lo[v] = b.up[v]) => Holds(b.lo)
<1>1. LowerTerm(b) \in Corners(b)
  BY CornersBound
<1>2. PICK x \in b.lo[X]..b.up[X], y \in b.lo[Y]..b.up[Y] : LowerTerm(b) = CoA * x * y
  BY <1>1, CornerValues
<1>3. CoA * x * y + CoB * b.up[Z] <= Rhs
  BY <1>2 DEF Supported
<1>4. ASSUME \A v \in Vars : b.lo[v] = b.up[v]
      PROVE  Holds(b.lo)
  <2>1. X \in Vars /\ Y \in Vars /\ Z \in Vars
    BY StartTypes
  <2>2. b.lo[X] \in Int /\ b.lo[Y] \in Int /\ b.up[X] = b.lo[X] /\ b.up[Y] = b.lo[Y] /\ b.up[Z] = b.lo[Z]
    BY <1>4, <2>1 DEF Bounds
  <2>3. x = b.lo[X] /\ y = b.lo[Y]
    BY <2>2
  <2> QED BY <1>3, <2>2, <2>3 DEF Holds, Lhs
<1> QED BY <1>3, <1>4

\* The rounded quotient is the largest number that fits.
LEMMA FloorFits ==
    ASSUME NEW n \in Int, NEW m \in Int, m > 0
    PROVE  /\ floordiv(n, m) \in Int
           /\ m * floordiv(n, m) <= n /\ n < m * (floordiv(n, m) + 1)
<1>1. CASE n >= 0
  <2> DEFINE q == n \div m
  <2>1. q \in Int /\ m * q <= n /\ n < m * (q + 1)
    BY <1>1
  <2>2. TruncDiv(n, m) = q
    BY <1>1 DEF TruncDiv
  <2>3. floordiv(n, m) = q
    <3> HIDE DEF q
    <3> QED BY <1>1, <2>2 DEF floordiv
  <2> HIDE DEF q
  <2> QED BY <2>1, <2>3
<1>2. CASE n < 0
  <2> DEFINE q == (-n) \div m
  <2>1. q \in Int /\ m * q <= -n /\ -n < m * (q + 1)
    BY <1>2
  <2>2. TruncDiv(n, m) = -q
    BY <1>2 DEF TruncDiv
  <2> HIDE DEF q
  <2>3. (-q) * m = -(m * q) /\ m * (-q) = -(m * q) /\ m * (-q - 1) = -(m * (q + 1)) /\ m * q \in Int
        /\ m * (q + 1) = m * q + m /\ m * (-q + 1) = -(m * q) + m /\ m * (q + 1) \in Int
    BY <2>1
  <2>4. CASE n = -(m * q)
    <3>1. floordiv(n, m) = -q
      BY <1>2, <2>2, <2>3, <2>4 DEF floordiv
    <3> DEFINE d == m * q
    <3> HIDE DEF d
    <3>2. m * (-q) = -d /\ m * (-q + 1) = -d + m /\ n = -d /\ d \in Int
      BY <2>3, <2>4 DEF d
    <3>3. m * (-q) <= n /\ n < m * (-q + 1)
      BY ONLY <3>2, m > 0, m \in Int
    <3> QED BY <2>1, <3>1, <3>3
  <2>5. CASE n # -(m * q)
    <3>1. floordiv(n, m) = -q - 1
      BY <1>2, <2>2, <2>3, <2>5 DEF floordiv
    <3>2. (-q - 1) + 1 = -q
      BY <2>1
    <3> DEFINE d == m * q
    <3> HIDE DEF d
    <3>3. /\ m * (-q - 1) = -(d + m) /\ m * (-q) = -d /\ d \in Int
          /\ d <= -n /\ -n < d + m /\ n # -d
      BY <2>1, <2>3, <2>5 DEF d
    <3>4. m * (-q - 1) <= n /\ n < m * (-q)
      BY ONLY <3>3, m \in Int, n \in Int
    <3> QED BY <2>1, <3>1, <3>2, <3>4
  <2> QED BY <2>4, <2>5
<1> QED BY <1>1, <1>2

-----------------------------------------------------------------------------
(* The invariant.                                                          *)

\* A mark is there because the literal is false, or because the constraint is
\* certain on its level and the later ones.
MarkCertain ==
    inactive > 0 =>
      \/ clit = "false" /\ clitLevel < inactive
      \/ \A l \in inactive..Len(trail) : Certain(trail[l])

\* A level was left for the next one only with supported bounds.
SupportedOrFalse(l) == Supported(trail[l]) \/ (clit = "false" /\ clitLevel < l)
LevelsSupported == \A l \in 1..dl : SupportedOrFalse(l)

\* What makes the next check call propagate, of an active constraint.
Differ(b, c) == LowerDiff(b, c) \union UpperDiff(b, c)
ToPropagate == todo \/ pending # {} \/ Differ(Top, flushed) # {}

\* Unless propagate is going to be called, the bounds it was told are
\* supported.
Propagated ==
    /\ pc = "fixpoint" => Supported(Top) \/ clit = "false"
    /\ pc = "propagate" => ToPropagate \/ clit = "false" \/ inactive > 0 \/ Supported(flushed)

PendingOpen == \A l \in pending : ~TrueIn(l, flushed)

NonlinearInv == HostInv /\ NonlinearStart /\ MarkCertain /\ LevelsSupported /\ Propagated /\ PendingOpen

\* The parts of the invariant depend on bounds only.
LEMMA SameBounds ==
    ASSUME UNCHANGED start, NEW b
    PROVE  /\ \A l \in Nat : trail'[l] = b => /\ Certain(trail[l])' <=> Certain(b)
                                              /\ Supported(trail[l])' <=> Supported(b)
           /\ flushed' = b => (Supported(flushed)' <=> Supported(b))
           /\ Top' = b => (Supported(Top)' <=> Supported(b))
<1>1. X' = X /\ Y' = Y /\ Z' = Z /\ CoA' = CoA /\ CoB' = CoB /\ Rhs' = Rhs
  BY DEF X, Y, Z, CoA, CoB, Rhs
<1>2. ASSUME NEW l \in Nat, trail'[l] = b
      PROVE  /\ Certain(trail[l])' <=> Certain(b)
             /\ Supported(trail[l])' <=> Supported(b)
  BY <1>1, <1>2 DEF Certain, Supported, UpperLhs, LowerTerm, UpperTerm, UpperZ, Corners
<1>3. ASSUME flushed' = b
      PROVE  Supported(flushed)' <=> Supported(b)
  BY <1>1, <1>3 DEF Supported, LowerTerm, Corners
<1>4. ASSUME Top' = b
      PROVE  Supported(Top)' <=> Supported(b)
  BY <1>1, <1>4 DEF Supported, LowerTerm, Corners
<1> QED BY <1>2, <1>3, <1>4

\* Levels that stay are supported as before.
LEMMA LevelKept ==
    ASSUME UNCHANGED start, NEW l \in Nat, SupportedOrFalse(l), trail'[l] = trail[l],
           clit = "false" /\ clitLevel < l => UNCHANGED litVars
    PROVE  SupportedOrFalse(l)'
<1>1. Supported(trail[l])' <=> Supported(trail[l])
  BY SameBounds
<1> QED BY <1>1 DEF SupportedOrFalse, litVars

\* Bounds without a difference are the same.
LEMMA NoDifference ==
    ASSUME NEW b \in Bounds, NEW c \in Bounds, Differ(b, c) = {}
    PROVE  b = c
<1>1. \A v \in Vars : b.lo[v] = c.lo[v] /\ b.up[v] = c.up[v]
  BY DEF Differ, LowerDiff, UpperDiff
<1>2. b.lo = c.lo /\ b.up = c.up
  BY <1>1 DEF Bounds
<1> QED BY <1>2 DEF Bounds

\* A certain constraint with a mark is certain now.
LEMMA MarkTop ==
    ASSUME HostInv, MarkCertain, inactive > 0, clit # "false"
    PROVE  Certain(Top)
<1>1. Len(trail) \in Nat /\ inactive \in Nat /\ inactive \in 0..(dl + 1) /\ dl = Len(trail) - 1
  BY TopFacts DEF HostInv
<1>2. Len(trail) \in inactive..Len(trail)
  BY <1>1
<1> QED BY <1>2 DEF MarkCertain, Top

-----------------------------------------------------------------------------
(* The steps.                                                              *)

\* Attaching.
LEMMA NonlinearInitInv ==
    ASSUME HostStarts, NonlinearStarts, NonlinearInit
    PROVE  NonlinearInv
<1>1. HostInv
  BY HostInitInv DEF NonlinearInit
<1>2. /\ inactive = 0 /\ todo = TRUE /\ pending = {} /\ pc = "propagate" /\ Len(trail) = 1
  BY DEF NonlinearInit, HostInit
<1>3. LevelsSupported
  BY <1>2 DEF LevelsSupported, dl
<1>4. NonlinearStart
  BY DEF NonlinearInit, HostInit, NonlinearStart
<1> QED BY <1>1, <1>2, <1>3, <1>4 DEF NonlinearInv, MarkCertain, Propagated, ToPropagate, PendingOpen

\* A decision leaves a level behind.
LEMMA NonlinearDecideInv ==
    ASSUME NonlinearStarts, NonlinearInv, Decide, UNCHANGED start
    PROVE  NonlinearInv'
<1>1. HostInv /\ NonlinearStart /\ MarkCertain /\ LevelsSupported /\ Propagated /\ PendingOpen
  BY DEF NonlinearInv
<1>2. HostInv'
  BY <1>1, DecideHostInv
<1>3. PICK b : Pushed(b)
  BY <1>1, DecidePushes
<1>4. /\ Len(trail') = Len(trail) + 1 /\ dl' = dl + 1 /\ Top' = b
      /\ \A l \in 1..Len(trail) : trail'[l] = trail[l]
      /\ b \in Bounds /\ NonEmpty(b) /\ Tighter(b, Top)
  BY <1>1, <1>3, PushedTrail DEF Pushed
<1>5. /\ Len(trail) \in Nat /\ Len(trail) > 0 /\ dl = Len(trail) - 1 /\ dl \in Nat /\ Top \in Bounds
      /\ inactive \in Nat /\ inactive \in 0..(dl + 1) /\ clitLevel \in 0..dl /\ NonlinearStart
  BY <1>1, TopFacts DEF HostInv
<1>6. /\ inactive' = inactive /\ flushed' = flushed /\ pending' = pending /\ pc = "fixpoint"
      /\ pc' = "propagate" /\ flushed = Top
      /\ clit = "false" => UNCHANGED litVars
  BY <1>1 DEF Decide, AssignClit, HostInv, FlushOK
<1>7. MarkCertain'
  <2>1. CASE inactive = 0 \/ (clit = "false" /\ clitLevel < inactive)
    BY <1>6, <2>1 DEF MarkCertain, litVars
  <2>2. CASE inactive > 0 /\ \A l \in inactive..Len(trail) : Certain(trail[l])
    <3>1. ASSUME NEW l \in inactive..(Len(trail) + 1)
          PROVE  Certain(trail[l])'
      <4>1. CASE l = Len(trail) + 1
        <5>1. Certain(Top)
          BY <1>5, <2>2 DEF Top
        <5>2. Certain(b)
          BY <1>4, <1>5, <5>1, CertainStays
        <5>3. trail'[l] = b
          BY <1>4, <4>1 DEF Top
        <5> QED BY <1>5, <4>1, <5>2, <5>3, SameBounds
      <4>2. CASE l # Len(trail) + 1
        <5>1. l \in inactive..Len(trail) /\ l \in 1..Len(trail) /\ l \in Nat
          BY <1>5, <2>2, <4>2
        <5> QED BY <1>4, <2>2, <5>1, SameBounds
      <4> QED BY <4>1, <4>2
    <3> QED BY <1>4, <1>6, <3>1 DEF MarkCertain
  <2> QED BY <1>1, <1>5, <2>1, <2>2 DEF MarkCertain
<1>8. Supported(Top) \/ clit = "false"
  BY <1>1, <1>6 DEF Propagated
<1>9. LevelsSupported'
  <2>1. SupportedOrFalse(dl + 1)
    BY <1>5, <1>8 DEF SupportedOrFalse, Top
  <2>2. ASSUME NEW l \in 1..(dl + 1)
        PROVE  SupportedOrFalse(l)'
    <3>1. SupportedOrFalse(l) /\ trail'[l] = trail[l] /\ l \in Nat
      BY <1>1, <1>4, <1>5, <2>1 DEF LevelsSupported
    <3> QED BY <1>6, <3>1, LevelKept
  <2> QED BY <1>4, <2>2 DEF LevelsSupported
<1>10. Propagated'
  <2>1. Supported(flushed)' <=> Supported(Top)
    BY <1>6, SameBounds
  <2>2. clit = "false" => clit' = "false"
    BY <1>6 DEF litVars
  <2> QED BY <1>6, <1>8, <2>1, <2>2 DEF Propagated
<1>11. PendingOpen'
  BY <1>1, <1>6 DEF PendingOpen, TrueIn
<1> QED BY <1>2, <1>7, <1>9, <1>10, <1>11 DEF NonlinearInv, NonlinearStart

\* Unit propagation and delivered literals.
LEMMA NonlinearUnitInv ==
    ASSUME NonlinearStarts, NonlinearInv, UnitPropagate \/ Deliver, UNCHANGED start
    PROVE  NonlinearInv'
<1>1. HostInv /\ NonlinearStart /\ MarkCertain /\ LevelsSupported /\ Propagated /\ PendingOpen
  BY DEF NonlinearInv
<1>2. HostInv' /\ dl' = dl /\ \A l \in 1..dl : trail'[l] = trail[l]
  BY <1>1, UnitHostInv
<1>3. /\ Len(trail) \in Nat /\ Len(trail) > 0 /\ dl = Len(trail) - 1 /\ dl \in Nat
      /\ Top \in Bounds /\ flushed \in Bounds /\ Tighter(Top, flushed)
      /\ inactive \in Nat /\ inactive \in 0..(dl + 1) /\ clitLevel \in 0..dl /\ NonlinearStart
      /\ \A l \in pending : LitOK(l)
  BY <1>1, TopFacts DEF HostInv, FlushOK
<1>4. Top' \in Bounds /\ NonEmpty(Top') /\ Tighter(Top', Top) /\ Len(trail') = Len(trail)
  <2>1. CASE UNCHANGED trail
    BY <1>1, <2>1, TopFacts, TighterOrder DEF Top
  <2>2. CASE \E b : Narrowed(b)
    <3>1. PICK b : Narrowed(b)
      BY <2>2
    <3> QED BY <1>1, <3>1, NarrowedTrail DEF Narrowed
  <2> QED BY <1>1, <2>1, <2>2, UnitNarrows
<1>5. /\ inactive' = inactive /\ flushed' = flushed /\ pc = "propagate"
      /\ pc' \in {"propagate", "conflict", "unsat"} /\ pending' \subseteq pending
      /\ clit = "false" => UNCHANGED litVars
  BY DEF UnitPropagate, Deliver, AssignClit, ConflictPc
<1>5a. todo => todo'
  <2>1. CASE todo' = todo
    BY <2>1
  <2>2. CASE AssignClit(dl)
    BY <2>2, Zenon DEF AssignClit
  <2> QED BY <2>1, <2>2 DEF UnitPropagate, Deliver
<1>6. MarkCertain'
  <2>1. CASE inactive = 0 \/ (clit = "false" /\ clitLevel < inactive)
    BY <1>5, <2>1 DEF MarkCertain, litVars
  <2>2. CASE inactive > 0 /\ \A l \in inactive..Len(trail) : Certain(trail[l])
    <3>1. ASSUME NEW l \in inactive..Len(trail)
          PROVE  Certain(trail[l])'
      <4>1. CASE l = Len(trail)
        <5>1. Certain(Top)
          BY <2>2, <4>1 DEF Top
        <5>2. Certain(Top')
          BY <1>3, <1>4, <5>1, CertainStays
        <5>3. trail'[l] = Top'
          BY <1>4, <4>1 DEF Top
        <5> QED BY <1>3, <4>1, <5>2, <5>3, SameBounds
      <4>2. CASE l # Len(trail)
        <5>1. l \in 1..dl /\ l \in Nat
          BY <1>3, <2>2, <4>2
        <5> QED BY <1>2, <2>2, <5>1, SameBounds
      <4> QED BY <4>1, <4>2
    <3> QED BY <1>4, <1>5, <3>1 DEF MarkCertain
  <2> QED BY <1>1, <1>3, <2>1, <2>2 DEF MarkCertain
<1>7. LevelsSupported'
  <2>1. ASSUME NEW l \in 1..dl
        PROVE  SupportedOrFalse(l)'
    <3>1. SupportedOrFalse(l) /\ trail'[l] = trail[l] /\ l \in Nat
      BY <1>1, <1>2 DEF LevelsSupported
    <3> QED BY <1>5, <3>1, LevelKept
  <2> QED BY <1>2, <2>1 DEF LevelsSupported
<1>8. ASSUME ToPropagate, pc' = "propagate"
      PROVE  ToPropagate'
  <2>1. CASE todo
    BY <1>5a, <2>1 DEF ToPropagate
  <2>2. CASE Differ(Top, flushed) # {}
    <3>1. Differ(Top, flushed) \subseteq Differ(Top', flushed)
      BY <1>3, <1>4, DiffGrows DEF Differ
    <3>2. Differ(Top, flushed)' # {}
      BY <1>5, <2>2, <3>1 DEF Differ, LowerDiff, UpperDiff
    <3> QED BY <3>2 DEF ToPropagate
  <2>3. CASE pending # {}
    <3>1. CASE UnitPropagate
      BY <2>3, <3>1 DEF UnitPropagate, ToPropagate
    <3>2. CASE Deliver
      <4>1. PICK l \in pending : /\ ~FalseIn(l, Top)
                                 /\ trail' = IF TrueIn(l, Top) THEN trail
                                             ELSE [trail EXCEPT ![Len(trail)] = Tightened(@, l)]
        BY <1>8, <3>2 DEF Deliver, ConflictPc
      <4>2. LitOK(l) /\ ~TrueIn(l, flushed)
        BY <1>1, <1>3 DEF PendingOpen
      <4>3. TrueIn(l, Top')
        <5>1. CASE TrueIn(l, Top)
          BY <4>1, <5>1 DEF Top
        <5>2. CASE ~TrueIn(l, Top)
          <6>1. trail' = [trail EXCEPT ![Len(trail)] = Tightened(Top, l)]
            BY <4>1, <5>2 DEF Top
          <6>2. Top' = Tightened(Top, l)
            <7>1. Narrowed(Tightened(Top, l))
              BY <1>1, <4>1, <4>2, <5>2, <6>1, TopFacts, TightenedBounds DEF Narrowed, LitOK
            <7> QED BY <1>1, <7>1, NarrowedTrail
          <6>3. l.var \in Vars /\ l.value \in Int /\ Top.lo \in [Vars -> Int] /\ Top.up \in [Vars -> Int]
            BY <1>3, <4>2 DEF LitOK, Bounds
          <6>4. TrueIn(l, Tightened(Top, l))
            BY <1>3, <6>3 DEF TrueIn, Tightened, Bounds
          <6> QED BY <6>2, <6>4
        <5> QED BY <5>1, <5>2
      <4>4. Differ(Top', flushed) # {}
        BY <1>3, <1>4, <4>2, <4>3, NoDifference
      <4>5. Differ(Top, flushed)' # {}
        BY <1>5, <4>4 DEF Differ, LowerDiff, UpperDiff
      <4> QED BY <4>5 DEF ToPropagate
    <3> QED BY <3>1, <3>2
  <2> QED BY <1>8, <2>1, <2>2, <2>3 DEF ToPropagate
<1>9. Propagated'
  <2>1. Supported(flushed)' <=> Supported(flushed)
    BY <1>5, SameBounds
  <2>2. clit = "false" => clit' = "false"
    BY <1>5 DEF litVars
  <2>3. ToPropagate \/ clit = "false" \/ inactive > 0 \/ Supported(flushed)
    BY <1>1, <1>5 DEF Propagated
  <2> QED BY <1>5, <1>8, <2>1, <2>2, <2>3 DEF Propagated
<1>10. PendingOpen'
  BY <1>1, <1>5 DEF PendingOpen, TrueIn
<1> QED BY <1>2, <1>6, <1>7, <1>9, <1>10 DEF NonlinearInv, NonlinearStart

\* A check that does not call propagate.
LEMMA NonlinearIdleInv ==
    ASSUME NonlinearStarts, NonlinearInv, CheckIdle \/ CheckFalse, UNCHANGED start
    PROVE  NonlinearInv'
<1>1. HostInv /\ NonlinearStart /\ MarkCertain /\ LevelsSupported /\ Propagated /\ PendingOpen
  BY DEF NonlinearInv
<1>2. /\ HostInv'
      /\ inactive' = inactive \/ (inactive = 0 /\ inactive' = dl + 1 /\ clit = "false")
  BY <1>1, IdleHostInv
<1>3. /\ Len(trail) \in Nat /\ Len(trail) > 0 /\ dl = Len(trail) - 1 /\ dl \in Nat
      /\ Top \in Bounds /\ NonEmpty(Top) /\ flushed \in Bounds
      /\ inactive \in Nat /\ inactive \in 0..(dl + 1) /\ clitLevel \in 0..dl /\ NonlinearStart
  BY <1>1, TopFacts DEF HostInv
<1>4. /\ trail' = trail /\ flushed' = Top /\ pending' = pending /\ pending = {}
      /\ UNCHANGED litVars /\ clit' = clit /\ pc = "propagate" /\ pc' = "fixpoint" /\ Top' = Top
  BY DEF CheckIdle, CheckFalse, CheckStart, FlushBounds, litVars, Top
<1>5. MarkCertain'
  <2>1. CASE clit = "false" /\ inactive = 0
    BY <1>2, <1>3, <1>4, <2>1 DEF MarkCertain, litVars
  <2>2. CASE inactive > 0 /\ clit = "false" /\ clitLevel < inactive
    BY <1>2, <1>3, <1>4, <2>2 DEF MarkCertain, litVars
  <2>3. CASE inactive > 0 /\ \A l \in inactive..Len(trail) : Certain(trail[l])
    <3>1. \A l \in inactive..Len(trail) : Certain(trail[l])'
      BY <1>3, <1>4, <2>3, SameBounds
    <3> QED BY <1>2, <1>3, <1>4, <2>3, <3>1 DEF MarkCertain
  <2>4. CASE inactive = 0 /\ clit # "false"
    BY <1>2, <1>4, <2>4 DEF MarkCertain
  <2> QED BY <1>1, <1>3, <2>1, <2>2, <2>3, <2>4 DEF MarkCertain
<1>6. LevelsSupported'
  <2>1. ASSUME NEW l \in 1..dl
        PROVE  SupportedOrFalse(l)'
    <3>1. SupportedOrFalse(l) /\ trail'[l] = trail[l] /\ l \in Nat
      BY <1>1, <1>4 DEF LevelsSupported
    <3> QED BY <1>4, <3>1, LevelKept
  <2> QED BY <1>4, <2>1 DEF LevelsSupported, dl
<1>7. Supported(Top) \/ clit = "false"
  <2>1. CASE inactive > 0 /\ clit # "false"
    BY <1>1, <1>3, <2>1, MarkTop, CertainSupported
  <2>2. CASE inactive = 0 /\ clit # "false"
    <3>1. ~todo /\ ToldLower \union ToldUpper = {}
      BY <2>2 DEF CheckIdle, CheckFalse, Enqueued
    <3>2. Differ(Top, flushed) = {}
      BY <2>2, <3>1 DEF ToldLower, ToldUpper, Removable, Differ
    <3>3. Top = flushed
      BY <1>3, <3>2, NoDifference
    <3>4. Supported(flushed)
      BY <1>1, <1>4, <2>2, <3>1, <3>2 DEF Propagated, ToPropagate
    <3> QED BY <3>3, <3>4
  <2> QED BY <1>3, <2>1, <2>2
<1>8. Propagated'
  <2>1. Supported(Top)' <=> Supported(Top)
    BY <1>4, SameBounds
  <2> QED BY <1>4, <1>7, <2>1 DEF Propagated
<1>9. PendingOpen'
  BY <1>4 DEF PendingOpen
<1> QED BY <1>2, <1>5, <1>6, <1>8, <1>9 DEF NonlinearInv, NonlinearStart

\* The literals of a clause over the product.
LEMMA ReasonXYFalse ==
    ASSUME NonlinearStarts, NonlinearStart, HostInv
    PROVE  \A l \in ReasonXY : FalseIn(l, Top) /\ LitOK(l)
<1>1. X \in Vars /\ Y \in Vars /\ Top \in Bounds
  BY StartTypes, TopFacts DEF HostInv
<1>2. ASSUME NEW v \in Vars
      PROVE  \A l \in {GT(v, Top.up[v]), LE(v, Top.lo[v] - 1)} : FalseIn(l, Top) /\ LitOK(l)
  <2>1. Top.lo[v] \in Int /\ Top.up[v] \in Int
    BY <1>1 DEF Bounds
  <2> QED BY <2>1 DEF FalseIn, LitOK, GT, LE, OrderLit
<1> QED BY <1>1, <1>2 DEF ReasonXY

\* And that of the clause for z.
LEMMA ReasonZFalse ==
    ASSUME NonlinearStarts, NonlinearStart, HostInv
    PROVE  \A l \in ReasonZ : FalseIn(l, Top) /\ LitOK(l)
<1>1. Z \in Vars /\ Top \in Bounds
  BY StartTypes, TopFacts DEF HostInv
<1>2. Top.lo[Z] \in Int /\ Top.up[Z] \in Int
  BY <1>1 DEF Bounds
<1> QED BY <1>1, <1>2 DEF ReasonZ, FalseIn, LitOK, GT, LE, OrderLit

\* The new bound of z is an integer.
LEMMA BoundZType ==
    ASSUME NonlinearStarts, NonlinearStart, HostInv
    PROVE  CoB # 0 => BoundZ \in Int
<1>1. /\ CoB \in Int /\ Rhs \in Int /\ LowerTerm(Top) \in Int
  BY StartTypes, CornersBound, TopFacts DEF HostInv
<1> DEFINE n == Rhs - LowerTerm(Top)
<1>2. n \in Int
  BY <1>1
<1> HIDE DEF n
<1>3. ASSUME CoB # 0
      PROVE  TruncDiv(n, CoB) \in Int
  <2> DEFINE abs(i) == IF i < 0 THEN -i ELSE i
             q == abs(n) \div abs(CoB)
  <2>1. abs(n) \in Int /\ abs(CoB) \in Int /\ abs(CoB) > 0
    BY <1>1, <1>2, <1>3
  <2>2. q \in Int
    <3> HIDE DEF abs
    <3> QED BY <2>1
  <2>3. TruncDiv(n, CoB) \in {q, -q}
    BY DEF TruncDiv
  <2> QED BY <2>2, <2>3
<1>4. BoundZ = IF CoB > 0 THEN floordiv(n, CoB) ELSE ceildiv(n, CoB)
  BY DEF BoundZ, n
<1> QED BY <1>3, <1>4 DEF floordiv, ceildiv

\* All literals are over the variables.
LEMMA NonlinearClauseLits ==
    ASSUME NonlinearStarts, NonlinearStart, HostInv
    PROVE  \A c \in NonlinearClauses : \A l \in c.lits : LitOK(l)
<1>1. /\ \A l \in ReasonXY : LitOK(l)
      /\ \A l \in ReasonZ : LitOK(l)
  BY ReasonXYFalse, ReasonZFalse
<1>2. Z \in Vars /\ CoB \in Int
  BY StartTypes DEF HostInv
<1>3. CoB # 0 => LitOK(LE(Z, BoundZ)) /\ LitOK(GT(Z, BoundZ - 1))
  BY <1>2, BoundZType DEF LitOK, LE, GT, OrderLit
<1>4. \A c \in TightenZ : \A l \in c.lits : LitOK(l)
  BY <1>1, <1>2, <1>3 DEF TightenZ, Unguarded, Clause
<1> QED BY <1>1, <1>4 DEF NonlinearClauses, Unguarded, Clause

\* Once the clauses are added and no literal is left to deliver, bounds are
\* supported.
LEMMA AddedSupported ==
    ASSUME NonlinearStarts, NonlinearStart, HostInv, AddClauses(NonlinearClauses), pending' = {}
    PROVE  Supported(Top)
<1>1. /\ X \in Vars /\ Y \in Vars /\ Z \in Vars /\ CoB \in Int /\ Rhs \in Int
      /\ Top \in Bounds /\ NonEmpty(Top) /\ LowerTerm(Top) \in Int
  BY StartTypes, TopFacts, CornersBound DEF HostInv
<1>2. Top.lo[Z] \in Int /\ Top.up[Z] \in Int /\ Top.lo[Z] <= Top.up[Z]
  BY <1>1 DEF Bounds, NonEmpty
<1>3. \A l \in ReasonXY : FalseIn(l, Top)
  BY ReasonXYFalse
<1>4. \A l \in ReasonZ : FalseIn(l, Top)
  BY ReasonZFalse
<1>5. /\ ~Conflicting(NonlinearClauses)
      /\ \A l \in Units(NonlinearClauses) : TrueIn(l, Top)
  BY DEF AddClauses
<1>6. LowerLhs(Top) <= Rhs
  <2>1. SUFFICES ASSUME LowerLhs(Top) > Rhs PROVE FALSE
    <3>1. CoB * LowerZ(Top) \in Int
      BY <1>1, <1>2, LinearWithin DEF HostInv
    <3> QED BY <1>1, <2>1, <3>1 DEF LowerLhs
  <2>2. Unguarded(ReasonXY \union ReasonZ) \in NonlinearClauses
    BY <2>1 DEF NonlinearClauses
  <2>3. OpenPart(Unguarded(ReasonXY \union ReasonZ)) = {}
    BY <1>3, <1>4 DEF OpenPart, Unguarded, Clause
  <2>4. ~Guarded(Unguarded(ReasonXY \union ReasonZ))
    BY DEF Guarded, Unguarded, Clause
  <2> QED BY <1>5, <2>2, <2>3, <2>4 DEF Conflicting
<1>7. NonlinearClauses = TightenZ
  <2>1. CoB * LowerZ(Top) \in Int
    BY <1>1, <1>2, LinearWithin DEF HostInv
  <2>2. LowerLhs(Top) \in Int
    BY <1>1, <2>1 DEF LowerLhs
  <2> QED BY <1>1, <1>6, <2>2 DEF NonlinearClauses
<1>8. CASE CoB <= 0
  <2>1. CoB * LowerZ(Top) = CoB * Top.up[Z]
    <3>1. CASE CoB < 0
      BY <3>1 DEF LowerZ
    <3>2. CASE CoB = 0
      BY <1>2, <3>2, Product DEF LowerZ
    <3> QED BY <1>1, <1>8, <3>1, <3>2
  <2> QED BY <1>6, <2>1 DEF LowerLhs, Supported
<1>9. CASE CoB > 0
  <2> DEFINE n == Rhs - LowerTerm(Top)
             k == floordiv(n, CoB)
             c == Unguarded(ReasonXY \union {LE(Z, k)})
  <2>1. n \in Int /\ k \in Int /\ CoB * k <= n /\ BoundZ = k
    BY <1>1, <1>9, FloorFits DEF BoundZ
  <2> HIDE DEF n, k
  <2>2. Top.up[Z] <= k
    <3>1. SUFFICES ASSUME k < Top.up[Z] PROVE FALSE
      BY <1>2, <2>1
    <3>2. c \in NonlinearClauses
      <4>1. UpperZ(Top) = Top.up[Z] /\ BoundZ < UpperZ(Top)
        BY <1>1, <1>9, <2>1, <3>1 DEF UpperZ
      <4>2. TightenZ = {Unguarded(ReasonXY \union {LE(Z, BoundZ)})}
        BY <1>9, <4>1 DEF TightenZ
      <4> QED BY <1>7, <2>1, <4>2
    <3>3. ~TrueIn(LE(Z, k), Top)
      BY <1>2, <2>1, <3>1 DEF TrueIn, LE, OrderLit
    <3>4. ~Guarded(c)
      BY DEF Guarded, Unguarded, Clause
    <3>5. CASE FalseIn(LE(Z, k), Top)
      <4>1. OpenPart(c) = {}
        BY <1>3, <3>5 DEF OpenPart, Unguarded, Clause
      <4> QED BY <1>5, <3>2, <3>4, <4>1 DEF Conflicting
    <3>6. CASE ~FalseIn(LE(Z, k), Top)
      <4>1. OpenPart(c) = {LE(Z, k)}
        BY <1>3, <3>6 DEF OpenPart, Unguarded, Clause
      <4>2. Cardinality(OpenPart(c)) = 1
        BY <4>1, FS_Singleton
      <4>3. LE(Z, k) \in Units(NonlinearClauses)
        BY <3>2, <3>4, <4>1, <4>2 DEF Units
      <4> QED BY <1>5, <3>3, <4>3
    <3> QED BY <3>5, <3>6
  <2>3. CoB * Top.up[Z] <= CoB * k /\ CoB * Top.up[Z] \in Int /\ CoB * k \in Int
    BY <1>1, <1>2, <1>9, <2>1, <2>2, Product
  <2>4. CoB * Top.up[Z] <= n
    BY <2>1, <2>3
  <2> QED BY <1>1, <2>3, <2>4 DEF Supported, n
<1> QED BY <1>1, <1>8, <1>9

\* A call of propagate.
LEMMA PropagateNonlinearInv ==
    ASSUME NonlinearStarts, NonlinearInv, PropagateNonlinear, UNCHANGED start
    PROVE  NonlinearInv'
<1>1. HostInv /\ NonlinearStart /\ MarkCertain /\ LevelsSupported /\ Propagated /\ PendingOpen
  BY DEF NonlinearInv
<1>2. /\ CheckPropagate /\ FlushBounds /\ UNCHANGED trail
      /\ clit # "false" /\ pc = "propagate" /\ pending = {}
  BY DEF PropagateNonlinear, CheckPropagate, CheckStart
<1>3. /\ Len(trail) \in Nat /\ Len(trail) > 0 /\ dl = Len(trail) - 1 /\ dl \in Nat
      /\ Top \in Bounds /\ NonEmpty(Top) /\ flushed \in Bounds
      /\ inactive \in Nat /\ inactive \in 0..(dl + 1) /\ clitLevel \in 0..dl /\ NonlinearStart
  BY <1>1, TopFacts DEF HostInv
<1>4. flushed' = Top /\ Top' = Top /\ trail' = trail /\ dl' = dl
  BY <1>2 DEF FlushBounds, Top, dl
<1>5. inactive > 0 => Certain(Top)
  BY <1>1, <1>2, MarkTop
<1>6. LevelsSupported'
  <2>1. ASSUME NEW l \in 1..dl
        PROVE  SupportedOrFalse(l)'
    <3>1. SupportedOrFalse(l) /\ trail'[l] = trail[l] /\ l \in Nat
      BY <1>1, <1>4 DEF LevelsSupported
    <3> QED BY <1>2, <3>1, LevelKept
  <2> QED BY <1>4, <2>1 DEF LevelsSupported
<1>7. Supported(Top)' <=> Supported(Top)
  BY <1>4, SameBounds
<1>8. PICK cs : /\ \A c \in cs : \A l \in c.lits : LitOK(l)
                /\ AddClauses(cs) \/ ClauseFails(cs)
                /\ MarkInactive \/ UNCHANGED inactive
  BY <1>1, NonlinearClauseLits DEF PropagateNonlinear
<1>9. HostInv'
  BY <1>1, <1>2, <1>8, ClausesHostInv
<1>10. CASE Satisfied
  <2>1. AddClauses({}) /\ MarkInactive
    BY <1>10 DEF PropagateNonlinear
  <2>2. Certain(Top)
    BY <1>10 DEF Satisfied, Certain
  <2>3. pending' = {} /\ pc' = "fixpoint"
    BY <2>1 DEF AddClauses, Units
  <2>4. Supported(Top)
    BY <1>3, <2>2, CertainSupported
  <2>5. MarkCertain'
    <3>1. CASE inactive = 0
      <4>1. inactive' = Len(trail)
        BY <1>3, <2>1, <3>1 DEF MarkInactive
      <4>2. Certain(trail[Len(trail)])'
        BY <1>3, <1>4, <2>2, SameBounds DEF Top
      <4> QED BY <1>3, <1>4, <4>1, <4>2 DEF MarkCertain
    <3>2. CASE inactive > 0
      <4>1. inactive' = inactive
        BY <1>3, <2>1, <3>2 DEF MarkInactive
      <4>2. \A l \in inactive..Len(trail) : Certain(trail[l])
        BY <1>1, <1>2, <3>2 DEF MarkCertain
      <4>3. \A l \in inactive..Len(trail) : Certain(trail[l])'
        BY <1>3, <1>4, <4>2, SameBounds
      <4> QED BY <1>4, <4>1, <4>3 DEF MarkCertain
    <3> QED BY <1>3, <3>1, <3>2
  <2>6. Propagated' /\ PendingOpen'
    BY <1>7, <2>3, <2>4 DEF Propagated, PendingOpen
  <2> QED BY <1>6, <1>9, <2>5, <2>6 DEF NonlinearInv, NonlinearStart
<1>11. CASE ~Satisfied
  <2>1. /\ AddClauses(NonlinearClauses) \/ ClauseFails(NonlinearClauses)
        /\ inactive' = inactive
    BY <1>11 DEF PropagateNonlinear
  <2>2. inactive = 0
    BY <1>3, <1>5, <1>11 DEF Satisfied, Certain
  <2>3. MarkCertain'
    BY <2>1, <2>2 DEF MarkCertain
  <2>4. CASE AddClauses(NonlinearClauses)
    <3>1. pending' = {l \in Units(NonlinearClauses) : ~TrueIn(l, Top)}
      BY <2>4 DEF AddClauses
    <3>2. PendingOpen'
      BY <1>4, <3>1 DEF PendingOpen, TrueIn
    <3>3. pc' = IF pending' = {} THEN "fixpoint" ELSE "propagate"
      BY <2>4 DEF AddClauses
    <3>4. pending' = {} => Supported(Top)
      BY <1>1, <2>4, AddedSupported
    <3>5. Propagated'
      BY <1>7, <3>3, <3>4 DEF Propagated, ToPropagate
    <3> QED BY <1>6, <1>9, <2>3, <3>2, <3>5 DEF NonlinearInv, NonlinearStart
  <2>5. CASE ClauseFails(NonlinearClauses)
    <3>1. pc' \in {"conflict", "unsat"} /\ pending' = {}
      BY <1>2, <2>5 DEF ClauseFails, ConflictPc
    <3>2. PendingOpen' /\ Propagated'
      BY <3>1 DEF PendingOpen, Propagated
    <3> QED BY <1>6, <1>9, <2>3, <3>2 DEF NonlinearInv, NonlinearStart
  <2> QED BY <2>1, <2>4, <2>5
<1> QED BY <1>10, <1>11

\* Undoing a level.
LEMMA UndoNonlinearInv ==
    ASSUME NonlinearStarts, NonlinearInv, HostUndo, UNCHANGED start
    PROVE  NonlinearInv'
<1>1. HostInv /\ NonlinearStart /\ MarkCertain /\ LevelsSupported /\ Propagated /\ PendingOpen
  BY DEF NonlinearInv
<1>2. /\ HostInv' /\ dl' = dl - 1 /\ dl > 0 /\ flushed' = Top' /\ Top' = Previous
      /\ inactive' = (IF inactive = dl + 1 THEN 0 ELSE inactive)
      /\ \A l \in 1..dl : trail'[l] = trail[l]
  BY <1>1, UndoHostInv
<1>3. /\ Len(trail) \in Nat /\ Len(trail) > 0 /\ dl = Len(trail) - 1 /\ dl \in Nat
      /\ inactive \in Nat /\ inactive \in 0..(dl + 1) /\ clitLevel \in 0..dl
      /\ Previous = trail[dl]
  BY <1>1, <1>2, TopFacts DEF HostInv
<1>4. /\ clitLevel # dl => UNCHANGED litVars
      /\ clitLevel # dl => clit' = clit /\ clitLevel' = clitLevel
      /\ pending' = {} /\ pc' = "propagate" /\ Len(trail') = dl
  <2>1. Len(trail') = dl
    BY <1>2, <1>3 DEF dl
  <2> QED BY <2>1 DEF HostUndo, litVars
<1>5. ASSUME NEW l \in 1..dl
      PROVE  SupportedOrFalse(l)'
  <2>1. SupportedOrFalse(l) /\ trail'[l] = trail[l] /\ l \in Nat
    BY <1>1, <1>2, <1>5 DEF LevelsSupported
  <2>2. clit = "false" /\ clitLevel < l => UNCHANGED litVars
    BY <1>3, <1>4
  <2> QED BY <2>1, <2>2, LevelKept
<1>6. LevelsSupported'
  BY <1>2, <1>3, <1>5 DEF LevelsSupported
<1>7. Propagated'
  <2>1. SupportedOrFalse(dl)
    BY <1>1, <1>2, <1>3 DEF LevelsSupported
  <2>2. Supported(flushed)' <=> Supported(trail[dl])
    BY <1>2, <1>3, SameBounds
  <2>3. Supported(trail[dl]) \/ clit' = "false"
    BY <1>3, <1>4, <2>1 DEF SupportedOrFalse
  <2> QED BY <1>4, <2>2, <2>3 DEF Propagated
<1>8. MarkCertain'
  <2>1. CASE inactive = dl + 1 \/ inactive = 0
    BY <1>2, <1>3, <2>1 DEF MarkCertain
  <2>2. CASE inactive # dl + 1 /\ inactive > 0
    <3>1. inactive' = inactive /\ inactive <= dl
      BY <1>2, <1>3, <2>2
    <3>2. CASE clit = "false" /\ clitLevel < inactive
      <4>1. clitLevel # dl
        BY <1>3, <3>1, <3>2
      <4> QED BY <1>4, <3>1, <3>2, <4>1 DEF MarkCertain
    <3>3. CASE \A l \in inactive..Len(trail) : Certain(trail[l])
      <4>1. ASSUME NEW l \in inactive..dl
            PROVE  Certain(trail[l])'
        <5>1. l \in 1..dl /\ l \in inactive..Len(trail) /\ l \in Nat
          BY <1>3, <2>2
        <5> QED BY <1>2, <3>3, <5>1, SameBounds
      <4> QED BY <1>4, <3>1, <4>1 DEF MarkCertain
    <3> QED BY <1>1, <2>2, <3>2, <3>3 DEF MarkCertain
  <2> QED BY <1>3, <2>1, <2>2
<1>9. PendingOpen'
  BY <1>4 DEF PendingOpen
<1> QED BY <1>2, <1>6, <1>7, <1>8, <1>9 DEF NonlinearInv, NonlinearStart

-----------------------------------------------------------------------------
(* The theorems about marks and fixpoints.                                 *)

\* Every step keeps the invariant.
LEMMA NonlinearStepInv ==
    ASSUME NonlinearStarts, NonlinearInv, [NonlinearNext]_hostVars
    PROVE  NonlinearInv'
<1>1. CASE UNCHANGED hostVars
  <2>1. UNCHANGED <<start, trail, flushed, clit, clitLevel, inactive, todo, pending, added, pc>>
    BY <1>1 DEF hostVars, litVars
  <2>2. HostInv'
    BY <2>1 DEF NonlinearInv, HostInv, FlushOK, Top, dl, Previous
  <2>3. MarkCertain' /\ PendingOpen'
    BY <2>1 DEF NonlinearInv, MarkCertain, PendingOpen, Certain, UpperLhs, UpperTerm, UpperZ, Corners,
                TrueIn, CoA, CoB, Rhs, X, Y, Z
  <2>4. LevelsSupported'
    BY <2>1 DEF NonlinearInv, LevelsSupported, SupportedOrFalse, Supported, LowerTerm, Corners,
                CoA, CoB, Rhs, X, Y, Z, dl
  <2>5. Propagated'
    BY <2>1 DEF NonlinearInv, Propagated, ToPropagate, Differ, LowerDiff, UpperDiff, Supported, LowerTerm,
                Corners, CoA, CoB, Rhs, X, Y, Z, Top
  <2>6. NonlinearStart'
    BY <2>1 DEF NonlinearInv, NonlinearStart
  <2> QED BY <2>2, <2>3, <2>4, <2>5, <2>6 DEF NonlinearInv
<1>2. CASE NonlinearNext
  <2>1. NonlinearStep /\ UNCHANGED start
    BY <1>2 DEF NonlinearNext
  <2>2. CASE Decide
    BY <2>1, <2>2, NonlinearDecideInv
  <2>3. CASE UnitPropagate \/ Deliver
    BY <2>1, <2>3, NonlinearUnitInv
  <2>4. CASE CheckIdle \/ CheckFalse
    BY <2>1, <2>4, NonlinearIdleInv
  <2>5. CASE PropagateNonlinear
    BY <2>1, <2>5, PropagateNonlinearInv
  <2>6. CASE HostUndo
    BY <2>1, <2>6, UndoNonlinearInv
  <2> QED BY <2>1, <2>2, <2>3, <2>4, <2>5, <2>6 DEF NonlinearStep
<1> QED BY <1>1, <1>2

\* The inductive invariant: a level was left behind only with supported
\* bounds, and where they are not, something makes the next check propagate.
THEOREM NonlinearInvariance ==
    ASSUME HostStarts, NonlinearStarts
    PROVE  NonlinearSpec => []NonlinearInv
<1>1. NonlinearInit => NonlinearInv
  BY NonlinearInitInv
<1>2. NonlinearInv /\ [NonlinearNext]_hostVars => NonlinearInv'
  BY NonlinearStepInv
<1> QED BY <1>1, <1>2, PTL DEF NonlinearSpec

\* The invariant says that constraints marked inactive cannot be violated.
LEMMA InvJustified ==
    ASSUME HostStarts, NonlinearStarts, NonlinearInv
    PROVE  InactiveJustified
<1>1. HostInv /\ NonlinearStart /\ MarkCertain
  BY DEF NonlinearInv
<1>2. /\ Len(trail) \in Nat /\ dl = Len(trail) - 1 /\ inactive \in 0..(dl + 1)
      /\ \A l \in 1..Len(trail) : trail[l] \in Bounds
      /\ NonlinearStart
  BY <1>1, TopFacts DEF HostInv
<1>3. ASSUME inactive > 0, clit # "false", NEW a \in Assignments,
             \A v \in Vars : a[v] \in trail[inactive].lo[v]..trail[inactive].up[v]
      PROVE  Holds(a)
  <2>1. inactive \in 1..Len(trail) /\ inactive \in inactive..Len(trail)
    BY <1>2, <1>3
  <2>2. Certain(trail[inactive]) /\ trail[inactive] \in Bounds
    BY <1>1, <1>2, <1>3, <2>1 DEF MarkCertain
  <2>3. a \in [Vars -> Int]
    <3>1. \A v \in Vars : a[v] \in Int
      BY <1>3, <2>2 DEF Bounds
    <3> QED BY <3>1 DEF Assignments
  <2> QED BY <1>2, <1>3, <2>2, <2>3, CertainHolds
<1> QED BY <1>3 DEF InactiveJustified

\* A constraint is marked inactive only where it cannot be violated, and the
\* mark stays true when levels are undone and new ones opened.
THEOREM MarksJustified ==
    ASSUME HostStarts, NonlinearStarts
    PROVE  NonlinearSpec => []InactiveJustified
<1>1. NonlinearInv => InactiveJustified
  BY InvJustified
<1> QED BY <1>1, NonlinearInvariance, PTL

\* It says that total assignments satisfy the constraint.
LEMMA InvFullCheck ==
    ASSUME HostStarts, NonlinearStarts, NonlinearInv
    PROVE  NonlinearFullCheck
<1>1. HostInv /\ NonlinearStart /\ Propagated
  BY DEF NonlinearInv
<1>2. Top \in Bounds /\ NonEmpty(Top) /\ NonlinearStart
  BY <1>1, TopFacts DEF HostInv
<1>3. ASSUME pc = "fixpoint", clit = "true", AllAssigned
      PROVE  Holds(Top.lo)
  <2>1. Supported(Top)
    BY <1>1, <1>3 DEF Propagated
  <2>2. \A v \in Vars : Top.lo[v] = Top.up[v]
    BY <1>3 DEF AllAssigned
  <2> QED BY <1>2, <2>1, <2>2, SupportedMeans
<1> QED BY <1>3 DEF NonlinearFullCheck

\* What check_full asserts: a total assignment with a true literal satisfies
\* the constraint when clasp may decide.
THEOREM FullChecksSucceed ==
    ASSUME HostStarts, NonlinearStarts
    PROVE  NonlinearSpec => []NonlinearFullCheck
<1>1. NonlinearInv => NonlinearFullCheck
  BY InvFullCheck
<1> QED BY <1>1, NonlinearInvariance, PTL

\* It says that the bounds of z are supported.
LEMMA InvSupported ==
    ASSUME HostStarts, NonlinearStarts, NonlinearInv
    PROVE  BoundsOfZSupported
<1>1. HostInv /\ NonlinearStart /\ Propagated
  BY DEF NonlinearInv
<1>2. Top \in Bounds /\ NonEmpty(Top) /\ NonlinearStart
  BY <1>1, TopFacts DEF HostInv
<1>3. ASSUME pc = "fixpoint", clit = "true"
      PROVE  \E x \in Top.lo[X]..Top.up[X], y \in Top.lo[Y]..Top.up[Y] :
               CoA * x * y + CoB * Top.up[Z] <= Rhs
  <2>1. Supported(Top)
    BY <1>1, <1>3 DEF Propagated
  <2> QED BY <1>2, <2>1, SupportedMeans
<1> QED BY <1>3 DEF BoundsOfZSupported

\* No propagation of an upper bound of z is missed.
THEOREM UpperBoundsSupported ==
    ASSUME HostStarts, NonlinearStarts
    PROVE  NonlinearSpec => []BoundsOfZSupported
<1>1. NonlinearInv => BoundsOfZSupported
  BY InvSupported
<1> QED BY <1>1, NonlinearInvariance, PTL

-----------------------------------------------------------------------------
(* The clauses follow from the constraint.                                 *)

\* Lower bounds of z come from ceildiv, which rounds twice.
NoCeiling == \A s \in Starts : s.kind = "nonlinear" => s.co_b >= 0

\* What falsifies a clause over x and y is within their bounds.
LEMMA ReasonWithin ==
    ASSUME NonlinearStarts, NonlinearStart, Top \in Bounds, NEW a \in [Vars -> Int],
           \A l \in ReasonXY : ~HoldsFor(l, a)
    PROVE  LowerTerm(Top) <= CoA * a[X] * a[Y] /\ CoA * a[X] * a[Y] \in Int
<1>1. X \in Vars /\ Y \in Vars /\ CoA \in Int
  BY StartTypes
<1>2. ASSUME NEW v \in {X, Y}
      PROVE  a[v] \in Int /\ Top.lo[v] <= a[v] /\ a[v] <= Top.up[v]
  <2>1. Top.lo[v] \in Int /\ Top.up[v] \in Int /\ a[v] \in Int
    BY <1>1 DEF Bounds
  <2>2. GT(v, Top.up[v]) \in ReasonXY /\ LE(v, Top.lo[v] - 1) \in ReasonXY
    BY DEF ReasonXY
  <2>3. ~(a[v] > Top.up[v]) /\ ~(a[v] <= Top.lo[v] - 1)
    BY <2>2 DEF HoldsFor, GT, LE, OrderLit
  <2> QED BY <2>1, <2>3
<1>3. LowerTerm(Top) <= CoA * a[X] * a[Y]
  BY <1>2, CornersBound
<1>4. CoA * a[X] * a[Y] \in Int
  BY <1>1, <1>2, ProductSwap
<1> QED BY <1>3, <1>4

\* Every clause of a call of propagate follows.
LEMMA NonlinearClausesEntail ==
    ASSUME NonlinearStarts, NoCeiling, NonlinearStart, HostInv, NEW c \in NonlinearClauses,
           NEW a \in [Vars -> Int], Holds(a), \A l \in c.lits : ~HoldsFor(l, a)
    PROVE  FALSE
<1>1. /\ X \in Vars /\ Y \in Vars /\ Z \in Vars /\ CoB \in Int /\ Rhs \in Int
      /\ Top \in Bounds /\ NonEmpty(Top) /\ LowerTerm(Top) \in Int /\ NonlinearStart
  BY StartTypes, TopFacts, CornersBound DEF HostInv
<1>2. CoB >= 0
  BY <1>1 DEF NoCeiling, CoB, NonlinearStart
<1>3. Top.lo[Z] \in Int /\ Top.up[Z] \in Int /\ Top.lo[Z] <= Top.up[Z] /\ a[Z] \in Int
  BY <1>1 DEF Bounds, NonEmpty
<1>4. ReasonXY \subseteq c.lits
  BY DEF NonlinearClauses, TightenZ, Unguarded, Clause
<1>5. LowerTerm(Top) <= CoA * a[X] * a[Y] /\ CoA * a[X] * a[Y] \in Int
  BY <1>1, <1>4, ReasonWithin
<1>6. CoB * a[Z] \in Int /\ CoB * Top.lo[Z] \in Int
  BY <1>1, <1>3, Product
<1>7. LowerTerm(Top) + CoB * a[Z] <= Rhs
  <2> DEFINE t == CoA * a[X] * a[Y]
             z == CoB * a[Z]
  <2>1. t + z <= Rhs /\ LowerTerm(Top) <= t /\ t \in Int /\ z \in Int
    BY <1>5, <1>6 DEF Holds, Lhs
  <2>2. LowerTerm(Top) + z <= Rhs
    <3> HIDE DEF t, z
    <3> QED BY ONLY <1>1, <2>1
  <2> QED BY <2>2
<1>8. CASE LowerLhs(Top) > Rhs
  <2>1. c.lits = ReasonXY \union ReasonZ
    BY <1>8 DEF NonlinearClauses, Unguarded, Clause
  <2>2. CoB * Top.lo[Z] <= CoB * a[Z]
    <3>1. CASE CoB = 0
      BY <1>3, <3>1, Product
    <3>2. CASE CoB > 0
      <4>1. LE(Z, Top.lo[Z] - 1) \in c.lits
        BY <1>1, <2>1, <3>2 DEF ReasonZ
      <4>2. ~(a[Z] <= Top.lo[Z] - 1)
        BY <4>1 DEF HoldsFor, LE, OrderLit
      <4> QED BY <1>1, <1>3, <3>2, <4>2, Product
    <3> QED BY <1>1, <1>2, <3>1, <3>2
  <2>3. LowerZ(Top) = Top.lo[Z]
    BY <1>1, <1>2 DEF LowerZ
  <2>4. LowerTerm(Top) + CoB * Top.lo[Z] > Rhs
    BY <1>8, <2>3 DEF LowerLhs
  <2> QED BY <1>1, <1>6, <1>7, <2>2, <2>4
<1>9. CASE ~(LowerLhs(Top) > Rhs)
  <2>1. c \in TightenZ
    BY <1>9 DEF NonlinearClauses
  <2>2. CoB > 0 /\ c = Unguarded(ReasonXY \union {LE(Z, BoundZ)})
    BY <1>1, <1>2, <2>1 DEF TightenZ
  <2>3. LE(Z, BoundZ) \in c.lits
    BY <2>2 DEF Unguarded, Clause
  <2> DEFINE n == Rhs - LowerTerm(Top)
             k == floordiv(n, CoB)
  <2>4. n \in Int /\ k \in Int /\ n < CoB * (k + 1) /\ BoundZ = k
    <3>1. BoundZ = k
      BY <2>2 DEF BoundZ
    <3>2. n \in Int
      BY <1>1
    <3> HIDE DEF n
    <3>3. floordiv(n, CoB) \in Int /\ n < CoB * (floordiv(n, CoB) + 1)
      BY <1>1, <2>2, <3>2, FloorFits
    <3> QED BY <3>1, <3>2, <3>3
  <2> HIDE DEF n, k
  <2>5. ~(a[Z] <= k)
    BY <2>3, <2>4 DEF HoldsFor, LE, OrderLit
  <2>6. k + 1 <= a[Z] /\ k + 1 \in Int
    BY <1>3, <2>4, <2>5
  <2>7. CoB * (k + 1) <= CoB * a[Z] /\ CoB * (k + 1) \in Int
    BY <1>1, <1>3, <2>2, <2>6, Product
  <2>8. CoB * a[Z] <= n
    BY <1>1, <1>6, <1>7 DEF n
  <2> QED BY <1>6, <2>4, <2>7, <2>8
<1> QED BY <1>8, <1>9

\* What is added in a step follows from the constraint.
LEMMA NonlinearStepClauses ==
    ASSUME NonlinearStarts, NoCeiling, NonlinearInv, NonlinearClausesEntailed, [NonlinearNext]_hostVars
    PROVE  NonlinearClausesEntailed'
<1>1. HostInv /\ NonlinearStart
  BY DEF NonlinearInv
<1>2. CASE UNCHANGED hostVars
  BY <1>2 DEF hostVars, NonlinearClausesEntailed, EntailedBy, Assignments, Holds, Lhs,
              CoA, CoB, Rhs, X, Y, Z
<1>3. CASE NonlinearNext
  <2>1. start' = start
    BY <1>3 DEF NonlinearNext
  <2>2. CASE PropagateNonlinear
    <3>1. added' \subseteq NonlinearClauses
      BY <2>2 DEF PropagateNonlinear, AddClauses, ClauseFails
    <3>2. ASSUME NEW c \in added', NEW a \in Assignments, Holds(a)
          PROVE  \E l \in c.lits : HoldsFor(l, a)
      <4>1. a \in [Vars -> Int]
        BY DEF Assignments
      <4> QED BY <1>1, <3>1, <3>2, <4>1, NonlinearClausesEntail
    <3>3. Assignments' = Assignments /\ \A a : Holds(a)' <=> Holds(a)
      BY <2>1 DEF Assignments, Holds, Lhs, CoA, CoB, Rhs, X, Y, Z
    <3> QED BY <3>2, <3>3 DEF NonlinearClausesEntailed, EntailedBy
  <2>3. CASE ~PropagateNonlinear
    <3>1. added' = {}
      BY <1>3, <2>3 DEF NonlinearNext, NonlinearStep, Decide, UnitPropagate, Deliver, CheckIdle, CheckFalse, HostUndo
    <3> QED BY <3>1 DEF NonlinearClausesEntailed
  <2> QED BY <2>2, <2>3
<1> QED BY <1>2, <1>3

\* Clauses for upper bounds of z and for products that are too large follow
\* from the constraint, for linear terms with a coefficient that is not
\* negative (for the others the run nonlinear_ceil shows one that does not).
THEOREM NonlinearClausesFollow ==
    ASSUME HostStarts, NonlinearStarts, NoCeiling
    PROVE  NonlinearSpec => []NonlinearClausesEntailed
<1>1. NonlinearInit => NonlinearClausesEntailed
  BY DEF NonlinearInit, HostInit, NonlinearClausesEntailed
<1>2. NonlinearInv /\ NonlinearClausesEntailed /\ [NonlinearNext]_hostVars => NonlinearClausesEntailed'
  BY NonlinearStepClauses
<1> QED BY <1>1, <1>2, NonlinearInvariance, PTL DEF NonlinearSpec

-----------------------------------------------------------------------------
(* Intervals that do not overlap fit into a range only if their lengths    *)
(* add up to its length at most.                                           *)

\* The weights of the members of S.
WeightsIn(n, w, S) == [i \in 1..n |-> IF i \in S THEN w[i] ELSE 0]

\* They are integers.
LEMMA WeightsType ==
    ASSUME NEW n \in Nat, NEW w \in [1..n -> Nat], NEW S
    PROVE  /\ WeightsIn(n, w, S) \in [1..n -> Int]
           /\ \A i \in 1..n : WeightsIn(n, w, S)[i] = IF i \in S THEN w[i] ELSE 0
           /\ Sum(n, WeightsIn(n, w, S)) \in Int
<1>1. /\ WeightsIn(n, w, S) \in [1..n -> Int]
      /\ \A i \in 1..n : WeightsIn(n, w, S)[i] = IF i \in S THEN w[i] ELSE 0
  BY DEF WeightsIn
<1> QED BY <1>1, SumType

\* More members weigh at least as much.
LEMMA WeightsGrow ==
    ASSUME NEW n \in Nat, NEW w \in [1..n -> Nat], NEW S, NEW T, S \subseteq T
    PROVE  Sum(n, WeightsIn(n, w, S)) <= Sum(n, WeightsIn(n, w, T))
<1>1. \A i \in 1..n : WeightsIn(n, w, S)[i] <= WeightsIn(n, w, T)[i]
  <2>1. \A i \in 1..n : w[i] \in Nat
    OBVIOUS
  <2> QED BY <2>1 DEF WeightsIn
<1> QED BY <1>1, WeightsType, SumMonotone

\* The intervals of S, of lengths w from s on, do not overlap.
NoOverlap(S, s, w) == \A i, j \in S : i # j => s[i] + w[i] <= s[j] \/ s[j] + w[j] <= s[i]

\* The intervals that end early enough weigh no more than the range up to
\* there, by induction over its end: one interval at most ends at the end of
\* the range, and the others end before it begins.
LEMMA Packing ==
    ASSUME NEW n \in Nat, NEW w \in [1..n -> Nat], NEW s \in [1..n -> Int], NEW S \in SUBSET (1..n),
           NEW a \in Int, NEW b \in Int, a <= b,
           \A i \in S : w[i] > 0 /\ a <= s[i] /\ s[i] + w[i] <= b,
           NoOverlap(S, s, w)
    PROVE  Sum(n, WeightsIn(n, w, S)) <= b - a
<1> DEFINE T(k) == {i \in S : s[i] + w[i] <= a + k}
           Weighs(k) == Sum(n, WeightsIn(n, w, T(k)))
           Bad == {k \in Nat : ~(Weighs(k) <= k)}
<1>1. \A i \in S : i \in 1..n /\ w[i] \in Nat /\ w[i] > 0 /\ s[i] \in Int /\ a <= s[i] /\ s[i] + w[i] <= b
  OBVIOUS
<1>2. \A k : Weighs(k) \in Int
  BY WeightsType
<1>3. Bad = {}
  <2> HIDE DEF Weighs
  <2>1. SUFFICES ASSUME Bad # {} PROVE FALSE
    OBVIOUS
  <2>2. PICK k \in Bad : \A m \in Bad : k <= m
    <3>1. Bad \subseteq Nat
      OBVIOUS
    <3> HIDE DEF Bad
    <3> QED BY <3>1, <2>1, LeastNatural
  <2>3. k \in Nat /\ ~(Weighs(k) <= k) /\ \A m \in Nat : m < k => Weighs(m) <= m
    BY <2>2
  <2>0. k \in Nat /\ a \in Int
    BY <2>3
  <2> HIDE DEF Bad
  <2>4. CASE \E i \in S : s[i] + w[i] = a + k
    <3>1. PICK e \in S : s[e] + w[e] = a + k
      BY <2>4
    <3> DEFINE m == k - w[e]
    <3>2. e \in 1..n /\ w[e] \in Nat /\ w[e] > 0 /\ s[e] \in Int /\ a <= s[e]
      BY <1>1
    <3>3. m \in Nat /\ m < k /\ a + m = s[e]
      <4>1. ASSUME NEW x, NEW y, x = s[e], y = w[e]
            PROVE  k - y \in Nat /\ k - y < k /\ a + (k - y) = x
        <5>1. x \in Int /\ y \in Nat /\ y > 0 /\ a <= x /\ x + y = a + k
          BY <3>1, <3>2, <4>1
        <5> QED BY ONLY <2>0, <5>1
      <4> QED BY <4>1
    <3> HIDE DEF m, T
    <3>4. e \notin T(m)
      BY <3>1, <3>2, <3>3, <2>0 DEF T
    <3>5. ASSUME NEW i \in 1..n
          PROVE  i \in T(k) <=> i \in T(m) \/ i = e
      <4>1. CASE i \in S /\ i # e
        <5>1. w[i] > 0 /\ w[i] \in Nat /\ s[i] \in Int
          BY <1>1, <4>1
        <5>2. s[i] + w[i] <= s[e] \/ s[e] + w[e] <= s[i]
          BY <4>1 DEF NoOverlap
        <5>3. s[i] + w[i] <= a + k <=> s[i] + w[i] <= a + m
          BY <5>1, <5>2, <3>1, <3>2, <3>3, <2>3
        <5> QED BY <5>3, <4>1 DEF T
      <4>2. CASE i = e
        BY <3>1, <3>2, <2>0, <4>2 DEF T
      <4>3. CASE i \notin S
        BY <3>1, <4>3 DEF T
      <4> QED BY <4>1, <4>2, <4>3
    <3>6. Weighs(k) = Weighs(m) + w[e]
      <4> DEFINE f == WeightsIn(n, w, T(m))
                 g == WeightsIn(n, w, T(k))
      <4>1. /\ f \in [1..n -> Int] /\ g \in [1..n -> Int]
            /\ \A i \in 1..n : f[i] = IF i \in T(m) THEN w[i] ELSE 0
            /\ \A i \in 1..n : g[i] = IF i \in T(k) THEN w[i] ELSE 0
        BY WeightsType
      <4> HIDE DEF f, g
      <4>2. e \in T(k)
        BY <3>2, <3>5
      <4>3. /\ f[e] = 0 /\ g[e] = w[e]
            /\ \A i \in 1..n : i # e => f[i] = g[i]
        BY <3>2, <3>4, <3>5, <4>1, <4>2
      <4>4. Sum(n, g) = Sum(n, f) + (g[e] - f[e])
        <5>1. f \in [1..n -> Int] /\ g \in [1..n -> Int] /\ e \in 1..n /\ n \in Nat
          BY <3>2, <4>1
        <5>2. \A i \in 1..n : i # e => f[i] = g[i]
          BY <4>3
        <5> QED BY ONLY <5>1, <5>2, SumChange
      <4>5. Sum(n, f) \in Int
        BY <4>1, SumType
      <4> QED BY <3>2, <4>3, <4>4, <4>5 DEF f, g, Weighs
    <3>7. Weighs(m) <= m /\ Weighs(m) \in Int
      BY <1>2, <2>3, <3>3
    <3>8. k = m + w[e]
      BY <2>3, <3>2 DEF m
    <3> QED BY <2>3, <3>2, <3>3, <3>6, <3>7, <3>8
  <2>5. CASE ~\E i \in S : s[i] + w[i] = a + k
    <3>1. CASE k = 0
      <4>1. T(k) = {}
        <5>1. ASSUME NEW i \in T(k) PROVE FALSE
          <6>1. i \in S /\ s[i] + w[i] <= a + 0
            BY <3>1
          <6> QED BY <1>1, <6>1
        <5> QED BY <5>1
      <4>2. Weighs(k) = 0
        <5> DEFINE f == WeightsIn(n, w, {})
        <5>1. f \in [1..n -> Int]
          BY WeightsType
        <5>2. \A i \in 1..n : f[i] = 0
          BY DEF WeightsIn
        <5>3. Sum(n, f) = 0
          <6> HIDE DEF f
          <6> QED BY <5>1, <5>2, SumZero
        <5> QED BY <4>1, <5>3 DEF Weighs
      <4> QED BY <2>3, <3>1, <4>2
    <3>2. CASE k # 0
      <4>1. k - 1 \in Nat /\ k - 1 < k
        BY <2>3, <3>2
      <4>2. T(k) = T(k - 1)
        <5>1. ASSUME NEW i \in S
              PROVE  s[i] + w[i] <= a + k <=> s[i] + w[i] <= a + (k - 1)
          <6>1. s[i] + w[i] # a + k /\ s[i] \in Int /\ w[i] \in Nat
            BY <1>1, <2>5
          <6>2. \A x, i2, j \in Int : x # i2 + j => (x <= i2 + j <=> x <= i2 + (j - 1))
            OBVIOUS
          <6>3. s[i] + w[i] \in Int /\ k \in Int
            BY <6>1, <2>0
          <6> QED BY <6>1, <6>2, <6>3, <2>0
        <5> QED BY <5>1
      <4>3. Weighs(k) = Weighs(k - 1)
        BY <4>2 DEF Weighs
      <4>4. Weighs(k - 1) <= k - 1 /\ Weighs(k - 1) \in Int
        BY <1>2, <2>3, <4>1
      <4> QED BY <2>3, <4>3, <4>4
    <3> QED BY <3>1, <3>2
  <2> QED BY <2>4, <2>5
<1>4. b - a \in Nat /\ T(b - a) = S
  <2>1. b - a \in Nat /\ a + (b - a) = b
    OBVIOUS
  <2> QED BY <1>1, <2>1
<1>5. Weighs(b - a) <= b - a
  <2> HIDE DEF Weighs, T
  <2> QED BY <1>3, <1>4
<1> QED BY <1>4, <1>5

-----------------------------------------------------------------------------
(* Positions, partitions and what insert adds up.                          *)

\* The lengths of the intervals in the order p.
Lengths(p) == [q \in Vars |-> Weight[p[q]]]

\* What the algorithm works on.
OrderOK(type, p) ==
    /\ NumVars \in Nat /\ DisjointWeights /\ Top \in Bounds /\ NonEmpty(Top)
    /\ type \in {"Lower", "Upper"} /\ p \in Sorted(type)

\* The order is one of all variables by ascending upper ends.
LEMMA OrderFacts ==
    ASSUME NEW type, NEW p, OrderOK(type, p)
    PROVE  /\ NumVars \in Nat /\ Vars = 1..NumVars
           /\ p \in [Vars -> Vars] /\ \A m, n \in Vars : p[m] = p[n] => m = n
           /\ Lengths(p) \in [1..NumVars -> Nat]
           /\ \A n \in Vars : /\ p[n] \in Vars
                              /\ Lengths(p)[n] = Weight[p[n]] /\ Weight[p[n]] \in Nat /\ Weight[p[n]] > 0
                              /\ Lower(type, p[n]) \in Int /\ Upper(type, p[n]) \in Int
           /\ \A m, n \in Vars : m <= n => Upper(type, p[m]) <= Upper(type, p[n])
<1>1. /\ NumVars \in Nat /\ Weight \in [Vars -> Nat \ {0}] /\ Top \in Bounds
      /\ p \in Bijection(Vars, Vars)
      /\ \A m, n \in Vars : m < n => Upper(type, p[m]) <= Upper(type, p[n])
  BY DEF OrderOK, DisjointWeights, Sorted
<1>2. p \in [Vars -> Vars] /\ \A m, n \in Vars : p[m] = p[n] => m = n
  <2>1. p \in [Vars -> Vars] /\ IsInjective(p)
    BY <1>1 DEF Bijection, Injection
  <2>2. DOMAIN p = Vars
    BY <2>1
  <2> QED BY <2>1, <2>2 DEF IsInjective
<1>3. \A v \in Vars : /\ Weight[v] \in Nat /\ Weight[v] > 0
                      /\ Lower(type, v) \in Int /\ Upper(type, v) \in Int
  BY <1>1 DEF Lower, Upper, Left, Right, Bounds
<1>4. Lengths(p) \in [1..NumVars -> Nat] /\ \A n \in Vars : Lengths(p)[n] = Weight[p[n]]
  BY <1>2, <1>3 DEF Lengths, Vars
<1>5. \A n \in Vars : p[n] \in Vars
  BY <1>2
<1>6. \A n \in Vars : Lower(type, p[n]) \in Int /\ Upper(type, p[n]) \in Int
  BY <1>3, <1>5
<1>7. \A m, n \in Vars : m <= n => Upper(type, p[m]) <= Upper(type, p[n])
  <2>1. ASSUME NEW m \in Vars, NEW n \in Vars, m <= n
        PROVE  Upper(type, p[m]) <= Upper(type, p[n])
    <3>1. m < n \/ m = n
      BY <1>1, <2>1 DEF Vars
    <3>2. Upper(type, p[n]) \in Int
      BY <1>6
    <3>3. CASE m = n
      BY <3>2, <3>3
    <3> QED BY <3>1, <3>3, <1>1
  <2> QED BY <2>1
<1> QED BY <1>1, <1>2, <1>3, <1>4, <1>5, <1>6, <1>7 DEF Vars

\* Being in one partition is an equivalence.
LEMMA BlockOrder ==
    ASSUME NumVars \in Nat, NEW type, NEW p
    PROVE  /\ \A n \in Vars : n \in Block(type, p, n)
           /\ \A m, n \in Vars : m \in Block(type, p, n) => n \in Block(type, p, m)
           /\ \A m, n, q \in Vars :
                m \in Block(type, p, n) /\ q \in Block(type, p, m) => q \in Block(type, p, n)
<1> DEFINE B(q) == StartsBlock(type, p, q)
<1>1. \A m, n : m \in Block(type, p, n) <=> m \in Vars /\ \A q \in (m + 1)..n \union (n + 1)..m : ~B(q)
  BY DEF Block
<1> HIDE DEF B
<1>2. \A n \in Vars : n \in Block(type, p, n)
  BY <1>1 DEF Vars
<1>3. \A m, n \in Vars : m \in Block(type, p, n) => n \in Block(type, p, m)
  BY <1>1
<1>4. ASSUME NEW m \in Vars, NEW n \in Vars, NEW q \in Vars,
             m \in Block(type, p, n), q \in Block(type, p, m)
      PROVE  q \in Block(type, p, n)
  <2>1. ASSUME NEW x \in (q + 1)..n \union (n + 1)..q
        PROVE  ~B(x)
    <3>1. x \in (q + 1)..m \union (m + 1)..q \/ x \in (m + 1)..n \union (n + 1)..m
      BY DEF Vars
    <3> QED BY <3>1, <1>1, <1>4
  <2> QED BY <2>1, <1>1
<1> QED BY <1>2, <1>3, <1>4

\* The recursive definition of Filled.
Fills(type, p, g) ==
    g = [i \in 0..NumVars |-> IF i = 0 THEN [m \in Vars |-> 0] ELSE Inserted(type, p, i, g[i - 1])]

\* It has a solution.
LEMMA FilledExists ==
    ASSUME NumVars \in Nat, NEW type, NEW p
    PROVE  \E g : Fills(type, p, g)
<1> DEFINE Zero == [m \in Vars |-> 0]
           Ins(i, u) == Inserted(type, p, i, u)
           Good(k) == \E g : g = [i \in 0..k |-> IF i = 0 THEN Zero ELSE Ins(i, g[i - 1])]
           Bad == {k \in 0..NumVars : ~Good(k)}
<1> HIDE DEF Zero, Ins
<1>1. Good(0)
  <2> DEFINE g0 == [i \in 0..0 |-> Zero]
  <2>1. g0 = [i \in 0..0 |-> IF i = 0 THEN Zero ELSE Ins(i, g0[i - 1])]
    OBVIOUS
  <2> QED BY <2>1
<1>2. ASSUME NEW k \in 1..NumVars, Good(k - 1)
      PROVE  Good(k)
  <2>1. PICK g : g = [i \in 0..(k - 1) |-> IF i = 0 THEN Zero ELSE Ins(i, g[i - 1])]
    BY <1>2
  <2> DEFINE h == [i \in 0..k |-> IF i = k THEN Ins(k, g[k - 1]) ELSE g[i]]
  <2>2. ASSUME NEW i \in 0..k
        PROVE  h[i] = IF i = 0 THEN Zero ELSE Ins(i, h[i - 1])
    <3>1. CASE i = k
      <4>1. i # 0 /\ h[i - 1] = g[k - 1] /\ h[i] = Ins(k, g[k - 1])
        BY <3>1
      <4> QED BY <4>1, <3>1
    <3>2. CASE i < k
      <4>1. i \in 0..(k - 1)
        BY <3>2
      <4>2. g[i] = IF i = 0 THEN Zero ELSE Ins(i, g[i - 1])
        BY <4>1, <2>1
      <4>3. (i # 0 => h[i - 1] = g[i - 1]) /\ h[i] = g[i]
        BY <3>2
      <4> QED BY <4>2, <4>3
    <3> QED BY <3>1, <3>2
  <2>3. h = [i \in 0..k |-> h[i]]
    OBVIOUS
  <2>4. h = [i \in 0..k |-> IF i = 0 THEN Zero ELSE Ins(i, h[i - 1])]
    <3> HIDE DEF h
    <3> QED BY <2>2, <2>3
  <2> QED BY <2>4
<1>3. Bad = {}
  <2> SUFFICES ASSUME Bad # {} PROVE FALSE
    OBVIOUS
  <2>1. PICK k \in Bad : \A m \in Bad : k <= m
    <3>1. Bad \subseteq Nat
      OBVIOUS
    <3> HIDE DEF Bad
    <3> QED BY <3>1, LeastNatural
  <2>2. k # 0
    BY <1>1
  <2> HIDE DEF Good
  <2>3. k \in 1..NumVars /\ ~Good(k)
    BY <2>2
  <2>4. k - 1 \in 0..NumVars /\ k - 1 \notin Bad
    <3>1. k - 1 \in 0..NumVars /\ ~(k <= k - 1)
      BY <2>3
    <3> QED BY <3>1, <2>1
  <2>5. Good(k - 1)
    BY <2>4
  <2> QED BY <2>3, <2>5, <1>2
<1>4. Good(NumVars)
  <2> HIDE DEF Good
  <2>1. NumVars \in 0..NumVars
    OBVIOUS
  <2> QED BY <2>1, <1>3
<1> QED BY <1>4 DEF Ins, Zero, Fills

\* What it is, after no and after one more position.
LEMMA FilledDef ==
    ASSUME NumVars \in Nat, NEW type, NEW p
    PROVE  /\ Filled(type, p)[0] = [m \in Vars |-> 0]
           /\ \A n \in Vars : Filled(type, p)[n] = Inserted(type, p, n, Filled(type, p)[n - 1])
<1> DEFINE Zero == [m \in Vars |-> 0]
           Ins(i, u) == Inserted(type, p, i, u)
           U == Filled(type, p)
<1>1. U = CHOOSE g : Fills(type, p, g)
  BY DEF Filled, Fills
<1>2. \E g : Fills(type, p, g)
  BY FilledExists
<1>3. Fills(type, p, U)
  <2> HIDE DEF U
  <2> QED BY <1>1, <1>2
<1> HIDE DEF Zero, Ins, U
<1>4. U[0] = Zero /\ \A n \in 1..NumVars : U[n] = Ins(n, U[n - 1])
  <2>1. U = [i \in 0..NumVars |-> IF i = 0 THEN Zero ELSE Ins(i, U[i - 1])]
    BY <1>3 DEF Fills, Zero, Ins
  <2>2. ASSUME NEW i \in 0..NumVars
        PROVE  U[i] = IF i = 0 THEN Zero ELSE Ins(i, U[i - 1])
    BY <2>1
  <2>3. 0 \in 0..NumVars /\ \A n \in 1..NumVars : n \in 0..NumVars /\ n # 0
    OBVIOUS
  <2> QED BY <2>2, <2>3
<1> QED BY <1>4 DEF Zero, Ins, U, Vars

\* What the intervals at positions S weigh together.
Weigh(p, S) == Sum(NumVars, WeightsIn(NumVars, Lengths(p), S))

\* It grows with S.
LEMMA WeighFacts ==
    ASSUME NEW type, NEW p, OrderOK(type, p)
    PROVE  /\ \A S : Weigh(p, S) \in Int
           /\ \A S, T : S \subseteq T => Weigh(p, S) <= Weigh(p, T)
           /\ \A S : \A k \in Vars : k \notin S => Weigh(p, S \union {k}) = Weigh(p, S) + Weight[p[k]]
<1>1. /\ NumVars \in Nat /\ Lengths(p) \in [1..NumVars -> Nat] /\ Vars = 1..NumVars
      /\ \A n \in Vars : Lengths(p)[n] = Weight[p[n]] /\ Weight[p[n]] \in Nat
  BY OrderFacts
<1>2. ASSUME NEW n, NEW w, n = NumVars, w = Lengths(p)
      PROVE  /\ \A S : Sum(n, WeightsIn(n, w, S)) \in Int
             /\ \A S, T : S \subseteq T => Sum(n, WeightsIn(n, w, S)) <= Sum(n, WeightsIn(n, w, T))
  <2>1. n \in Nat /\ w \in [1..n -> Nat]
    BY <1>1, <1>2
  <2>2. \A S : Sum(n, WeightsIn(n, w, S)) \in Int
    BY <2>1, WeightsType
  <2>3. \A S, T : S \subseteq T => Sum(n, WeightsIn(n, w, S)) <= Sum(n, WeightsIn(n, w, T))
    BY <2>1, WeightsGrow
  <2> QED BY <2>2, <2>3
<1>3. ASSUME NEW S, NEW k \in Vars, k \notin S
      PROVE  Weigh(p, S \union {k}) = Weigh(p, S) + Weight[p[k]]
  <2>1. ASSUME NEW n, NEW w, NEW T, n = NumVars, w = Lengths(p), T = S \union {k}
        PROVE  Sum(n, WeightsIn(n, w, T)) = Sum(n, WeightsIn(n, w, S)) + Weight[p[k]]
    <3> DEFINE f == WeightsIn(n, w, S)
               g == WeightsIn(n, w, T)
    <3>1. n \in Nat /\ w \in [1..n -> Nat] /\ k \in 1..n /\ w[k] \in Nat /\ w[k] = Weight[p[k]]
      BY <1>1, <2>1
    <3>2. \A i \in 1..n : i \in T <=> i \in S \/ i = k
      BY <2>1
    <3>3. /\ f \in [1..n -> Int] /\ g \in [1..n -> Int]
          /\ \A i \in 1..n : f[i] = IF i \in S THEN w[i] ELSE 0
          /\ \A i \in 1..n : g[i] = IF i \in T THEN w[i] ELSE 0
      <4>1. n \in Nat /\ w \in [1..n -> Nat]
        BY <3>1
      <4>2. \A R : /\ WeightsIn(n, w, R) \in [1..n -> Int]
                   /\ \A i \in 1..n : WeightsIn(n, w, R)[i] = IF i \in R THEN w[i] ELSE 0
        BY ONLY <4>1, WeightsType
      <4> QED BY ONLY <4>2
    <3> HIDE DEF f, g
    <3>4. f[k] = 0 /\ g[k] = w[k] /\ \A i \in 1..n : i # k => f[i] = g[i]
      BY <1>3, <3>1, <3>2, <3>3
    <3>5. Sum(n, g) = Sum(n, f) + (g[k] - f[k])
      <4>1. f \in [1..n -> Int] /\ g \in [1..n -> Int] /\ k \in 1..n /\ n \in Nat
        BY <3>1, <3>3
      <4>2. \A i \in 1..n : i # k => f[i] = g[i]
        BY <3>4
      <4> QED BY ONLY <4>1, <4>2, SumChange
    <3>6. Sum(n, f) \in Int
      BY <3>1, <3>3, SumType
    <3>7. Sum(n, g) = Sum(n, f) + Weight[p[k]]
      BY <3>1, <3>4, <3>5, <3>6
    <3> QED BY <3>7 DEF f, g
  <2> QED BY <2>1 DEF Weigh
<1>4. /\ \A S : Weigh(p, S) \in Int
      /\ \A S, T : S \subseteq T => Weigh(p, S) <= Weigh(p, T)
  BY <1>2 DEF Weigh
<1> QED BY <1>3, <1>4

\* What a position stands for after those up to n were inserted: intervals up
\* to n of its partition that do not begin before it.
Group(type, p, m, n) ==
    {q \in Block(type, p, m) : q <= n /\ Lower(type, p[q]) >= Lower(type, p[m])}

\* What insert changes.
LEMMA InsertedFacts ==
    ASSUME NEW type, NEW p, OrderOK(type, p), NEW n \in Vars, NEW u \in [Vars -> Int]
    PROVE  LET w == Inserted(type, p, n, u) IN
           /\ w \in [Vars -> Int]
           /\ w[n] <= Lower(type, p[n]) - 1 + Weigh(p, Group(type, p, n, n))
           /\ \A m \in Vars : m # n =>
                \/ w[m] = u[m]
                \/ /\ m \in BlockBefore(type, p, n) /\ Lower(type, p[m]) < Lower(type, p[n])
                   /\ w[m] = u[m] + Weight[p[n]]
<1> DEFINE w == Inserted(type, p, n, u)
           reached == Reached(type, p, n, u)
           below == {m \in reached : Lower(type, p[m]) < Lower(type, p[n])}
           f == [q \in Vars |-> IF q \in reached \ below THEN Weight[p[q]] ELSE 0]
           G == Group(type, p, n, n)
           H == reached \ below
<1>1. /\ NumVars \in Nat /\ Vars = 1..NumVars /\ p \in [Vars -> Vars]
      /\ Lengths(p) \in [1..NumVars -> Nat]
      /\ \A m \in Vars : /\ Lengths(p)[m] = Weight[p[m]] /\ Weight[p[m]] \in Nat
                         /\ Lower(type, p[m]) \in Int
  BY OrderFacts
<1>2. reached \subseteq BlockBefore(type, p, n)
  BY DEF Reached
<1>3. BlockBefore(type, p, n) \subseteq Vars /\ \A m \in BlockBefore(type, p, n) : m < n /\ m \in Block(type, p, n)
  BY DEF BlockBefore, Block
<1>4. w = [m \in Vars |->
            IF m = n THEN Lower(type, p[n]) + Weight[p[n]] - 1 + Sum(NumVars, f)
            ELSE IF m \in below THEN u[m] + Weight[p[n]] ELSE u[m]]
  BY DEF Inserted
<1>5. f = WeightsIn(NumVars, Lengths(p), H)
  <2> HIDE DEF reached, below
  <2> QED BY <1>1 DEF WeightsIn
<1>6. Sum(NumVars, f) = Weigh(p, H)
  BY <1>5 DEF Weigh
<1>7. H \union {n} \subseteq G /\ n \notin H
  <2>1. ASSUME NEW m \in H
        PROVE  m \in Vars /\ m < n /\ m \in Block(type, p, n) /\ Lower(type, p[m]) >= Lower(type, p[n])
    <3> HIDE DEF reached
    <3>1. m \in reached /\ m \notin below
      OBVIOUS
    <3>2. m \in Vars /\ m < n /\ m \in Block(type, p, n)
      BY <1>2, <1>3, <3>1
    <3>3. ~(Lower(type, p[m]) < Lower(type, p[n]))
      BY <3>1
    <3>4. Lower(type, p[m]) \in Int /\ Lower(type, p[n]) \in Int
      BY <1>1, <3>2
    <3> QED BY <3>2, <3>3, <3>4
  <2>2. n \in Block(type, p, n) /\ n <= n /\ Lower(type, p[n]) >= Lower(type, p[n])
    BY <1>1, BlockOrder
  <2> HIDE DEF H
  <2>3. ASSUME NEW m \in H
        PROVE  m <= n /\ m # n
    <3>1. m \in Nat /\ n \in Nat /\ m < n
      BY <1>1, <2>1
    <3> QED BY <3>1
  <2> QED BY <2>1, <2>2, <2>3 DEF Group
<1> HIDE DEF f, reached, H, G
<1>8. /\ Weigh(p, H) \in Int /\ Weigh(p, G) \in Int
      /\ Weigh(p, H \union {n}) = Weigh(p, H) + Weight[p[n]]
      /\ Weigh(p, H \union {n}) <= Weigh(p, G)
  BY <1>7, WeighFacts
<1> HIDE DEF below
<1>9. Weight[p[n]] \in Nat /\ Lower(type, p[n]) \in Int
  BY <1>1
<1>10. w \in [Vars -> Int]
  BY <1>4, <1>6, <1>8, <1>9
<1>11. w[n] = Lower(type, p[n]) + Weight[p[n]] - 1 + Weigh(p, H)
  BY <1>4, <1>6
<1>12. w[n] <= Lower(type, p[n]) - 1 + Weigh(p, G)
  <2> HIDE DEF w
  <2> QED BY <1>8, <1>9, <1>11
<1>13. ASSUME NEW m \in Vars, m # n
       PROVE  \/ w[m] = u[m]
              \/ /\ m \in BlockBefore(type, p, n) /\ Lower(type, p[m]) < Lower(type, p[n])
                 /\ w[m] = u[m] + Weight[p[n]]
  <2>1. w[m] = IF m \in below THEN u[m] + Weight[p[n]] ELSE u[m]
    BY <1>4, <1>13
  <2>2. m \in below => m \in BlockBefore(type, p, n) /\ Lower(type, p[m]) < Lower(type, p[n])
    BY <1>2 DEF below
  <2> HIDE DEF w
  <2> QED BY <2>1, <2>2
<1> QED BY <1>10, <1>12, <1>13 DEF G

\* No position is filled by more than its group.
LEMMA FilledBound ==
    ASSUME NEW type, NEW p, OrderOK(type, p), NEW n \in 0..NumVars
    PROVE  /\ Filled(type, p)[n] \in [Vars -> Int]
           /\ \A m \in 1..n : Filled(type, p)[n][m] <= Lower(type, p[m]) - 1 + Weigh(p, Group(type, p, m, n))
<1> DEFINE U == Filled(type, p)
           L(m) == Lower(type, p[m])
           G(m, k) == Group(type, p, m, k)
           Good(k) == /\ U[k] \in [Vars -> Int]
                      /\ \A m \in 1..k : U[k][m] <= L(m) - 1 + Weigh(p, G(m, k))
           Bad == {k \in 0..NumVars : ~Good(k)}
<1>1. /\ NumVars \in Nat /\ Vars = 1..NumVars /\ p \in [Vars -> Vars]
      /\ \A m \in Vars : Weight[p[m]] \in Nat /\ L(m) \in Int
  BY OrderFacts
<1>2. U[0] = [m \in Vars |-> 0] /\ \A k \in Vars : U[k] = Inserted(type, p, k, U[k - 1])
  <2>1. NumVars \in Nat
    BY <1>1
  <2> QED BY ONLY <2>1, FilledDef
<1> HIDE DEF U
<1>3. Good(0)
  BY <1>2
<1>4. ASSUME NEW k \in Vars, Good(k - 1)
      PROVE  Good(k)
  <2> DEFINE u == U[k - 1]
             w == U[k]
  <2>1. u \in [Vars -> Int] /\ w = Inserted(type, p, k, u)
    BY <1>2, <1>4
  <2> HIDE DEF u, w, L, G
  <2>2. /\ w \in [Vars -> Int]
        /\ w[k] <= L(k) - 1 + Weigh(p, G(k, k))
        /\ \A m \in Vars : m # k =>
             \/ w[m] = u[m]
             \/ /\ m \in BlockBefore(type, p, k) /\ L(m) < L(k)
                /\ w[m] = u[m] + Weight[p[k]]
    BY <2>1, InsertedFacts DEF L, G
  <2>4. ASSUME NEW m
        PROVE  G(m, k - 1) \subseteq G(m, k)
    <3>1. ASSUME NEW q \in G(m, k - 1)
          PROVE  q \in G(m, k)
      <4>1. q \in Block(type, p, m) /\ q \in Vars /\ q <= k - 1 /\ Lower(type, p[q]) >= Lower(type, p[m])
        BY DEF G, Group, Block
      <4>2. q <= k
        BY <1>1, <4>1
      <4> QED BY <4>1, <4>2 DEF G, Group
    <3> QED BY <3>1
  <2>3. ASSUME NEW m \in 1..k
        PROVE  w[m] <= L(m) - 1 + Weigh(p, G(m, k))
    <3>1. CASE m = k
      BY <2>2, <3>1
    <3>2. CASE m # k
      <4>1. m \in 1..(k - 1) /\ m \in Vars /\ m < k
        BY <1>1, <3>2
      <4>2. u[m] <= L(m) - 1 + Weigh(p, G(m, k - 1))
        BY <1>4, <4>1 DEF u
      <4>3. /\ Weigh(p, G(m, k - 1)) \in Int /\ Weigh(p, G(m, k)) \in Int
            /\ L(m) \in Int /\ u[m] \in Int /\ w[m] \in Int /\ Weight[p[k]] \in Nat
        BY <1>1, <2>1, <2>2, <4>1, WeighFacts
      <4>4. CASE w[m] = u[m]
        <5>1. G(m, k - 1) \subseteq G(m, k)
          BY <2>4
        <5>2. Weigh(p, G(m, k - 1)) <= Weigh(p, G(m, k))
          BY <5>1, WeighFacts
        <5> QED BY <4>2, <4>3, <4>4, <5>2
      <4>5. CASE m \in BlockBefore(type, p, k) /\ L(m) < L(k) /\ w[m] = u[m] + Weight[p[k]]
        <5>1. k \in Block(type, p, m)
          BY <1>1, <4>1, <4>5, BlockOrder DEF BlockBefore
        <5>2. k \notin G(m, k - 1)
          BY <1>1 DEF G, Group
        <5>3. G(m, k - 1) \union {k} \subseteq G(m, k)
          <6>1. L(k) >= L(m) /\ k <= k
            BY <1>1, <4>1, <4>5
          <6>2. G(m, k - 1) \subseteq G(m, k)
            BY <2>4
          <6>3. k \in G(m, k)
            BY <5>1, <6>1 DEF G, Group, L
          <6> QED BY <6>2, <6>3
        <5>4. Weigh(p, G(m, k - 1) \union {k}) = Weigh(p, G(m, k - 1)) + Weight[p[k]]
          BY <5>2, WeighFacts
        <5>5. Weigh(p, G(m, k - 1) \union {k}) <= Weigh(p, G(m, k))
          BY <5>3, WeighFacts
        <5>6. Weigh(p, G(m, k - 1)) + Weight[p[k]] <= Weigh(p, G(m, k))
          BY <5>4, <5>5
        <5> QED BY <4>2, <4>3, <4>5, <5>6
      <4> QED BY <2>2, <3>2, <4>1, <4>4, <4>5
    <3> QED BY <3>1, <3>2
  <2> QED BY <2>2, <2>3 DEF w
<1>5. Bad = {}
  <2> HIDE DEF Good
  <2> SUFFICES ASSUME Bad # {} PROVE FALSE
    OBVIOUS
  <2>1. PICK k \in Bad : \A m \in Bad : k <= m
    <3>1. Bad \subseteq Nat
      OBVIOUS
    <3> HIDE DEF Bad
    <3> QED BY <3>1, LeastNatural
  <2>2. k # 0 /\ k \in 0..NumVars /\ ~Good(k)
    BY <1>3
  <2>3. k \in Vars /\ k - 1 \in 0..NumVars /\ ~(k <= k - 1)
    BY <1>1, <2>2
  <2>4. Good(k - 1)
    BY <2>1, <2>3
  <2> QED BY <2>2, <2>3, <2>4, <1>4
<1>6. Good(n)
  <2> HIDE DEF Good
  <2> QED BY <1>5
<1> QED BY <1>6 DEF U

-----------------------------------------------------------------------------
(* Assignments without overlaps.                                           *)

\* Where v begins under the assignment a, seen in the direction of type.
Begin(type, v, a) == IF type = "Lower" THEN a[v] ELSE -(a[v] + Weight[v] - 1)

\* The literals lits are false under a.
Refuted(lits, a) == \A l \in lits : ~HoldsFor(l, a)

\* The intervals of calculate_reason.
Hall(type, p, n, c) == {q \in Block(type, p, n) : q <= n /\ Lower(type, p[q]) >= c}

\* A variable within its bounds covers positions between its ends only.
LEMMA BeginWithin ==
    ASSUME DisjointWeights, Top \in Bounds, NEW type, NEW a \in [Vars -> Int], NEW v \in Vars
    PROVE  /\ Begin(type, v, a) \in Int
           /\ Top.lo[v] <= a[v] /\ a[v] <= Top.up[v] =>
                Lower(type, v) <= Begin(type, v, a) /\ Begin(type, v, a) + Weight[v] <= Upper(type, v) + 1
<1>1. Weight[v] \in Nat /\ a[v] \in Int /\ Top.lo[v] \in Int /\ Top.up[v] \in Int
  BY DEF DisjointWeights, Bounds
<1>2. ASSUME NEW w, NEW x, NEW l, NEW u, w = Weight[v], x = a[v], l = Top.lo[v], u = Top.up[v]
      PROVE  /\ (IF type = "Lower" THEN x ELSE -(x + w - 1)) \in Int
             /\ l <= x /\ x <= u =>
                  /\ (IF type = "Lower" THEN l ELSE -(u + w - 1)) <= (IF type = "Lower" THEN x ELSE -(x + w - 1))
                  /\ (IF type = "Lower" THEN x ELSE -(x + w - 1)) + w
                       <= (IF type = "Lower" THEN u + w - 1 ELSE -l) + 1
  <2>1. w \in Int /\ x \in Int /\ l \in Int /\ u \in Int
    BY <1>1, <1>2
  <2>2. CASE type = "Lower"
    BY ONLY <2>1, <2>2
  <2>3. CASE type # "Lower"
    BY ONLY <2>1, <2>3
  <2> QED BY <2>2, <2>3
<1> QED BY <1>2 DEF Begin, Lower, Upper, Left, Right

\* Intervals that do not overlap are apart in both directions.
LEMMA BeginsApart ==
    ASSUME DisjointWeights, NEW type, NEW a \in [Vars -> Int], AllDisjoint(a),
           NEW v \in Vars, NEW w \in Vars, v # w
    PROVE  \/ Begin(type, v, a) + Weight[v] <= Begin(type, w, a)
           \/ Begin(type, w, a) + Weight[w] <= Begin(type, v, a)
<1>1. Weight[v] \in Nat /\ Weight[w] \in Nat /\ a[v] \in Int /\ a[w] \in Int
  BY DEF DisjointWeights
<1>2. ~(a[v] < a[w] + Weight[w] /\ a[w] < a[v] + Weight[v])
  BY DEF AllDisjoint, Overlap
<1>3. ASSUME NEW x, NEW y, NEW r, NEW s, x = a[v], y = a[w], r = Weight[v], s = Weight[w]
      PROVE  \/ (IF type = "Lower" THEN x ELSE -(x + r - 1)) + r <= (IF type = "Lower" THEN y ELSE -(y + s - 1))
             \/ (IF type = "Lower" THEN y ELSE -(y + s - 1)) + s <= (IF type = "Lower" THEN x ELSE -(x + r - 1))
  <2>1. x \in Int /\ y \in Int /\ r \in Int /\ s \in Int /\ ~(x < y + s /\ y < x + r)
    BY <1>1, <1>2, <1>3
  <2>2. CASE type = "Lower"
    BY ONLY <2>1, <2>2
  <2>3. CASE type # "Lower"
    BY ONLY <2>1, <2>3
  <2> QED BY <2>2, <2>3
<1> QED BY <1>3 DEF Begin

\* The intervals of a reason that is false are within their bounds.
LEMMA HallReasonWithin ==
    ASSUME NEW type, NEW p, OrderOK(type, p), NEW a \in [Vars -> Int], NEW n \in Vars, NEW c,
           Refuted(HallReason(type, p, n, c), a), NEW q \in Hall(type, p, n, c)
    PROVE  Top.lo[p[q]] <= a[p[q]] /\ a[p[q]] <= Top.up[p[q]]
<1> DEFINE v == p[q]
<1>1. q \in Vars /\ v \in Vars /\ a[v] \in Int
  BY OrderFacts DEF Hall, Block
<1>2. Top.lo[v] \in Int /\ Top.up[v] \in Int
  BY <1>1 DEF OrderOK, Bounds
<1>3. LE(v, Top.lo[v] - 1) \in HallReason(type, p, n, c) /\ GT(v, Top.up[v]) \in HallReason(type, p, n, c)
  BY <1>1 DEF HallReason, Hall
<1> HIDE DEF v
<1>4. ~(a[v] <= Top.lo[v] - 1)
  <2>1. ~HoldsFor(LE(v, Top.lo[v] - 1), a)
    BY <1>3 DEF Refuted
  <2> QED BY <2>1 DEF HoldsFor, LE, OrderLit
<1>5. ~(a[v] > Top.up[v])
  <2>1. ~HoldsFor(GT(v, Top.up[v]), a)
    BY <1>3 DEF Refuted
  <2> QED BY <2>1 DEF HoldsFor, GT, OrderLit
<1> QED BY <1>1, <1>2, <1>4, <1>5 DEF v

\* They fit into the range from c to the end of the last one.
LEMMA HallFits ==
    ASSUME NEW type, NEW p, OrderOK(type, p), NEW a \in [Vars -> Int], AllDisjoint(a),
           NEW n \in Vars, NEW c \in Int, c <= Upper(type, p[n]),
           Refuted(HallReason(type, p, n, c), a)
    PROVE  Weigh(p, Hall(type, p, n, c)) <= Upper(type, p[n]) + 1 - c
<1> DEFINE w == Lengths(p)
           s == [q \in Vars |-> Begin(type, p[q], a)]
           S == Hall(type, p, n, c)
           b == Upper(type, p[n]) + 1
<1>1. /\ NumVars \in Nat /\ Vars = 1..NumVars
      /\ p \in [Vars -> Vars] /\ \A i, j \in Vars : p[i] = p[j] => i = j
      /\ w \in [1..NumVars -> Nat]
      /\ \A i \in Vars : /\ p[i] \in Vars
                         /\ w[i] = Weight[p[i]] /\ Weight[p[i]] \in Nat /\ Weight[p[i]] > 0
                         /\ Lower(type, p[i]) \in Int /\ Upper(type, p[i]) \in Int
      /\ \A i, j \in Vars : i <= j => Upper(type, p[i]) <= Upper(type, p[j])
  BY OrderFacts
<1>2. DisjointWeights /\ Top \in Bounds
  BY DEF OrderOK
<1>3. s \in [1..NumVars -> Int] /\ \A i \in Vars : s[i] = Begin(type, p[i], a)
  BY <1>1, <1>2, BeginWithin
<1>4. S \in SUBSET (1..NumVars)
  BY <1>1 DEF Hall, Block
<1>5. b \in Int /\ c <= b
  <2>1. ASSUME NEW u, u = Upper(type, p[n])
        PROVE  u + 1 \in Int /\ c <= u + 1
    <3>1. u \in Int /\ c \in Int /\ c <= u
      BY <1>1, <2>1
    <3> QED BY ONLY <3>1
  <2> QED BY <2>1
<1>6. ASSUME NEW i \in S
      PROVE  w[i] > 0 /\ c <= s[i] /\ s[i] + w[i] <= b
  <2>1. i \in Vars /\ i <= n /\ Lower(type, p[i]) >= c
    BY <1>1, <1>4 DEF Hall
  <2>2. Top.lo[p[i]] <= a[p[i]] /\ a[p[i]] <= Top.up[p[i]]
    BY HallReasonWithin
  <2>3. p[i] \in Vars /\ w[i] = Weight[p[i]] /\ w[i] > 0 /\ w[i] \in Nat /\ Lower(type, p[i]) \in Int
        /\ Upper(type, p[i]) \in Int /\ Upper(type, p[i]) <= Upper(type, p[n])
    BY <1>1, <2>1
  <2>4. Lower(type, p[i]) <= s[i] /\ s[i] + w[i] <= Upper(type, p[i]) + 1 /\ s[i] \in Int
    BY <1>2, <1>3, <2>1, <2>2, <2>3, BeginWithin
  <2>5. ASSUME NEW x, NEW y, NEW l, NEW u, NEW r,
               x = s[i], y = w[i], l = Lower(type, p[i]), u = Upper(type, p[i]), r = Upper(type, p[n])
        PROVE  y > 0 /\ c <= x /\ x + y <= r + 1
    <3>1. /\ x \in Int /\ y \in Nat /\ l \in Int /\ u \in Int /\ r \in Int /\ c \in Int
          /\ y > 0 /\ l <= x /\ x + y <= u + 1 /\ u <= r /\ l >= c
      BY <1>1, <2>1, <2>3, <2>4, <2>5
    <3> QED BY ONLY <3>1
  <2> QED BY <2>5
<1>7. NoOverlap(S, s, w)
  <2>1. ASSUME NEW i \in S, NEW j \in S, i # j
        PROVE  s[i] + w[i] <= s[j] \/ s[j] + w[j] <= s[i]
    <3>1. i \in Vars /\ j \in Vars /\ p[i] \in Vars /\ p[j] \in Vars /\ p[i] # p[j]
      BY <1>1, <1>4, <2>1
    <3>2. /\ s[i] = Begin(type, p[i], a) /\ s[j] = Begin(type, p[j], a)
          /\ w[i] = Weight[p[i]] /\ w[j] = Weight[p[j]]
      BY <1>1, <1>3, <3>1
    <3> HIDE DEF s, w
    <3> QED BY <1>2, <3>1, <3>2, BeginsApart
  <2> HIDE DEF S, s, w
  <2> QED BY <2>1 DEF NoOverlap
<1> HIDE DEF w, s, S, b
<1>8. ASSUME NEW m, NEW x, m = NumVars, x = w
      PROVE  Sum(m, WeightsIn(m, x, S)) <= b - c
  <2>1. m \in Nat /\ x \in [1..m -> Nat] /\ s \in [1..m -> Int] /\ S \in SUBSET (1..m) /\ b \in Int /\ c \in Int
    BY <1>1, <1>3, <1>4, <1>5, <1>8
  <2>2. c <= b /\ (\A i \in S : x[i] > 0 /\ c <= s[i] /\ s[i] + x[i] <= b) /\ NoOverlap(S, s, x)
    BY <1>5, <1>6, <1>7, <1>8
  <2> QED BY ONLY <2>1, <2>2, Packing
<1>9. Sum(NumVars, WeightsIn(NumVars, w, S)) <= b - c
  BY <1>8
<1>10. Weigh(p, S) <= b - c
  BY <1>9 DEF Weigh, w
<1>11. S = Hall(type, p, n, c) /\ b = Upper(type, p[n]) + 1
  BY DEF S, b
<1>12. Weigh(p, S) \in Int /\ Upper(type, p[n]) \in Int /\ c \in Int
  BY <1>1, WeighFacts
<1> QED BY <1>10, <1>11, <1>12

\* One more interval cannot begin in that range if it is to be left.
LEMMA HallLeaves ==
    ASSUME NEW type, NEW p, OrderOK(type, p), NEW a \in [Vars -> Int], AllDisjoint(a),
           NEW n \in Vars, NEW c \in Int, c <= Upper(type, p[n]),
           Refuted(HallReason(type, p, n, c), a),
           NEW j \in Vars, n < j,
           c <= Begin(type, p[j], a), Begin(type, p[j], a) <= Upper(type, p[n])
    PROVE  Weigh(p, Hall(type, p, n, c)) + 1 <= Upper(type, p[n]) + 1 - c
<1> DEFINE w == Lengths(p)
           s == [q \in Vars |-> Begin(type, p[q], a)]
           H == Hall(type, p, n, c)
           S == H \union {j}
           z == [i \in 1..NumVars |-> IF i = j THEN 1 ELSE w[i]]
           b == Upper(type, p[n]) + 1
<1>1. /\ NumVars \in Nat /\ Vars = 1..NumVars
      /\ p \in [Vars -> Vars] /\ \A i, k \in Vars : p[i] = p[k] => i = k
      /\ w \in [1..NumVars -> Nat]
      /\ \A i \in Vars : /\ p[i] \in Vars
                         /\ w[i] = Weight[p[i]] /\ Weight[p[i]] \in Nat /\ Weight[p[i]] > 0
                         /\ Lower(type, p[i]) \in Int /\ Upper(type, p[i]) \in Int
      /\ \A i, k \in Vars : i <= k => Upper(type, p[i]) <= Upper(type, p[k])
  BY OrderFacts
<1>2. DisjointWeights /\ Top \in Bounds
  BY DEF OrderOK
<1>3. s \in [1..NumVars -> Int] /\ \A i \in Vars : s[i] = Begin(type, p[i], a)
  BY <1>1, <1>2, BeginWithin
<1>4. H \in SUBSET (1..NumVars) /\ j \notin H /\ S \in SUBSET (1..NumVars)
  <2>1. \A i \in H : i \in Vars /\ i <= n
    BY DEF Hall, Block
  <2> HIDE DEF H
  <2>2. j \notin H
    BY <1>1, <2>1
  <2> QED BY <1>1, <2>1, <2>2
<1>5. b \in Int /\ c <= b
  <2>1. ASSUME NEW u, u = Upper(type, p[n])
        PROVE  u + 1 \in Int /\ c <= u + 1
    <3>1. u \in Int /\ c \in Int /\ c <= u
      BY <1>1, <2>1
    <3> QED BY ONLY <3>1
  <2> QED BY <2>1
<1>6. ASSUME NEW i \in H
      PROVE  w[i] > 0 /\ c <= s[i] /\ s[i] + w[i] <= b
  <2>1. i \in Vars /\ i <= n /\ Lower(type, p[i]) >= c
    BY <1>1, <1>4 DEF Hall
  <2>2. Top.lo[p[i]] <= a[p[i]] /\ a[p[i]] <= Top.up[p[i]]
    BY HallReasonWithin
  <2>3. p[i] \in Vars /\ w[i] = Weight[p[i]] /\ w[i] > 0 /\ w[i] \in Nat /\ Lower(type, p[i]) \in Int
        /\ Upper(type, p[i]) \in Int /\ Upper(type, p[i]) <= Upper(type, p[n])
    BY <1>1, <2>1
  <2>4. Lower(type, p[i]) <= s[i] /\ s[i] + w[i] <= Upper(type, p[i]) + 1 /\ s[i] \in Int
    BY <1>2, <1>3, <2>1, <2>2, <2>3, BeginWithin
  <2>5. ASSUME NEW x, NEW y, NEW l, NEW u, NEW r,
               x = s[i], y = w[i], l = Lower(type, p[i]), u = Upper(type, p[i]), r = Upper(type, p[n])
        PROVE  y > 0 /\ c <= x /\ x + y <= r + 1
    <3>1. /\ x \in Int /\ y \in Nat /\ l \in Int /\ u \in Int /\ r \in Int /\ c \in Int
          /\ y > 0 /\ l <= x /\ x + y <= u + 1 /\ u <= r /\ l >= c
      BY <1>1, <2>1, <2>3, <2>4, <2>5
    <3> QED BY ONLY <3>1
  <2> QED BY <2>5
<1>7. /\ z \in [1..NumVars -> Nat] /\ z[j] = 1
      /\ \A i \in 1..NumVars : i # j => z[i] = w[i]
      /\ \A i \in 1..NumVars : 0 < z[i] /\ z[i] <= w[i] /\ z[i] \in Nat /\ w[i] \in Nat
  <2>1. \A i \in 1..NumVars : w[i] \in Nat /\ w[i] > 0
    BY <1>1
  <2> HIDE DEF w
  <2>2. z \in [1..NumVars -> Nat] /\ z[j] = 1 /\ \A i \in 1..NumVars : i # j => z[i] = w[i]
    BY <1>1, <2>1
  <2>3. ASSUME NEW i \in 1..NumVars
        PROVE  0 < z[i] /\ z[i] <= w[i] /\ z[i] \in Nat /\ w[i] \in Nat
    BY <2>1, <2>2
  <2> QED BY <2>2, <2>3
<1> HIDE DEF z
<1>8. ASSUME NEW i \in S
      PROVE  z[i] > 0 /\ c <= s[i] /\ s[i] + z[i] <= b
  <2>1. i \in 1..NumVars
    BY <1>4
  <2>2. CASE i = j
    <3>1. s[i] = Begin(type, p[j], a) /\ z[i] = 1 /\ s[i] \in Int
      BY <1>1, <1>3, <1>7, <2>1, <2>2
    <3>2. ASSUME NEW x, NEW r, x = s[i], r = Upper(type, p[n])
          PROVE  c <= x /\ x + 1 <= r + 1
      <4>1. x \in Int /\ r \in Int /\ c <= x /\ x <= r
        BY <1>1, <3>1, <3>2
      <4> QED BY ONLY <4>1
    <3> QED BY <3>1, <3>2
  <2>3. CASE i # j
    <3>1. i \in H /\ z[i] = w[i]
      BY <1>7, <2>1, <2>3
    <3> QED BY <1>6, <3>1
  <2> QED BY <2>2, <2>3
<1>9. NoOverlap(S, s, z)
  <2>1. ASSUME NEW i \in S, NEW k \in S, i # k
        PROVE  s[i] + z[i] <= s[k] \/ s[k] + z[k] <= s[i]
    <3>1. i \in Vars /\ k \in Vars /\ p[i] \in Vars /\ p[k] \in Vars /\ p[i] # p[k]
      BY <1>1, <1>4, <2>1
    <3>0. /\ w[i] = Weight[p[i]] /\ w[k] = Weight[p[k]]
          /\ s[i] = Begin(type, p[i], a) /\ s[k] = Begin(type, p[k], a)
      BY <1>1, <1>3, <3>1
    <3>5. i \in 1..NumVars /\ k \in 1..NumVars
      BY <1>1, <3>1
    <3> HIDE DEF s, w
    <3>6. z[i] <= w[i] /\ z[k] <= w[k] /\ z[i] \in Int /\ z[k] \in Int /\ w[i] \in Int /\ w[k] \in Int
      BY <1>7, <3>5
    <3>7. s[i] \in Int /\ s[k] \in Int
      BY <1>3, <3>5
    <3>2. /\ s[i] = Begin(type, p[i], a) /\ s[k] = Begin(type, p[k], a)
          /\ w[i] = Weight[p[i]] /\ w[k] = Weight[p[k]] /\ s[i] \in Int /\ s[k] \in Int
          /\ z[i] <= w[i] /\ z[k] <= w[k] /\ z[i] \in Int /\ z[k] \in Int /\ w[i] \in Int /\ w[k] \in Int
      BY <3>0, <3>6, <3>7
    <3>3. s[i] + w[i] <= s[k] \/ s[k] + w[k] <= s[i]
      BY <1>2, <3>1, <3>2, BeginsApart
    <3>4. ASSUME NEW x, NEW y, NEW xw, NEW yw, NEW xz, NEW yz,
                 x = s[i], y = s[k], xw = w[i], yw = w[k], xz = z[i], yz = z[k]
          PROVE  x + xz <= y \/ y + yz <= x
      <4>1. /\ x \in Int /\ y \in Int /\ xw \in Int /\ yw \in Int /\ xz \in Int /\ yz \in Int
            /\ xz <= xw /\ yz <= yw
            /\ (x + xw <= y \/ y + yw <= x)
        BY <3>2, <3>3, <3>4
      <4> QED BY ONLY <4>1
    <3> QED BY <3>4
  <2> HIDE DEF S, s
  <2> QED BY <2>1 DEF NoOverlap
<1> HIDE DEF w, s, S, H, b
<1>10. Sum(NumVars, WeightsIn(NumVars, z, S)) <= b - c
  <2>1. ASSUME NEW m, m = NumVars
        PROVE  Sum(m, WeightsIn(m, z, S)) <= b - c
    <3>1. m \in Nat /\ z \in [1..m -> Nat] /\ s \in [1..m -> Int] /\ S \in SUBSET (1..m) /\ b \in Int /\ c \in Int
      BY <1>1, <1>3, <1>4, <1>5, <1>7, <2>1
    <3>2. c <= b /\ (\A i \in S : z[i] > 0 /\ c <= s[i] /\ s[i] + z[i] <= b) /\ NoOverlap(S, s, z)
      BY <1>5, <1>8, <1>9
    <3> QED BY ONLY <3>1, <3>2, Packing
  <2> QED BY <2>1
<1>11. ASSUME NEW f, NEW g, NEW m, m = NumVars,
              f = WeightsIn(NumVars, w, H), g = WeightsIn(NumVars, z, S)
       PROVE  Sum(m, g) = Sum(m, f) + 1
  <2>1. NumVars \in Nat /\ j \in 1..NumVars /\ w \in [1..NumVars -> Nat]
    BY <1>1
  <2>2. /\ f \in [1..m -> Int] /\ g \in [1..m -> Int] /\ m \in Nat /\ j \in 1..m
        /\ \A i \in 1..m : f[i] = IF i \in H THEN w[i] ELSE 0
        /\ \A i \in 1..m : g[i] = IF i \in S THEN z[i] ELSE 0
    <3>1. \A i \in 1..NumVars : w[i] \in Nat /\ z[i] \in Nat
      BY <2>1, <1>7
    <3> QED BY <1>11, <2>1, <3>1 DEF WeightsIn
  <2>3. f[j] = 0 /\ g[j] = 1
    BY <1>4, <1>7, <2>2 DEF S
  <2>4. ASSUME NEW i \in 1..m, i # j
        PROVE  f[i] = g[i]
    <3>1. i \in S <=> i \in H
      BY <2>4 DEF S
    <3>2. z[i] = w[i]
      BY <1>7, <1>11, <2>4
    <3> QED BY <2>2, <3>1, <3>2
  <2>5. Sum(m, g) = Sum(m, f) + (g[j] - f[j])
    <3>1. f \in [1..m -> Int] /\ g \in [1..m -> Int] /\ j \in 1..m /\ m \in Nat
      BY <2>2
    <3>2. \A i \in 1..m : i # j => f[i] = g[i]
      BY <2>4
    <3> QED BY ONLY <3>1, <3>2, SumChange
  <2>6. Sum(m, f) \in Int
    BY <2>2, SumType
  <2> QED BY <2>3, <2>5, <2>6
<1>12. Sum(NumVars, WeightsIn(NumVars, w, H)) + 1 <= b - c
  BY <1>10, <1>11
<1>13. Weigh(p, H) + 1 <= b - c
  BY <1>12 DEF Weigh, w
<1>14. H = Hall(type, p, n, c) /\ b = Upper(type, p[n]) + 1
  BY DEF H, b
<1>15. Weigh(p, H) \in Int /\ Upper(type, p[n]) \in Int /\ c \in Int
  BY <1>1, WeighFacts
<1> QED BY <1>13, <1>14, <1>15

-----------------------------------------------------------------------------
(* The clauses of Hall intervals and of overfull ranges.                   *)

\* Two numbers have a least and a greatest one.
LEMMA LeastOfTwo ==
    ASSUME NEW x \in Int, NEW y \in Int
    PROVE  /\ Min({x, y}) \in Int /\ Min({x, y}) <= x /\ Min({x, y}) <= y /\ Min({x, y}) \in {x, y}
           /\ Max({x, y}) \in Int /\ Max({x, y}) >= x /\ Max({x, y}) >= y
<1> DEFINE S == {x, y}
<1>1. (\E m \in S : \A n \in S : m <= n) /\ (\E m \in S : \A n \in S : m >= n)
  OBVIOUS
<1> HIDE DEF S
<1>2. /\ Min(S) \in S /\ \A n \in S : Min(S) <= n
      /\ Max(S) \in S /\ \A n \in S : Max(S) >= n
  BY <1>1 DEF Min, Max
<1> QED BY <1>2 DEF S

\* A set of naturals that is not empty has a least member.
LEMMA MinNatural ==
    ASSUME NEW S \in SUBSET Nat, S # {}
    PROVE  Min(S) \in S
<1>1. \E m \in S : \A k \in S : m <= k
  BY LeastNatural
<1> QED BY <1>1 DEF Min

\* A function has a least value at some of the first n numbers.
LEMMA LeastValue ==
    ASSUME NEW n \in Nat, NEW f \in [1..n -> Int], NEW S \in SUBSET (1..n), S # {}
    PROVE  \E m \in S : \A i \in S : f[m] <= f[i]
<1> DEFINE Upto(k) == {m \in S : m <= k}
           Least(k, m) == m \in Upto(k) /\ \A i \in Upto(k) : f[m] <= f[i]
           Good(k) == Upto(k) = {} \/ \E m : Least(k, m)
           Bad == {k \in Nat : ~Good(k)}
<1>1. \A i \in S : i \in 1..n /\ i \in Nat /\ f[i] \in Int
  OBVIOUS
<1>2. Upto(0) = {}
  <2>1. \A i \in 1..n : ~(i <= 0)
    OBVIOUS
  <2> QED BY <1>1, <2>1
<1>3. ASSUME NEW k \in Nat \ {0}, Good(k - 1)
      PROVE  Good(k)
  <2>1. \A i \in S : i <= k <=> i <= k - 1 \/ i = k
    BY <1>1
  <2>2. CASE k \notin S
    <3>1. Upto(k) = Upto(k - 1)
      BY <2>1, <2>2
    <3> QED BY <3>1, <1>3
  <2>3. CASE k \in S
    <3>1. k \in Upto(k) /\ \A i \in Upto(k) : i = k \/ i \in Upto(k - 1)
      BY <2>1, <2>3
    <3>2. CASE Upto(k - 1) = {}
      <4>1. Least(k, k)
        BY <1>1, <2>3, <3>1, <3>2
      <4> QED BY <4>1
    <3>3. CASE \E m : Least(k - 1, m)
      <4>1. PICK m : Least(k - 1, m)
        BY <3>3
      <4>2. m \in S /\ m \in Upto(k) /\ f[m] \in Int /\ f[k] \in Int
        BY <1>1, <2>1, <2>3, <4>1
      <4>3. CASE f[m] <= f[k]
        <5>1. Least(k, m)
          BY <3>1, <4>1, <4>2, <4>3
        <5> QED BY <5>1
      <4>4. CASE ~(f[m] <= f[k])
        <5>1. ASSUME NEW i \in Upto(k)
              PROVE  f[k] <= f[i]
          <6>1. CASE i = k
            BY <4>2, <6>1
          <6>2. CASE i \in Upto(k - 1)
            <7>1. f[m] <= f[i] /\ f[i] \in Int
              BY <1>1, <4>1, <6>2
            <7>2. ASSUME NEW x, NEW y, NEW z, x = f[m], y = f[k], z = f[i]
                  PROVE  y <= z
              <8>1. x \in Int /\ y \in Int /\ z \in Int /\ x <= z /\ ~(x <= y)
                BY <4>2, <4>4, <7>1, <7>2
              <8> QED BY ONLY <8>1
            <7> QED BY <7>2
          <6> QED BY <3>1, <6>1, <6>2
        <5>2. Least(k, k)
          BY <3>1, <5>1
        <5> QED BY <5>2
      <4> QED BY <4>3, <4>4
    <3> QED BY <1>3, <3>2, <3>3
  <2> QED BY <2>2, <2>3
<1>4. Bad = {}
  <2>0. Good(0)
    BY <1>2
  <2> HIDE DEF Good
  <2> SUFFICES ASSUME Bad # {} PROVE FALSE
    OBVIOUS
  <2>1. PICK k \in Bad : \A m \in Bad : k <= m
    <3>1. Bad \subseteq Nat
      OBVIOUS
    <3> HIDE DEF Bad
    <3> QED BY <3>1, LeastNatural
  <2>2. k \in Nat \ {0} /\ ~Good(k)
    BY <2>0
  <2>3. k - 1 \in Nat /\ ~(k <= k - 1)
    BY <2>2
  <2>4. Good(k - 1)
    BY <2>1, <2>3
  <2> QED BY <2>2, <2>4, <1>3
<1>5. Upto(n) = S
  <2>1. \A i \in 1..n : i <= n
    OBVIOUS
  <2> QED BY <1>1, <2>1
<1>6. Good(n)
  <2> HIDE DEF Good
  <2> QED BY <1>4
<1> QED BY <1>5, <1>6

\* So the set of these values has a least member.
LEMMA MinValue ==
    ASSUME NEW n \in Nat, NEW f \in [1..n -> Int], NEW S \in SUBSET (1..n), S # {}
    PROVE  /\ Min({f[m] : m \in S}) \in {f[m] : m \in S}
           /\ \A i \in S : Min({f[m] : m \in S}) <= f[i]
<1>1. PICK m \in S : \A i \in S : f[m] <= f[i]
  BY LeastValue
<1> DEFINE V == {f[i] : i \in S}
<1>2. f[m] \in V /\ \A y \in V : f[m] <= y
  BY <1>1
<1> HIDE DEF V
<1>3. Min(V) \in V /\ \A y \in V : Min(V) <= y
  BY <1>2 DEF Min
<1> QED BY <1>3 DEF V

\* An interval that cannot leave the range that ends at b begins in it.
LEMMA LeaveRefuted ==
    ASSUME NEW type, NEW p, OrderOK(type, p), NEW a \in [Vars -> Int], NEW v \in Vars, NEW b \in Int,
           Refuted(Leave(type, v, b), a)
    PROVE  Top.lo[v] <= a[v] /\ a[v] <= Top.up[v] /\ Begin(type, v, a) <= b
<1>1. /\ Weight[v] \in Nat /\ Weight[v] > 0 /\ a[v] \in Int /\ Top.lo[v] \in Int /\ Top.up[v] \in Int
      /\ type \in {"Lower", "Upper"}
  BY DEF OrderOK, DisjointWeights, Bounds
<1>2. \A k \in Int : /\ HoldsFor(LE(v, k), a) <=> a[v] <= k
                     /\ HoldsFor(GT(v, k), a) <=> a[v] > k
  BY DEF HoldsFor, LE, GT, OrderLit
<1>3. CASE type = "Lower"
  <2> DEFINE k == Min({b, Top.up[v]})
  <2>1. k \in Int /\ k <= b /\ k <= Top.up[v]
    BY <1>1, LeastOfTwo
  <2>2. ~HoldsFor(LE(v, Top.lo[v] - 1), a) /\ ~HoldsFor(GT(v, k), a)
    BY <1>3 DEF Refuted, Leave
  <2> HIDE DEF k
  <2>3. ~(a[v] <= Top.lo[v] - 1) /\ ~(a[v] > k)
    BY <1>1, <1>2, <2>1, <2>2
  <2>4. Begin(type, v, a) = a[v]
    BY <1>3 DEF Begin
  <2>5. ASSUME NEW x, NEW l, NEW u, x = a[v], l = Top.lo[v], u = Top.up[v]
        PROVE  l <= x /\ x <= u /\ x <= b
    <3>1. x \in Int /\ l \in Int /\ u \in Int /\ k \in Int /\ b \in Int /\ k <= b /\ k <= u /\ ~(x <= l - 1) /\ ~(x > k)
      BY <1>1, <2>1, <2>3, <2>5
    <3> QED BY ONLY <3>1
  <2> QED BY <2>4, <2>5
<1>4. CASE type = "Upper"
  <2> DEFINE k == Max({-b - Weight[v], Top.lo[v] - 1})
  <2>1. k \in Int /\ k >= -b - Weight[v] /\ k >= Top.lo[v] - 1
    <3>1. ASSUME NEW x, NEW y, x = -b - Weight[v], y = Top.lo[v] - 1
          PROVE  Max({x, y}) \in Int /\ Max({x, y}) >= x /\ Max({x, y}) >= y
      <4>1. x \in Int /\ y \in Int
        BY <1>1, <3>1
      <4> QED BY <4>1, LeastOfTwo
    <3> QED BY <3>1
  <2>2. ~HoldsFor(GT(v, Top.up[v]), a) /\ ~HoldsFor(LE(v, k), a)
    BY <1>4 DEF Refuted, Leave
  <2> HIDE DEF k
  <2>3. ~(a[v] > Top.up[v]) /\ ~(a[v] <= k)
    BY <1>1, <1>2, <2>1, <2>2
  <2>4. Begin(type, v, a) = -(a[v] + Weight[v] - 1)
    BY <1>4 DEF Begin
  <2>5. ASSUME NEW x, NEW l, NEW u, NEW w, x = a[v], l = Top.lo[v], u = Top.up[v], w = Weight[v]
        PROVE  l <= x /\ x <= u /\ -(x + w - 1) <= b
    <3>1. /\ x \in Int /\ l \in Int /\ u \in Int /\ k \in Int /\ b \in Int /\ w \in Int
          /\ k >= -b - w /\ k >= l - 1 /\ ~(x > u) /\ ~(x <= k)
      BY <1>1, <2>1, <2>3, <2>5
    <3> QED BY ONLY <3>1
  <2> QED BY <2>4, <2>5
<1> QED BY <1>1, <1>3, <1>4

\* The lower end of an interval is not after its upper one.
LEMMA BoundsOrder ==
    ASSUME NEW type, NEW p, OrderOK(type, p), NEW v \in Vars
    PROVE  Lower(type, v) <= Upper(type, v)
<1>1. Weight[v] \in Nat /\ Weight[v] > 0 /\ Top.lo[v] \in Int /\ Top.up[v] \in Int /\ Top.lo[v] <= Top.up[v]
  BY DEF OrderOK, DisjointWeights, Bounds, NonEmpty
<1>2. ASSUME NEW l, NEW u, NEW w, l = Top.lo[v], u = Top.up[v], w = Weight[v]
      PROVE  l <= u + w - 1 /\ -(u + w - 1) <= -l
  <2>1. l \in Int /\ u \in Int /\ w \in Nat /\ w > 0 /\ l <= u
    BY <1>1, <1>2
  <2> QED BY ONLY <2>1
<1> QED BY <1>2 DEF Lower, Upper, Left, Right

\* The intervals of an event weigh too much for their range, by one if there
\* is an interval that has to leave it.
LEMMA EventWeighs ==
    ASSUME NEW type, NEW p, OrderOK(type, p), NEW n \in Vars,
           NEW e \in InsertClauses(type, p, n, Filled(type, p)[n - 1], Filled(type, p)[n])
    PROVE  \E c \in Int :
             /\ c <= Upper(type, p[n])
             /\ \/ /\ e.clause.lits = HallReason(type, p, n, c)
                   /\ Weigh(p, Hall(type, p, n, c)) > Upper(type, p[n]) + 1 - c
                \/ /\ Weigh(p, Hall(type, p, n, c)) >= Upper(type, p[n]) + 1 - c
                   /\ \E j \in Vars :
                        /\ n < j /\ c <= Lower(type, p[j])
                        /\ e.clause.lits = HallReason(type, p, n, c) \union Leave(type, p[j], Upper(type, p[n]))
<1> DEFINE u == Filled(type, p)[n - 1]
           w == Filled(type, p)[n]
           b == Upper(type, p[n])
           L(m) == Lower(type, p[m])
           G(m, k) == Group(type, p, m, k)
           over == Overfull(type, p, n, u)
           full == Full(type, p, n, w)
<1>1. /\ NumVars \in Nat /\ Vars = 1..NumVars /\ p \in [Vars -> Vars]
      /\ b \in Int
      /\ \A m \in Vars : L(m) \in Int /\ p[m] \in Vars /\ Weight[p[m]] \in Nat
  BY OrderFacts
<1>2. /\ n \in 0..NumVars /\ n - 1 \in 0..NumVars
      /\ \A m \in Vars : m < n => m \in 1..(n - 1) /\ m \in 1..n
      /\ n \in 1..n
  BY <1>1
<1>3. /\ u \in [Vars -> Int] /\ w \in [Vars -> Int]
      /\ \A m \in 1..(n - 1) : u[m] <= L(m) - 1 + Weigh(p, G(m, n - 1))
      /\ \A m \in 1..n : w[m] <= L(m) - 1 + Weigh(p, G(m, n))
  BY <1>2, FilledBound
<1>4. L(n) <= b
  BY <1>1, BoundsOrder
<1> HIDE DEF u, w
<1>5. \A S : Weigh(p, S) \in Int
  BY WeighFacts
<1>6. \A m \in BlockBefore(type, p, n) : m \in Vars /\ m < n /\ m \in Block(type, p, n)
  BY DEF BlockBefore, Block
<1>7. ASSUME NEW m \in Vars, m \in Block(type, p, n)
      PROVE  G(m, n) \subseteq Hall(type, p, n, L(m))
  <2>1. \A q \in Vars : q \in Block(type, p, m) => q \in Block(type, p, n)
    BY <1>1, <1>7, BlockOrder
  <2> QED BY <2>1 DEF Group, Hall, Block
<1>8. n \in Block(type, p, n)
  BY <1>1, BlockOrder
<1>9. CASE over # {}
  <2> DEFINE m == Min(over)
  <2>1. over \subseteq Nat
    BY <1>1, <1>6 DEF Overfull
  <2>2. m \in over
    <3> HIDE DEF over
    <3> QED BY <1>9, <2>1, MinNatural
  <2>3. e.clause.lits = HallReason(type, p, n, L(m))
    BY <1>9 DEF InsertClauses, Event, Because, Clause, u
  <2> HIDE DEF m
  <2>4. m \in Vars /\ m < n /\ m \in Block(type, p, n) /\ L(m) < L(n) /\ u[m] + Weight[p[n]] > b
    BY <1>6, <2>2 DEF Overfull
  <2> DEFINE H == Hall(type, p, n, L(m))
  <2>5. G(m, n - 1) \union {n} \subseteq H /\ n \notin G(m, n - 1)
    <3>1. G(m, n - 1) \subseteq H
      <4>1. ASSUME NEW q \in G(m, n - 1)
            PROVE  q \in G(m, n)
        <5>1. q \in Vars /\ q <= n - 1 /\ q \in Block(type, p, m) /\ L(q) >= L(m)
          BY DEF Group, Block
        <5>2. q <= n
          BY <1>1, <5>1
        <5> QED BY <5>1, <5>2 DEF Group
      <4> QED BY <4>1, <1>7, <2>4
    <3>2. n \in H
      <4>1. n <= n /\ L(n) >= L(m)
        BY <1>1, <2>4
      <4> QED BY <1>8, <4>1 DEF Hall
    <3>3. ~(n <= n - 1)
      BY <1>1
    <3>4. n \notin G(m, n - 1)
      BY <3>3 DEF Group
    <3> QED BY <3>1, <3>2, <3>4
  <2> HIDE DEF H, over, G, L, b
  <2>6. /\ Weigh(p, G(m, n - 1) \union {n}) = Weigh(p, G(m, n - 1)) + Weight[p[n]]
        /\ Weigh(p, G(m, n - 1) \union {n}) <= Weigh(p, H)
    BY <2>5, WeighFacts
  <2>7. u[m] <= L(m) - 1 + Weigh(p, G(m, n - 1)) /\ u[m] \in Int
    BY <1>2, <1>3, <2>4
  <2>8. Weigh(p, H) > b + 1 - L(m) /\ L(m) \in Int /\ L(m) <= b
    <3>1. ASSUME NEW x, NEW y, NEW z, NEW l, NEW k, NEW h,
                 x = u[m], y = Weigh(p, G(m, n - 1)), z = Weight[p[n]], l = L(m), k = L(n), h = Weigh(p, H)
          PROVE  h > b + 1 - l /\ l \in Int /\ l <= b
      <4>1. /\ x \in Int /\ y \in Int /\ z \in Int /\ l \in Int /\ k \in Int /\ h \in Int /\ b \in Int
            /\ x <= l - 1 + y /\ y + z <= h /\ x + z > b /\ l < k /\ k <= b
        <5>1. /\ x \in Int /\ z \in Int /\ l \in Int /\ k \in Int /\ b \in Int
          <6>1. Weight[p[n]] \in Nat
            BY <1>1
          <6>2. L(m) \in Int /\ L(n) \in Int
            BY <1>1, <2>4
          <6>3. z \in Nat
            BY <3>1, <6>1
          <6> QED BY <1>1, <2>7, <3>1, <6>2, <6>3
        <5>2. y \in Int /\ h \in Int
          BY <1>5, <3>1
        <5>3. y + z <= h
          BY <2>6, <3>1
        <5>4. x <= l - 1 + y
          BY <2>7, <3>1
        <5>5. x + z > b /\ l < k /\ k <= b
          BY <1>4, <2>4, <3>1
        <5> QED BY <5>1, <5>2, <5>3, <5>4, <5>5
      <4> QED BY ONLY <4>1
    <3> QED BY <3>1
  <2> QED BY <2>3, <2>8 DEF H, L, b
<1>10. CASE over = {} /\ w[n] > b
  <2>1. e.clause.lits = HallReason(type, p, n, L(n))
    BY <1>10 DEF InsertClauses, Event, Because, Clause, u, w
  <2> DEFINE H == Hall(type, p, n, L(n))
  <2>2. G(n, n) \subseteq H
    BY <1>7, <1>8
  <2> HIDE DEF H, over, G, L, b
  <2>3. Weigh(p, G(n, n)) <= Weigh(p, H)
    BY <2>2, WeighFacts
  <2>4. w[n] <= L(n) - 1 + Weigh(p, G(n, n)) /\ w[n] \in Int
    BY <1>2, <1>3
  <2>5. Weigh(p, H) > b + 1 - L(n) /\ L(n) \in Int /\ L(n) <= b
    <3>1. ASSUME NEW x, NEW y, NEW l, NEW h,
                 x = w[n], y = Weigh(p, G(n, n)), l = L(n), h = Weigh(p, H)
          PROVE  h > b + 1 - l /\ l \in Int /\ l <= b
      <4>1. /\ x \in Int /\ y \in Int /\ l \in Int /\ h \in Int /\ b \in Int
            /\ x <= l - 1 + y /\ y <= h /\ x > b /\ l <= b
        BY <1>1, <1>4, <1>5, <1>10, <2>3, <2>4, <3>1
      <4> QED BY ONLY <4>1
    <3> QED BY <3>1
  <2> QED BY <2>1, <2>5 DEF H, L, b
<1>11. CASE over = {} /\ ~(w[n] > b)
  <2> DEFINE c == Min({Lower(type, p[m]) : m \in full})
  <2>1. full # {} /\ \E j \in Block(type, p, n) :
           /\ j > n /\ Lower(type, p[j]) \in c..b
           /\ e.clause.lits = HallReason(type, p, n, c) \union Leave(type, p[j], b)
    <3> DEFINE hit == {j \in Block(type, p, n) : j > n /\ Lower(type, p[j]) \in c..b}
               Lits(j) == HallReason(type, p, n, c) \union Leave(type, p[j], b)
    <3>1. full # {}
      BY <1>11 DEF InsertClauses, u, w
    <3>2. InsertClauses(type, p, n, u, w) = {Event(n, j, Lits(j)) : j \in hit}
      BY <1>11, <3>1, Zenon DEF InsertClauses
    <3> HIDE DEF full, c, Lits
    <3>3. PICK j \in hit : e = Event(n, j, Lits(j))
      BY <3>2 DEF u, w
    <3>4. e.clause.lits = Lits(j)
      BY <3>3 DEF Event, Because, Clause
    <3> QED BY <3>1, <3>4 DEF Lits
  <2>2. full \in SUBSET (1..NumVars)
    BY <1>1, <1>6 DEF Full
  <2>3. \E m \in full : c = L(m)
    <3> DEFINE f == [m \in 1..NumVars |-> Lower(type, p[m])]
    <3>1. f \in [1..NumVars -> Int]
      BY <1>1
    <3>2. {Lower(type, p[m]) : m \in full} = {f[m] : m \in full}
      BY <2>2
    <3> HIDE DEF f, full
    <3>3. Min({f[m] : m \in full}) \in {f[m] : m \in full}
      BY <1>1, <2>1, <2>2, <3>1, MinValue
    <3> QED BY <3>2, <3>3
  <2> HIDE DEF c
  <2>4. PICK m \in full : c = L(m)
    BY <2>3
  <2>5. m \in Vars /\ m \in Block(type, p, n) /\ m \in 1..n /\ w[m] = b
    BY <1>1, <1>2, <1>6, <1>8 DEF Full
  <2> DEFINE H == Hall(type, p, n, L(m))
  <2>6. G(m, n) \subseteq H
    BY <1>7, <2>5
  <2> HIDE DEF H, over, G, L, b
  <2>7. Weigh(p, G(m, n)) <= Weigh(p, H)
    BY <2>6, WeighFacts
  <2>8. Weigh(p, H) >= b + 1 - c /\ c \in Int
    <3>1. ASSUME NEW y, NEW l, NEW h, y = Weigh(p, G(m, n)), l = L(m), h = Weigh(p, H)
          PROVE  h >= b + 1 - l /\ l \in Int
      <4>1. /\ y \in Int /\ l \in Int /\ h \in Int /\ b \in Int
            /\ b <= l - 1 + y /\ y <= h
        BY <1>1, <1>3, <1>5, <2>5, <2>7, <3>1
      <4> QED BY ONLY <4>1
    <3> QED BY <3>1, <2>4
  <2>9. PICK j \in Block(type, p, n) :
          /\ j > n /\ Lower(type, p[j]) \in c..b
          /\ e.clause.lits = HallReason(type, p, n, c) \union Leave(type, p[j], b)
    BY <2>1
  <2>10. j \in Vars /\ n < j /\ c <= Lower(type, p[j]) /\ c <= b
    <3>1. j \in Vars
      BY DEF Block
    <3>2. \A x : x \in c..b => c <= x /\ c <= b
      BY <1>1, <2>8
    <3> QED BY <1>1, <2>9, <3>1, <3>2
  <2> QED BY <2>4, <2>8, <2>9, <2>10 DEF H, L, b
<1> QED BY <1>9, <1>10, <1>11

\* The clauses of insert follow from the constraint.
LEMMA EventEntailed ==
    ASSUME NEW type, NEW p, OrderOK(type, p), NEW n \in Vars,
           NEW e \in InsertClauses(type, p, n, Filled(type, p)[n - 1], Filled(type, p)[n]),
           NEW a \in [Vars -> Int], AllDisjoint(a)
    PROVE  \E l \in e.clause.lits : HoldsFor(l, a)
<1> SUFFICES ASSUME Refuted(e.clause.lits, a)
             PROVE  FALSE
  BY DEF Refuted
<1> DEFINE b == Upper(type, p[n])
           H(c) == Hall(type, p, n, c)
<1>1. /\ p \in [Vars -> Vars] /\ b \in Int /\ \A j \in Vars : p[j] \in Vars /\ Lower(type, p[j]) \in Int
  BY OrderFacts
<1>2. PICK c \in Int :
        /\ c <= b
        /\ \/ /\ e.clause.lits = HallReason(type, p, n, c)
              /\ Weigh(p, H(c)) > b + 1 - c
           \/ /\ Weigh(p, H(c)) >= b + 1 - c
              /\ \E j \in Vars :
                   /\ n < j /\ c <= Lower(type, p[j])
                   /\ e.clause.lits = HallReason(type, p, n, c) \union Leave(type, p[j], b)
  BY EventWeighs
<1>3. Refuted(HallReason(type, p, n, c), a)
  BY <1>2 DEF Refuted
<1> HIDE DEF b, H
<1>4. Weigh(p, H(c)) \in Int
  BY WeighFacts
<1>5. Weigh(p, H(c)) <= b + 1 - c
  BY <1>2, <1>3, HallFits DEF b, H
<1>6. ~(Weigh(p, H(c)) > b + 1 - c)
  BY <1>1, <1>4, <1>5
<1>7. PICK j \in Vars :
        /\ n < j /\ c <= Lower(type, p[j])
        /\ e.clause.lits = HallReason(type, p, n, c) \union Leave(type, p[j], b)
  BY <1>2, <1>6
<1>8. Weigh(p, H(c)) >= b + 1 - c
  BY <1>2, <1>6
<1> DEFINE v == p[j]
<1>9. v \in Vars /\ Lower(type, v) \in Int
  BY <1>1
<1>10. Refuted(Leave(type, v, b), a)
  BY <1>7 DEF Refuted
<1> HIDE DEF v
<1>11. Top.lo[v] <= a[v] /\ a[v] <= Top.up[v] /\ Begin(type, v, a) <= b
  BY <1>1, <1>9, <1>10, LeaveRefuted
<1>12. Lower(type, v) <= Begin(type, v, a) /\ Begin(type, v, a) \in Int
  BY <1>9, <1>11, BeginWithin DEF OrderOK
<1>13. c <= Begin(type, v, a)
  BY <1>7, <1>9, <1>12 DEF v
<1>14. Weigh(p, H(c)) + 1 <= b + 1 - c
  BY <1>2, <1>3, <1>7, <1>11, <1>13, HallLeaves DEF v, b, H
<1> QED BY <1>1, <1>4, <1>8, <1>14

\* They consist of order literals.
LEMMA EventLits ==
    ASSUME NEW type, NEW p, OrderOK(type, p), NEW n \in Vars,
           NEW e \in InsertClauses(type, p, n, Filled(type, p)[n - 1], Filled(type, p)[n])
    PROVE  \A l \in e.clause.lits : LitOK(l)
<1>1. /\ p \in [Vars -> Vars] /\ Upper(type, p[n]) \in Int /\ \A j \in Vars : p[j] \in Vars
  BY OrderFacts
<1>2. \A v \in Vars : Weight[v] \in Nat /\ Top.lo[v] \in Int /\ Top.up[v] \in Int
  BY DEF OrderOK, DisjointWeights, Bounds
<1>3. \A v \in Vars : \A k \in Int : LitOK(LE(v, k)) /\ LitOK(GT(v, k))
  BY DEF LitOK, LE, GT, OrderLit
<1>4. ASSUME NEW c, NEW l \in HallReason(type, p, n, c)
      PROVE  LitOK(l)
  <2>1. PICK q \in Vars : l \in {LE(p[q], Top.lo[p[q]] - 1), GT(p[q], Top.up[p[q]])}
    BY DEF HallReason, Block
  <2>2. p[q] \in Vars /\ Top.lo[p[q]] - 1 \in Int /\ Top.up[p[q]] \in Int
    BY <1>1, <1>2
  <2> QED BY <1>3, <2>1, <2>2
<1>5. ASSUME NEW j \in Vars, NEW l \in Leave(type, p[j], Upper(type, p[n]))
      PROVE  LitOK(l)
  <2> DEFINE v == p[j]
             b == Upper(type, p[n])
  <2>1. v \in Vars /\ Weight[v] \in Nat /\ Top.lo[v] \in Int /\ Top.up[v] \in Int /\ b \in Int
    BY <1>1, <1>2
  <2> HIDE DEF v, b
  <2>2. Top.lo[v] - 1 \in Int /\ -b - Weight[v] \in Int
    BY <2>1
  <2>3. Min({b, Top.up[v]}) \in Int
    BY <2>1, LeastOfTwo
  <2>4. Max({-b - Weight[v], Top.lo[v] - 1}) \in Int
    BY <2>2, LeastOfTwo
  <2>5. l \in {LE(v, Top.lo[v] - 1), GT(v, Min({b, Top.up[v]})), GT(v, Top.up[v]),
               LE(v, Max({-b - Weight[v], Top.lo[v] - 1}))}
    BY DEF Leave, v, b
  <2> QED BY <1>3, <2>1, <2>2, <2>3, <2>4, <2>5
<1>6. PICK c \in Int :
        \/ e.clause.lits = HallReason(type, p, n, c)
        \/ \E j \in Vars : e.clause.lits = HallReason(type, p, n, c) \union Leave(type, p[j], Upper(type, p[n]))
  BY EventWeighs
<1> QED BY <1>4, <1>5, <1>6

\* The clauses of a call of propagate.
LEMMA EventsFollow ==
    ASSUME NEW type, NEW p, OrderOK(type, p), NEW live, live \subseteq Vars,
           NEW e \in Events(type, p, live)
    PROVE  /\ \A l \in e.clause.lits : LitOK(l)
           /\ \A a \in [Vars -> Int] : AllDisjoint(a) => \E l \in e.clause.lits : HoldsFor(l, a)
<1>1. PICK n \in Vars : e \in InsertClauses(type, p, n, Filled(type, p)[n - 1], Filled(type, p)[n])
  BY DEF Events
<1> QED BY <1>1, EventEntailed, EventLits

\* What propagate adds are such clauses.
LEMMA AddedEvents ==
    ASSUME HostInv, HostStarts, DisjointWeights, PropagateDisjoint
    PROVE  \E cs :
             /\ AddClauses(cs) \/ ClauseFails(cs)
             /\ \A c \in cs :
                  /\ \A l \in c.lits : LitOK(l)
                  /\ \A a \in [Vars -> Int] : AllDisjoint(a) => \E l \in c.lits : HoldsFor(l, a)
<1> DEFINE Fine(c) == /\ \A l \in c.lits : LitOK(l)
                      /\ \A a \in [Vars -> Int] : AllDisjoint(a) => \E l \in c.lits : HoldsFor(l, a)
<1>1. Top \in Bounds /\ NonEmpty(Top)
  BY TopFacts
<1>2. PICK p \in Sorted("Lower"), q \in Sorted("Upper") :
        LET liveL == Live("Lower", p, last)
            lastL == Visited(p, last, liveL)
            eventsL == Events("Lower", p, liveL)
            liveU == Live("Upper", q, lastL)
            eventsU == Events("Upper", q, liveU) IN
        \/ RunFails("Lower", p, liveL, last, {}, eventsL)
        \/ RunFails("Upper", q, liveU, lastL, eventsL, eventsU)
        \/ AddClauses({e.clause : e \in eventsL \union eventsU})
  BY DEF PropagateDisjoint
<1> DEFINE liveL == Live("Lower", p, last)
           lastL == Visited(p, last, liveL)
           eventsL == Events("Lower", p, liveL)
           liveU == Live("Upper", q, lastL)
           eventsU == Events("Upper", q, liveU)
<1>3. OrderOK("Lower", p) /\ OrderOK("Upper", q)
  BY <1>1 DEF OrderOK, HostStarts
<1>4. liveL \subseteq Vars /\ liveU \subseteq Vars
  BY DEF Live
<1>5. \A e \in eventsL \union eventsU : Fine(e.clause)
  <2> HIDE DEF Fine, liveL, liveU
  <2>1. \A e \in eventsL : Fine(e.clause)
    BY <1>3, <1>4, EventsFollow DEF Fine
  <2>2. \A e \in eventsU : Fine(e.clause)
    BY <1>3, <1>4, EventsFollow DEF Fine
  <2> QED BY <2>1, <2>2
<1> HIDE DEF Fine, eventsL, eventsU, liveL, liveU, lastL
<1>6. \/ RunFails("Lower", p, liveL, last, {}, eventsL)
      \/ RunFails("Upper", q, liveU, lastL, eventsL, eventsU)
      \/ AddClauses({e.clause : e \in eventsL \union eventsU})
  BY <1>2 DEF eventsL, eventsU, liveL, liveU, lastL
<1>7. ASSUME NEW es, es \subseteq eventsL \union eventsU, AddClauses({e.clause : e \in es}) \/ ClauseFails({e.clause : e \in es})
      PROVE  \E cs : (AddClauses(cs) \/ ClauseFails(cs)) /\ \A c \in cs : Fine(c)
  <2> DEFINE cs == {e.clause : e \in es}
  <2>1. \A c \in cs : Fine(c)
    BY <1>5, <1>7
  <2> HIDE DEF cs
  <2>2. AddClauses(cs) \/ ClauseFails(cs)
    BY <1>7 DEF cs
  <2> QED BY <2>1, <2>2
<1>8. CASE RunFails("Lower", p, liveL, last, {}, eventsL)
  <2>1. \E es : es \subseteq eventsL /\ ClauseFails({e.clause : e \in es})
    <3>1. PICK f \in eventsL : ClauseFails({e.clause : e \in ({} \union {e \in eventsL : EarlierEvent("Lower", p, e, f)}) \union {f}})
      BY <1>8, Zenon DEF RunFails
    <3> QED BY <3>1
  <2>2. PICK es : es \subseteq eventsL /\ ClauseFails({e.clause : e \in es})
    BY <2>1
  <2> QED BY <2>2, <1>7 DEF Fine
<1>9. CASE RunFails("Upper", q, liveU, lastL, eventsL, eventsU)
  <2>1. \E es : es \subseteq eventsL \union eventsU /\ ClauseFails({e.clause : e \in es})
    <3>1. PICK f \in eventsU : ClauseFails({e.clause : e \in (eventsL \union {e \in eventsU : EarlierEvent("Upper", q, e, f)}) \union {f}})
      BY <1>9, Zenon DEF RunFails
    <3> QED BY <3>1
  <2>2. PICK es : es \subseteq eventsL \union eventsU /\ ClauseFails({e.clause : e \in es})
    BY <2>1
  <2> QED BY <2>2, <1>7 DEF Fine
<1>10. CASE AddClauses({e.clause : e \in eventsL \union eventsU})
  BY <1>7, <1>10 DEF Fine
<1> QED BY <1>6, <1>8, <1>9, <1>10

-----------------------------------------------------------------------------
(* The invariant of the host suffices for the clauses to follow.           *)

\* Steps keep it.
LEMMA DisjointStepInv ==
    ASSUME HostInv, HostStarts, DisjointWeights, [DisjointNext]_disjointVars
    PROVE  HostInv'
<1>1. CASE UNCHANGED disjointVars
  BY <1>1 DEF disjointVars, hostVars, litVars, HostInv, FlushOK, TrailOK, Top, Previous, dl
<1>2. CASE DisjointNext
  <2>1. UNCHANGED start
    BY <1>2 DEF DisjointNext
  <2>2. CASE Decide
    BY <2>1, <2>2, DecideHostInv
  <2>3. CASE UnitPropagate \/ Deliver
    BY <2>1, <2>3, UnitHostInv
  <2>4. CASE CheckIdle \/ CheckFalse
    BY <2>1, <2>4, IdleHostInv
  <2>5. CASE PropagateDisjoint
    <3>1. CheckPropagate /\ FlushBounds /\ UNCHANGED <<trail, inactive>>
      BY <2>5 DEF PropagateDisjoint
    <3>2. PICK cs : (AddClauses(cs) \/ ClauseFails(cs)) /\ \A c \in cs : \A l \in c.lits : LitOK(l)
      BY <2>5, AddedEvents
    <3> QED BY <2>1, <3>1, <3>2, ClausesHostInv
  <2>6. CASE UndoDisjoint
    BY <2>1, <2>6, UndoHostInv DEF UndoDisjoint
  <2> QED BY <1>2, <2>2, <2>3, <2>4, <2>5, <2>6 DEF DisjointNext, DisjointStep
<1> QED BY <1>1, <1>2

\* So are the clauses of each step.
LEMMA DisjointStepClauses ==
    ASSUME HostInv, HostStarts, DisjointWeights, DisjointClausesEntailed, [DisjointNext]_disjointVars
    PROVE  DisjointClausesEntailed'
<1>1. CASE UNCHANGED disjointVars
  BY <1>1 DEF disjointVars, hostVars, DisjointClausesEntailed, EntailedBy, Assignments
<1>2. CASE DisjointNext /\ added' = {}
  BY <1>2 DEF DisjointClausesEntailed
<1>3. CASE PropagateDisjoint /\ DisjointNext
  <2>1. PICK cs :
          /\ AddClauses(cs) \/ ClauseFails(cs)
          /\ \A c \in cs : \A a \in [Vars -> Int] : AllDisjoint(a) => \E l \in c.lits : HoldsFor(l, a)
    BY <1>3, AddedEvents
  <2>2. added' = cs /\ start' = start
    BY <1>3, <2>1 DEF AddClauses, ClauseFails, DisjointNext
  <2>3. Assignments' \subseteq [Vars -> Int]
    <3>1. \A v \in Vars : start.lo[v] \in Int /\ start.up[v] \in Int
      BY DEF HostInv, HostStarts
    <3>2. UNION {start.lo[v]..start.up[v] : v \in Vars} \subseteq Int
      BY <3>1
    <3> QED BY <2>2, <3>2 DEF Assignments
  <2> QED BY <2>1, <2>2, <2>3 DEF DisjointClausesEntailed, EntailedBy
<1>4. ASSUME DisjointNext
      PROVE  PropagateDisjoint \/ added' = {}
  BY <1>4 DEF DisjointNext, DisjointStep, Decide, UnitPropagate, Deliver, CheckIdle, CheckFalse, UndoDisjoint, HostUndo
<1> QED BY <1>1, <1>2, <1>3, <1>4

\* For any number of intervals of any lengths, and whatever was remembered
\* when propagation was cut short, the clauses for overfull ranges and Hall
\* intervals follow from the constraint.
THEOREM DisjointClausesFollow ==
    ASSUME HostStarts, DisjointWeights
    PROVE  DisjointSpec => []DisjointClausesEntailed
<1> DEFINE Inv == HostInv /\ DisjointClausesEntailed
<1>1. DisjointInit => Inv
  BY HostInitInv DEF DisjointInit, HostInit, DisjointClausesEntailed
<1>2. Inv /\ [DisjointNext]_disjointVars => Inv'
  BY DisjointStepInv, DisjointStepClauses
<1>3. Inv => DisjointClausesEntailed
  OBVIOUS
<1> HIDE DEF Inv
<1> QED BY <1>1, <1>2, <1>3, PTL DEF DisjointSpec

-----------------------------------------------------------------------------
(* Sums over variables and sums over their positions.                      *)

\* z gives the positions in the order p what w gives to the numbers, and T
\* are the positions of the members of S.
Rearranged(n, w, z, p, S, T) ==
    /\ n \in Nat /\ w \in [1..n -> Nat] /\ z \in [1..n -> Nat] /\ p \in [1..n -> 1..n]
    /\ \A q \in 1..n : z[q] = w[p[q]]
    /\ \A i, q \in 1..n : p[i] = p[q] => i = q
    /\ \A v \in 1..n : \E q \in 1..n : p[q] = v
    /\ \A q \in 1..n : q \in T <=> p[q] \in S

\* The members of S up to k weigh the same as their positions, by induction
\* over k.
LEMMA Permuted ==
    ASSUME NEW n, NEW w, NEW z, NEW p, NEW S, NEW T, Rearranged(n, w, z, p, S, T)
    PROVE  Sum(n, WeightsIn(n, w, S)) = Sum(n, WeightsIn(n, z, T))
<1> USE DEF Rearranged
<1> DEFINE A(k) == {v \in 1..n : v \in S /\ v <= k}
           B(k) == {q \in 1..n : p[q] \in A(k)}
           Wa(k) == Sum(n, WeightsIn(n, w, A(k)))
           Wb(k) == Sum(n, WeightsIn(n, z, B(k)))
           Bad == {k \in 0..n : Wa(k) # Wb(k)}
<1>1. Wa(0) = Wb(0)
  <2>1. \A i \in 1..n : i \notin A(0) /\ i \notin B(0)
    OBVIOUS
  <2>2. ASSUME NEW R, NEW x \in [1..n -> Nat], \A i \in 1..n : i \notin R
        PROVE  Sum(n, WeightsIn(n, x, R)) = 0
    <3> DEFINE f == WeightsIn(n, x, R)
    <3>1. f \in [1..n -> Int] /\ \A i \in 1..n : f[i] = 0
      BY <2>2 DEF WeightsIn
    <3> HIDE DEF f
    <3>2. Sum(n, f) = 0
      BY <3>1, SumZero
    <3> QED BY <3>2 DEF f
  <2> HIDE DEF A, B
  <2>3. Sum(n, WeightsIn(n, w, A(0))) = 0
    BY <2>1, <2>2
  <2>4. Sum(n, WeightsIn(n, z, B(0))) = 0
    BY <2>1, <2>2
  <2> QED BY <2>3, <2>4
<1>2. ASSUME NEW k \in 1..n, Wa(k - 1) = Wb(k - 1)
      PROVE  Wa(k) = Wb(k)
  <2>1. \A i \in 1..n : i <= k <=> i <= k - 1 \/ i = k
    OBVIOUS
  <2>2. CASE k \notin S
    <3>1. A(k) = A(k - 1)
      BY <2>1, <2>2
    <3>2. B(k) = B(k - 1)
      BY <3>1
    <3> HIDE DEF A, B
    <3> QED BY <1>2, <3>1, <3>2
  <2>3. CASE k \in S
    <3>1. /\ k \notin A(k - 1) /\ k \in A(k)
          /\ \A i \in 1..n : i # k => (i \in A(k) <=> i \in A(k - 1))
      <4>1. ~(k <= k - 1) /\ k <= k
        OBVIOUS
      <4> QED BY <2>1, <2>3, <4>1
    <3>2. PICK q \in 1..n : p[q] = k
      OBVIOUS
    <3>3. \A i \in 1..n : p[i] \in 1..n /\ (i # q => p[i] # k)
      BY <3>2
    <3>4. /\ q \notin B(k - 1) /\ q \in B(k)
          /\ \A i \in 1..n : i # q => (i \in B(k) <=> i \in B(k - 1))
      <4> HIDE DEF A
      <4> QED BY <3>1, <3>2, <3>3
    <3>5. z[q] = w[k] /\ w[k] \in Nat
      BY <3>2
    <3> HIDE DEF A, B
    <3>0. PICK a1, a2, b1, b2 : a1 = A(k - 1) /\ a2 = A(k) /\ b1 = B(k - 1) /\ b2 = B(k)
      OBVIOUS
    <3>6. Sum(n, WeightsIn(n, w, a2)) = Sum(n, WeightsIn(n, w, a1)) + w[k]
      <4> DEFINE f == WeightsIn(n, w, a1)
                 g == WeightsIn(n, w, a2)
      <4>1. /\ f \in [1..n -> Int] /\ g \in [1..n -> Int]
            /\ \A i \in 1..n : f[i] = IF i \in a1 THEN w[i] ELSE 0
            /\ \A i \in 1..n : g[i] = IF i \in a2 THEN w[i] ELSE 0
        <5>1. n \in Nat /\ w \in [1..n -> Nat]
          OBVIOUS
        <5> QED BY ONLY <5>1, WeightsType
      <4> HIDE DEF f, g
      <4>2. f[k] = 0 /\ g[k] = w[k] /\ w[k] \in Nat
        BY <3>0, <3>1, <4>1
      <4>3. \A i \in 1..n : i # k => f[i] = g[i]
        BY <3>0, <3>1, <4>1
      <4>4. Sum(n, g) = Sum(n, f) + (g[k] - f[k])
        <5>1. f \in [1..n -> Int] /\ g \in [1..n -> Int] /\ k \in 1..n /\ n \in Nat
          BY <4>1
        <5> QED BY ONLY <5>1, <4>3, SumChange
      <4>5. Sum(n, f) \in Int
        BY <4>1, SumType
      <4> QED BY <4>2, <4>4, <4>5 DEF f, g
    <3>7. Sum(n, WeightsIn(n, z, b2)) = Sum(n, WeightsIn(n, z, b1)) + z[q]
      <4> DEFINE f == WeightsIn(n, z, b1)
                 g == WeightsIn(n, z, b2)
      <4>1. /\ f \in [1..n -> Int] /\ g \in [1..n -> Int]
            /\ \A i \in 1..n : f[i] = IF i \in b1 THEN z[i] ELSE 0
            /\ \A i \in 1..n : g[i] = IF i \in b2 THEN z[i] ELSE 0
        <5>1. n \in Nat /\ z \in [1..n -> Nat]
          OBVIOUS
        <5> QED BY ONLY <5>1, WeightsType
      <4> HIDE DEF f, g
      <4>2. f[q] = 0 /\ g[q] = z[q] /\ z[q] \in Nat
        BY <3>0, <3>4, <4>1
      <4>3. \A i \in 1..n : i # q => f[i] = g[i]
        BY <3>0, <3>4, <4>1
      <4>4. Sum(n, g) = Sum(n, f) + (g[q] - f[q])
        <5>1. f \in [1..n -> Int] /\ g \in [1..n -> Int] /\ q \in 1..n /\ n \in Nat
          BY <4>1
        <5> QED BY ONLY <5>1, <4>3, SumChange
      <4>5. Sum(n, f) \in Int
        BY <4>1, SumType
      <4> QED BY <4>2, <4>4, <4>5 DEF f, g
    <3> QED BY <1>2, <3>0, <3>5, <3>6, <3>7
  <2> QED BY <2>2, <2>3
<1> HIDE DEF Wa, Wb
<1>3. Bad = {}
  <2> SUFFICES ASSUME Bad # {} PROVE FALSE
    OBVIOUS
  <2>1. PICK k \in Bad : \A m \in Bad : k <= m
    <3>1. Bad \subseteq Nat
      OBVIOUS
    <3> HIDE DEF Bad
    <3> QED BY <3>1, LeastNatural
  <2>2. k \in 1..n
    BY <1>1
  <2>3. k - 1 \in 0..n /\ ~(k <= k - 1)
    BY <2>2
  <2>4. Wa(k - 1) = Wb(k - 1)
    BY <2>1, <2>3
  <2> QED BY <1>2, <2>2, <2>4
<1>4. Wa(n) = Wb(n)
  BY <1>3
<1>5. \A i \in 1..n : (i \in A(n) <=> i \in S) /\ (i \in B(n) <=> i \in T)
  <2>1. \A i \in 1..n : i \in A(n) <=> i \in S
    OBVIOUS
  <2> HIDE DEF A
  <2> QED BY <2>1
<1>6. WeightsIn(n, w, A(n)) = WeightsIn(n, w, S) /\ WeightsIn(n, z, B(n)) = WeightsIn(n, z, T)
  <2> HIDE DEF A, B
  <2> QED BY <1>5 DEF WeightsIn
<1> QED BY <1>4, <1>6 DEF Wa, Wb


-----------------------------------------------------------------------------
(* What insert adds up without clauses for ranges that are too small.      *)

\* A step of insert is exact if no range is overfull.
LEMMA InsertedExact ==
    ASSUME NEW type, NEW p, OrderOK(type, p), NEW n \in Vars, NEW u \in [Vars -> Int],
           Overfull(type, p, n, u) = {}
    PROVE  LET w == Inserted(type, p, n, u) IN
           /\ w[n] = Lower(type, p[n]) - 1 + Weigh(p, Group(type, p, n, n))
           /\ \A m \in Vars : m # n =>
                w[m] = IF m \in BlockBefore(type, p, n) /\ Lower(type, p[m]) < Lower(type, p[n])
                       THEN u[m] + Weight[p[n]] ELSE u[m]
<1> DEFINE w == Inserted(type, p, n, u)
           reached == BlockBefore(type, p, n)
           below == {m \in reached : Lower(type, p[m]) < Lower(type, p[n])}
           f == [q \in Vars |-> IF q \in reached \ below THEN Weight[p[q]] ELSE 0]
           G == Group(type, p, n, n)
           H == reached \ below
<1>1. /\ NumVars \in Nat /\ Vars = 1..NumVars /\ p \in [Vars -> Vars]
      /\ Lengths(p) \in [1..NumVars -> Nat]
      /\ \A m \in Vars : /\ Lengths(p)[m] = Weight[p[m]] /\ Weight[p[m]] \in Nat
                         /\ Lower(type, p[m]) \in Int
  BY OrderFacts
<1>2. Reached(type, p, n, u) = reached
  BY DEF Reached
<1>3. reached \subseteq Vars /\ \A m : m \in reached <=> m \in Vars /\ m < n /\ m \in Block(type, p, n)
  BY DEF BlockBefore, Block
<1>4. w = [m \in Vars |->
            IF m = n THEN Lower(type, p[n]) + Weight[p[n]] - 1 + Sum(NumVars, f)
            ELSE IF m \in below THEN u[m] + Weight[p[n]] ELSE u[m]]
  BY <1>2 DEF Inserted
<1> HIDE DEF reached
<1>5. f = WeightsIn(NumVars, Lengths(p), H)
  <2> HIDE DEF below
  <2> QED BY <1>1 DEF WeightsIn
<1>6. Sum(NumVars, f) = Weigh(p, H)
  BY <1>5 DEF Weigh
<1>7. n \notin H
  <2>1. ~(n < n)
    BY <1>1
  <2> QED BY <1>3, <2>1
<1>8. \A q : q \in H \union {n} <=> q \in G
  <2>1. n \in G
    <3>1. n \in Block(type, p, n) /\ n <= n /\ Lower(type, p[n]) >= Lower(type, p[n])
      BY <1>1, BlockOrder
    <3> QED BY <3>1 DEF Group
  <2>2. ASSUME NEW q \in Vars, q # n
        PROVE  q \in H <=> q \in G
    <3>1. q < n <=> q <= n
      BY <1>1, <2>2
    <3>2. ~(Lower(type, p[q]) < Lower(type, p[n])) <=> Lower(type, p[q]) >= Lower(type, p[n])
      <4>1. Lower(type, p[q]) \in Int /\ Lower(type, p[n]) \in Int
        BY <1>1
      <4> QED BY <4>1
    <3> QED BY <1>3, <2>2, <3>1, <3>2 DEF Group
  <2>3. G \subseteq Vars /\ H \subseteq Vars
    BY <1>3 DEF Group, Block
  <2> HIDE DEF G, H
  <2> QED BY <2>1, <2>2, <2>3
<1> HIDE DEF f, H, G
<1>9. H \union {n} = G
  BY <1>8
<1>10. Weigh(p, G) = Weigh(p, H) + Weight[p[n]] /\ Weigh(p, H) \in Int
  BY <1>7, <1>9, WeighFacts
<1>11. w[n] = Lower(type, p[n]) + Weight[p[n]] - 1 + Weigh(p, H)
  BY <1>4, <1>6
<1>12. w[n] = Lower(type, p[n]) - 1 + Weigh(p, G)
  <2>1. Weight[p[n]] \in Nat /\ Lower(type, p[n]) \in Int
    BY <1>1
  <2> HIDE DEF w
  <2> QED BY <1>10, <1>11, <2>1
<1>13. ASSUME NEW m \in Vars, m # n
       PROVE  w[m] = IF m \in BlockBefore(type, p, n) /\ Lower(type, p[m]) < Lower(type, p[n])
                     THEN u[m] + Weight[p[n]] ELSE u[m]
  <2>1. w[m] = IF m \in below THEN u[m] + Weight[p[n]] ELSE u[m]
    BY <1>4, <1>13
  <2>2. m \in below <=> m \in BlockBefore(type, p, n) /\ Lower(type, p[m]) < Lower(type, p[n])
    BY DEF reached
  <2> HIDE DEF w, below
  <2> QED BY <2>1, <2>2
<1> QED BY <1>12, <1>13 DEF G

\* The intervals that add to position m until n is inserted.
Inner(type, p, m, n) ==
    {q \in Block(type, p, m) :
        /\ q <= n
        /\ Lower(type, p[q]) > Lower(type, p[m]) \/ (q <= m /\ Lower(type, p[q]) = Lower(type, p[m]))}

\* Until a range is overfull they are added up, by induction over n.
LEMMA FilledExact ==
    ASSUME NEW type, NEW p, OrderOK(type, p), NEW m \in Vars, NEW n \in m..NumVars,
           \A k \in Block(type, p, m) : k \in m..n => Overfull(type, p, k, Filled(type, p)[k - 1]) = {}
    PROVE  Filled(type, p)[n][m] = Lower(type, p[m]) - 1 + Weigh(p, Inner(type, p, m, n))
<1> DEFINE U == Filled(type, p)
           L(q) == Lower(type, p[q])
           I(k) == Inner(type, p, m, k)
           Good(k) == U[k][m] = L(m) - 1 + Weigh(p, I(k))
           Bad == {k \in Nat : k \in m..n /\ ~Good(k)}
<1>1. /\ NumVars \in Nat /\ Vars = 1..NumVars /\ m \in Nat /\ n \in Nat
      /\ \A q \in Vars : L(q) \in Int /\ Weight[p[q]] \in Nat
  <2>1. NumVars \in Nat /\ Vars = 1..NumVars
    BY OrderFacts
  <2>2. m \in Nat /\ n \in Nat
    BY <2>1
  <2>3. \A q \in Vars : L(q) \in Int /\ Weight[p[q]] \in Nat
    BY OrderFacts
  <2> QED BY <2>1, <2>2, <2>3
<1>2. \A k \in Vars : U[k] = Inserted(type, p, k, U[k - 1])
  <2>1. NumVars \in Nat
    BY <1>1
  <2> QED BY ONLY <2>1, FilledDef
<1>3. \A k \in 0..NumVars : U[k] \in [Vars -> Int]
  BY FilledBound
<1>4. /\ \A k \in m..n : k \in Vars /\ k - 1 \in 0..NumVars
      /\ \A q \in Vars : q \in Nat
      /\ m \in m..n
  BY <1>1
<1>5. m \in Block(type, p, m) /\ Block(type, p, m) \subseteq Vars
  BY <1>1, BlockOrder DEF Block
<1>6. \A k \in m..n : k \in Block(type, p, m) => Overfull(type, p, k, U[k - 1]) = {}
  BY <1>4
<1> HIDE DEF U
<1>7. Good(m)
  <2> DEFINE u == U[m - 1]
  <2>1. U[m][m] = L(m) - 1 + Weigh(p, Group(type, p, m, m))
    <3>1. m \in Vars /\ u \in [Vars -> Int] /\ U[m] = Inserted(type, p, m, u)
      BY <1>2, <1>3, <1>4
    <3>2. Overfull(type, p, m, u) = {}
      BY <1>4, <1>5, <1>6
    <3> HIDE DEF u
    <3> QED BY <3>1, <3>2, InsertedExact
  <2>2. Group(type, p, m, m) = I(m)
    <3>1. ASSUME NEW q \in Block(type, p, m), q <= m
          PROVE  L(q) >= L(m) <=> (L(q) > L(m) \/ (q <= m /\ L(q) = L(m)))
      <4>1. L(q) \in Int /\ L(m) \in Int
        BY <1>1, <1>5
      <4> HIDE DEF L
      <4> QED BY <3>1, <4>1
    <3> QED BY <3>1 DEF Group, Inner
  <2> QED BY <2>1, <2>2
<1>8. ASSUME NEW k \in m..n, k # m, Good(k - 1)
      PROVE  Good(k)
  <2> DEFINE u == U[k - 1]
             w == U[k]
  <2>1. /\ k \in Vars /\ m \in Vars /\ k - 1 \in Nat /\ m < k
        /\ u \in [Vars -> Int] /\ w = Inserted(type, p, k, u)
    <3>1. k \in Vars /\ k - 1 \in 0..NumVars
      BY <1>4
    <3>2. u \in [Vars -> Int] /\ w = Inserted(type, p, k, u)
      BY <1>2, <1>3, <3>1
    <3>3. m \in Vars /\ k - 1 \in Nat /\ m < k
      BY <1>1, <1>8, <3>1
    <3> QED BY <3>1, <3>2, <3>3
  <2> HIDE DEF u, w
  <2>2. k \notin I(k - 1)
    <3>1. ~(k <= k - 1)
      BY <2>1
    <3> QED BY <3>1 DEF Inner
  <2>3. ASSUME NEW q \in Vars, q # k
        PROVE  q \in I(k) <=> q \in I(k - 1)
    <3>1. q <= k <=> q <= k - 1
      BY <1>4, <2>1, <2>3
    <3> QED BY <3>1 DEF Inner
  <2>4. k \in I(k) <=> k \in Block(type, p, m) /\ L(k) > L(m)
    <3>1. k <= k /\ ~(k <= m)
      BY <1>4, <2>1
    <3> QED BY <3>1 DEF Inner
  <2>5. I(k) \subseteq Vars /\ I(k - 1) \subseteq Vars
    BY <1>5 DEF Inner
  <2>6. k \in Block(type, p, m) <=> m \in BlockBefore(type, p, k)
    BY <1>1, <2>1, BlockOrder DEF BlockBefore
  <2>7. L(k) \in Int /\ L(m) \in Int /\ Weight[p[k]] \in Nat /\ u[m] \in Int
    BY <1>1, <2>1
  <2>8. u[m] = L(m) - 1 + Weigh(p, I(k - 1)) /\ Weigh(p, I(k - 1)) \in Int
    BY <1>8, WeighFacts DEF u
  <2> HIDE DEF I
  <2>9. CASE k \in Block(type, p, m) /\ L(k) > L(m)
    <3>1. I(k) = I(k - 1) \union {k}
      BY <2>2, <2>3, <2>4, <2>5, <2>9
    <3>2. Weigh(p, I(k)) = Weigh(p, I(k - 1)) + Weight[p[k]]
      BY <2>1, <2>2, <3>1, WeighFacts
    <3>3. Overfull(type, p, k, u) = {}
      BY <1>6, <2>9 DEF u
    <3>4. m # k /\ L(m) < L(k)
      BY <1>4, <2>1, <2>7, <2>9
    <3>5. w[m] = u[m] + Weight[p[k]]
      BY <2>1, <2>6, <2>9, <3>3, <3>4, InsertedExact
    <3> HIDE DEF L
    <3> QED BY <2>7, <2>8, <3>2, <3>5 DEF w
  <2>10. CASE ~(k \in Block(type, p, m) /\ L(k) > L(m))
    <3>1. I(k) = I(k - 1)
      BY <2>2, <2>3, <2>4, <2>5, <2>10
    <3>2. m # k /\ (m \in BlockBefore(type, p, k) => ~(L(m) < L(k)))
      BY <1>4, <2>1, <2>6, <2>7, <2>10
    <3>3. w[m] = u[m]
      BY <2>1, <3>2, InsertedFacts
    <3> QED BY <2>8, <3>1, <3>3 DEF w
  <2> QED BY <2>9, <2>10
<1>9. Bad = {}
  <2> HIDE DEF Good
  <2> SUFFICES ASSUME Bad # {} PROVE FALSE
    OBVIOUS
  <2>1. PICK k \in Bad : \A i \in Bad : k <= i
    <3>1. Bad \subseteq Nat
      OBVIOUS
    <3> HIDE DEF Bad
    <3> QED BY <3>1, LeastNatural
  <2>2. k # m /\ k \in m..n /\ ~Good(k)
    BY <1>7
  <2>3. k - 1 \in m..n /\ k - 1 \in Nat /\ ~(k <= k - 1)
    BY <1>1, <2>2
  <2>4. Good(k - 1)
    BY <2>1, <2>3
  <2> QED BY <1>8, <2>2, <2>4
<1>10. Good(n)
  <2> HIDE DEF Good
  <2>1. n \in m..n
    BY <1>1
  <2> QED BY <1>1, <1>9, <2>1
<1> QED BY <1>10 DEF U


-----------------------------------------------------------------------------
(* Where the constraint is a fact and no clause was conflicting, the       *)
(* intervals of a partition that was visited fit.                          *)

\* A clause that was added cannot be false.
Kept(cs, lits) == Because(lits) \in cs
Accepted(cs) == clit = "true" /\ clitLevel = 0 /\ ~Conflicting(cs)

\* Its literals are not all false.
LEMMA AcceptedOpen ==
    ASSUME NEW cs, Accepted(cs), NEW lits, Kept(cs, lits)
    PROVE  \E l \in lits : ~FalseIn(l, Top)
<1> DEFINE c == Because(lits)
<1>1. c \in cs /\ c.lits = lits /\ ~c.guarded
  <2>1. ~(clitLevel > 0 \/ clit = "free")
    BY DEF Accepted
  <2>2. c = [lits |-> lits, guarded |-> (clitLevel > 0 \/ clit = "free")]
    BY DEF Because, Clause
  <2>3. c.lits = lits /\ c.guarded = (clitLevel > 0 \/ clit = "free")
    BY <2>2
  <2>4. c \in cs
    BY DEF Kept
  <2> HIDE DEF c
  <2> QED BY <2>1, <2>3, <2>4
<1> HIDE DEF c
<1>2. ~Guarded(c)
  BY <1>1 DEF Guarded
<1>3. OpenPart(c) # {}
  BY <1>1, <1>2 DEF Accepted, Conflicting
<1> QED BY <1>1, <1>3 DEF OpenPart

\* The reasons of all clauses are false.
LEMMA HallReasonFalse ==
    ASSUME NEW type, NEW p, OrderOK(type, p), NEW n, NEW c,
           NEW l \in HallReason(type, p, n, c)
    PROVE  FalseIn(l, Top)
<1>1. PICK q \in Block(type, p, n) : l \in {LE(p[q], Top.lo[p[q]] - 1), GT(p[q], Top.up[p[q]])}
  BY DEF HallReason
<1> DEFINE v == p[q]
<1>2. v \in Vars
  BY OrderFacts DEF Block
<1>3. Top.lo[v] \in Int /\ Top.up[v] \in Int
  BY <1>2 DEF OrderOK, Bounds
<1>4. l = LE(v, Top.lo[v] - 1) \/ l = GT(v, Top.up[v])
  BY <1>1
<1> HIDE DEF v
<1>5. CASE l = LE(v, Top.lo[v] - 1)
  <2>1. l.kind = "le" /\ l.var = v /\ l.value = Top.lo[v] - 1
    BY <1>5 DEF LE, OrderLit
  <2>2. Top.lo[v] > Top.lo[v] - 1
    BY <1>3
  <2> QED BY <2>1, <2>2 DEF FalseIn
<1>6. CASE l = GT(v, Top.up[v])
  <2>1. l.kind = "gt" /\ l.var = v /\ l.value = Top.up[v]
    BY <1>6 DEF GT, OrderLit
  <2>2. Top.up[v] <= Top.up[v]
    BY <1>3
  <2> QED BY <2>1, <2>2 DEF FalseIn
<1> QED BY <1>4, <1>5, <1>6

\* The clauses for position n are among cs.
Inserts(type, p, n, cs) ==
    \A e \in InsertClauses(type, p, n, Filled(type, p)[n - 1], Filled(type, p)[n]) : e.clause \in cs

\* What was added up stays within the ends of the intervals.
LEMMA LiveFits ==
    ASSUME NEW type, NEW p, OrderOK(type, p), NEW cs, Accepted(cs), NEW n \in Vars, Inserts(type, p, n, cs)
    PROVE  /\ Overfull(type, p, n, Filled(type, p)[n - 1]) = {}
           /\ Filled(type, p)[n][n] <= Upper(type, p[n])
           /\ \A m \in BlockBefore(type, p, n) :
                Lower(type, p[m]) < Lower(type, p[n]) => Filled(type, p)[n][m] <= Upper(type, p[n])
<1> DEFINE u == Filled(type, p)[n - 1]
           w == Filled(type, p)[n]
           b == Upper(type, p[n])
           over == Overfull(type, p, n, u)
<1>1. /\ NumVars \in Nat /\ Vars = 1..NumVars /\ b \in Int
      /\ \A m \in Vars : Weight[p[m]] \in Nat
  BY OrderFacts
<1>2. n - 1 \in 0..NumVars /\ n \in 0..NumVars
  BY <1>1
<1>3. u \in [Vars -> Int] /\ w \in [Vars -> Int]
  BY <1>2, FilledBound
<1>4. w = Inserted(type, p, n, u)
  <2>1. NumVars \in Nat
    BY <1>1
  <2> QED BY ONLY <2>1, FilledDef
<1>5. \A e \in InsertClauses(type, p, n, u, w) : e.clause \in cs
  BY DEF Inserts
<1>6. ASSUME NEW c, \E e \in InsertClauses(type, p, n, u, w) : e.clause = Because(HallReason(type, p, n, c))
      PROVE  FALSE
  <2>1. Kept(cs, HallReason(type, p, n, c))
    BY <1>5, <1>6 DEF Kept
  <2> QED BY <2>1, AcceptedOpen, HallReasonFalse
<1>7. over = {}
  <2> SUFFICES ASSUME over # {} PROVE FALSE
    OBVIOUS
  <2> DEFINE c == Lower(type, p[Min(over)])
             e == Event(n, n, HallReason(type, p, n, c))
  <2>1. InsertClauses(type, p, n, u, w) = {e}
    BY DEF InsertClauses
  <2>2. e.clause = Because(HallReason(type, p, n, c))
    BY DEF Event
  <2> HIDE DEF e, c, u, w
  <2> QED BY <1>6, <2>1, <2>2
<1>8. w[n] <= b
  <2> SUFFICES ASSUME ~(w[n] <= b) PROVE FALSE
    OBVIOUS
  <2> DEFINE c == Lower(type, p[n])
             e == Event(n, n, HallReason(type, p, n, c))
  <2>0. w[n] > b
    BY <1>1, <1>3
  <2>1. InsertClauses(type, p, n, u, w) = {e}
    BY <1>7, <2>0 DEF InsertClauses
  <2>2. e.clause = Because(HallReason(type, p, n, c))
    BY DEF Event
  <2> HIDE DEF e, c, u, w
  <2> QED BY <1>6, <2>1, <2>2
<1>9. ASSUME NEW m \in BlockBefore(type, p, n), Lower(type, p[m]) < Lower(type, p[n])
      PROVE  w[m] <= b
  <2>1. m \in Vars /\ m # n
    BY <1>1 DEF BlockBefore, Block
  <2> HIDE DEF u, w, b
  <2>2. w[m] = u[m] + Weight[p[n]]
    BY <1>3, <1>4, <1>7, <1>9, <2>1, InsertedExact
  <2>3. ~(u[m] + Weight[p[n]] > b)
    BY <1>7, <1>9 DEF Overfull, b
  <2>4. u[m] + Weight[p[n]] \in Int
    BY <1>1, <1>3, <2>1
  <2> QED BY <1>1, <2>2, <2>3, <2>4
<1> QED BY <1>7, <1>8, <1>9

\* A set of the first n numbers that is not empty has a greatest one.
LEMMA GreatestNumber ==
    ASSUME NEW n \in Nat, NEW S \in SUBSET (1..n), S # {}
    PROVE  \E m \in S : \A i \in S : i <= m
<1> DEFINE D == {k \in Nat : \E i \in S : k = n - i}
<1>1. D \subseteq Nat /\ D # {}
  <2>1. PICK i \in S : TRUE
    OBVIOUS
  <2>2. n - i \in Nat
    OBVIOUS
  <2> QED BY <2>1, <2>2
<1>2. PICK k \in D : \A d \in D : k <= d
  <2> HIDE DEF D
  <2> QED BY <1>1, LeastNatural
<1>3. PICK m \in S : k = n - m
  OBVIOUS
<1>4. ASSUME NEW i \in S
      PROVE  i <= m
  <2>1. n - i \in Nat /\ i \in Nat /\ m \in Nat
    OBVIOUS
  <2>2. n - i \in D
    BY <2>1
  <2>3. n - m <= n - i
    BY <1>2, <1>3, <2>2
  <2> QED BY <2>1, <2>3
<1> QED BY <1>4

\* The last one with the least value.
LEMMA LastLeast ==
    ASSUME NEW n \in Nat, NEW f \in [1..n -> Int], NEW S \in SUBSET (1..n), S # {}
    PROVE  \E m \in S : \A i \in S : f[m] < f[i] \/ (f[m] = f[i] /\ i <= m)
<1>1. PICK k \in S : \A i \in S : f[k] <= f[i]
  BY LeastValue
<1> DEFINE E == {i \in S : f[i] = f[k]}
<1>2. E \in SUBSET (1..n) /\ E # {}
  OBVIOUS
<1>3. PICK m \in E : \A i \in E : i <= m
  <2> HIDE DEF E
  <2> QED BY <1>2, GreatestNumber
<1>4. ASSUME NEW i \in S
      PROVE  f[m] < f[i] \/ (f[m] = f[i] /\ i <= m)
  <2>1. f[m] = f[k] /\ f[k] <= f[i] /\ f[i] \in Int /\ f[k] \in Int
    BY <1>1
  <2>2. CASE f[k] = f[i]
    BY <1>3, <2>1, <2>2
  <2>3. CASE f[k] # f[i]
    BY <2>1, <2>3
  <2> QED BY <2>2, <2>3
<1> QED BY <1>4

\* Intervals of a visited partition: what the one that begins first stands
\* for after the last one is inserted is at least what they weigh together.
LEMMA LiveBlock ==
    ASSUME NEW type, NEW p, OrderOK(type, p), NEW cs, Accepted(cs), NEW n \in Vars,
           \A k \in Block(type, p, n) : Inserts(type, p, k, cs),
           NEW T \in SUBSET Block(type, p, n), n \in T, \A q \in T : q <= n
    PROVE  \E m \in T :
             /\ \A q \in T : Lower(type, p[m]) <= Lower(type, p[q])
             /\ m = n \/ (m \in BlockBefore(type, p, n) /\ Lower(type, p[m]) < Lower(type, p[n]))
             /\ Lower(type, p[m]) - 1 + Weigh(p, T) <= Filled(type, p)[n][m]
             /\ Filled(type, p)[n][m] <= Upper(type, p[n])
<1> DEFINE f == [q \in 1..NumVars |-> Lower(type, p[q])]
           L(q) == Lower(type, p[q])
           U == Filled(type, p)
<1>1. /\ NumVars \in Nat /\ Vars = 1..NumVars /\ Vars \subseteq Nat
      /\ \A q \in Vars : Lower(type, p[q]) \in Int
      /\ f \in [1..NumVars -> Int] /\ \A q \in Vars : f[q] = L(q)
  <2>1. NumVars \in Nat /\ Vars = 1..NumVars /\ \A q \in Vars : Lower(type, p[q]) \in Int
    BY OrderFacts
  <2> QED BY <2>1
<1>2. T \in SUBSET (1..NumVars) /\ T # {} /\ T \subseteq Vars
  BY <1>1 DEF Block
<1>3. PICK m \in T : \A q \in T : L(m) < L(q) \/ (L(m) = L(q) /\ q <= m)
  <2>1. PICK m \in T : \A q \in T : f[m] < f[q] \/ (f[m] = f[q] /\ q <= m)
    <3> HIDE DEF f
    <3> QED BY <1>1, <1>2, LastLeast
  <2> QED BY <1>1, <1>2, <2>1
<1>4. m \in Vars /\ m \in Block(type, p, n) /\ m <= n /\ n \in m..NumVars
  BY <1>1, <1>2
<1>5. \A k \in Vars : k \in Block(type, p, m) <=> k \in Block(type, p, n)
  BY <1>1, <1>4, BlockOrder
<1>6. \A k \in Block(type, p, m) : Overfull(type, p, k, U[k - 1]) = {}
  <2>1. Block(type, p, m) \subseteq Vars
    BY DEF Block
  <2> HIDE DEF U
  <2>2. ASSUME NEW k \in Block(type, p, m)
        PROVE  Overfull(type, p, k, U[k - 1]) = {}
    <3>1. k \in Vars /\ Inserts(type, p, k, cs)
      BY <1>5, <2>1
    <3> QED BY <3>1, LiveFits DEF U
  <2> QED BY <2>2
<1>7. U[n][m] = L(m) - 1 + Weigh(p, Inner(type, p, m, n))
  BY <1>4, <1>6, FilledExact
<1>8. T \subseteq Inner(type, p, m, n)
  <2>1. ASSUME NEW q \in T
        PROVE  q \in Inner(type, p, m, n)
    <3>1. q \in Vars /\ q \in Block(type, p, m) /\ q <= n
      BY <1>2, <1>5
    <3>2. L(q) > L(m) \/ (q <= m /\ L(q) = L(m))
      BY <1>1, <1>3, <1>4, <3>1
    <3> QED BY <3>1, <3>2 DEF Inner
  <2> QED BY <2>1
<1>9. Weigh(p, T) <= Weigh(p, Inner(type, p, m, n)) /\ Weigh(p, T) \in Int /\ Weigh(p, Inner(type, p, m, n)) \in Int
  BY <1>8, WeighFacts
<1>10. m = n \/ (m \in BlockBefore(type, p, n) /\ L(m) < L(n))
  <2>1. CASE m # n
    <3>1. m < n /\ ~(n <= m) /\ n \in T
      BY <1>1, <1>4, <2>1
    <3> QED BY <1>3, <1>4, <3>1 DEF BlockBefore
  <2> QED BY <2>1
<1>11. U[n][m] <= Upper(type, p[n])
  <2>1. n \in Block(type, p, n)
    BY <1>1, BlockOrder
  <2>2. Inserts(type, p, n, cs)
    BY <2>1
  <2> QED BY <1>10, <2>2, LiveFits
<1>12. L(m) - 1 + Weigh(p, T) <= U[n][m]
  <2>1. L(m) \in Int
    BY <1>1, <1>4
  <2> HIDE DEF L, U
  <2> QED BY <1>7, <1>9, <2>1
<1>13. \A q \in T : L(m) <= L(q)
  <2>1. \A q \in T : L(m) \in Int /\ L(q) \in Int
    BY <1>1, <1>2
  <2> HIDE DEF L
  <2> QED BY <1>3, <2>1
<1> QED BY <1>10, <1>11, <1>12, <1>13

-----------------------------------------------------------------------------
(* Intervals and ranges.                                                   *)

\* What intervals cover at most for the bounds b.
CoverIn(b) == [v \in Vars |-> [left |-> b.lo[v], right |-> b.up[v] + Weight[v] - 1]]

\* The intervals of S lie within a..b.
Within(c, S, a, b) == \A v \in S : a <= c[v].left /\ c[v].right <= b

\* They fit wherever they lie.
NoneOverfull(c) ==
    \A S \in SUBSET Vars, a \in Int, b \in Int :
        S # {} /\ Within(c, S, a, b) => LengthOf(S) <= b - a + 1

\* Intervals S other than v fill a range in which v begins.
FillsRange(c, v, S, a, b) ==
    Within(c, S, a, b) /\ LengthOf(S) >= b - a + 1 /\ a <= c[v].left /\ c[v].left <= b
Violated(c, v) == \E S \in SUBSET (Vars \ {v}), a \in Int, b \in Int : FillsRange(c, v, S, a, b)

\* The positions of intervals.
Positions(p, S) == {q \in Vars : p[q] \in S}

\* The lengths of intervals are those at their positions.
LEMMA LengthWeighs ==
    ASSUME NEW type, NEW p, OrderOK(type, p)
    PROVE  \A S : LengthOf(S) = Weigh(p, Positions(p, S))
<1>1. /\ NumVars \in Nat /\ Vars = 1..NumVars
      /\ p \in [Vars -> Vars] /\ \A m, n \in Vars : p[m] = p[n] => m = n
      /\ Lengths(p) \in [1..NumVars -> Nat]
      /\ \A n \in Vars : Lengths(p)[n] = Weight[p[n]]
  BY OrderFacts
<1>2. Weight \in [1..NumVars -> Nat]
  BY <1>1 DEF OrderOK, DisjointWeights
<1>3. \A v \in Vars : \E q \in Vars : p[q] = v
  <2>1. p \in Bijection(Vars, Vars)
    BY DEF OrderOK, Sorted
  <2> QED BY <2>1 DEF Bijection, Injection, Surjection, IsInjective
<1>4. ASSUME NEW S
      PROVE  LengthOf(S) = Weigh(p, Positions(p, S))
  <2>1. LengthOf(S) = Sum(NumVars, WeightsIn(NumVars, Weight, S))
    BY <1>1 DEF LengthOf, WeightsIn
  <2> DEFINE T == Positions(p, S)
  <2>2. T \subseteq Vars /\ \A q \in 1..NumVars : q \in T <=> p[q] \in S
    BY <1>1 DEF Positions
  <2> HIDE DEF T
  <2>3. ASSUME NEW n, NEW w, NEW z, n = NumVars, w = Weight, z = Lengths(p)
        PROVE  Sum(n, WeightsIn(n, w, S)) = Sum(n, WeightsIn(n, z, T))
    <3>1. Rearranged(n, w, z, p, S, T)
      BY <1>1, <1>2, <1>3, <2>2, <2>3 DEF Rearranged
    <3> QED BY <3>1, Permuted
  <2>4. Sum(NumVars, WeightsIn(NumVars, Weight, S)) = Sum(NumVars, WeightsIn(NumVars, Lengths(p), T))
    BY <2>3
  <2> QED BY <2>1, <2>4 DEF Weigh, T
<1> QED BY <1>4

\* The intervals at positions T.
At(p, T) == {p[q] : q \in T}

\* Their positions are T.
LEMMA PositionsAt ==
    ASSUME NEW type, NEW p, OrderOK(type, p), NEW T \in SUBSET Vars
    PROVE  /\ At(p, T) \in SUBSET Vars /\ Positions(p, At(p, T)) = T
           /\ LengthOf(At(p, T)) = Weigh(p, T)
           /\ \A v : v \in At(p, T) => \E q \in T : v = p[q]
           /\ \A j \in Vars : j \notin T => p[j] \notin At(p, T)
<1>1. p \in [Vars -> Vars] /\ \A m, n \in Vars : p[m] = p[n] => m = n
  BY OrderFacts
<1>2. Positions(p, At(p, T)) = T
  BY <1>1 DEF Positions, At
<1>3. LengthOf(At(p, T)) = Weigh(p, T)
  BY <1>2, LengthWeighs
<1>4. At(p, T) \in SUBSET Vars /\ \A j \in Vars : j \notin T => p[j] \notin At(p, T)
  BY <1>1 DEF At
<1> QED BY <1>2, <1>3, <1>4 DEF At

\* Weights of sets without a common member add up.
LEMMA WeighUnion ==
    ASSUME NEW type, NEW p, OrderOK(type, p), NEW S, NEW T, S \cap T = {}
    PROVE  Weigh(p, S \union T) = Weigh(p, S) + Weigh(p, T)
<1>1. NumVars \in Nat /\ Lengths(p) \in [1..NumVars -> Nat]
  BY OrderFacts
<1>2. ASSUME NEW n, NEW w, n = NumVars, w = Lengths(p)
      PROVE  Sum(n, WeightsIn(n, w, S \union T)) = Sum(n, WeightsIn(n, w, S)) + Sum(n, WeightsIn(n, w, T))
  <2> DEFINE f == WeightsIn(n, w, S)
             g == WeightsIn(n, w, T)
             R == S \union T
             h == WeightsIn(n, w, R)
  <2>1. n \in Nat /\ w \in [1..n -> Nat]
    BY <1>1, <1>2
  <2> HIDE DEF R
  <2>2. /\ f \in [1..n -> Int] /\ g \in [1..n -> Int] /\ h \in [1..n -> Int]
        /\ \A i \in 1..n : f[i] = IF i \in S THEN w[i] ELSE 0
        /\ \A i \in 1..n : g[i] = IF i \in T THEN w[i] ELSE 0
        /\ \A i \in 1..n : h[i] = IF i \in R THEN w[i] ELSE 0
    <3>1. f \in [1..n -> Int] /\ \A i \in 1..n : f[i] = IF i \in S THEN w[i] ELSE 0
      BY <2>1, WeightsType
    <3>2. g \in [1..n -> Int] /\ \A i \in 1..n : g[i] = IF i \in T THEN w[i] ELSE 0
      BY <2>1, WeightsType
    <3>3. h \in [1..n -> Int] /\ \A i \in 1..n : h[i] = IF i \in R THEN w[i] ELSE 0
      BY <2>1, WeightsType
    <3> HIDE DEF f, g, h
    <3> QED BY <3>1, <3>2, <3>3
  <2> HIDE DEF f, g, h
  <2>3. ASSUME NEW i \in 1..n
        PROVE  h[i] = f[i] + g[i]
    <3>1. (i \in R <=> i \in S \/ i \in T) /\ ~(i \in S /\ i \in T) /\ w[i] \in Nat
      BY <2>1 DEF R
    <3> QED BY <2>2, <3>1
  <2>4. Sum(n, h) = Sum(n, f) + Sum(n, g)
    BY ONLY <2>1, <2>2, <2>3, SumAdd
  <2> QED BY <2>4 DEF f, g, h, R
<1>3. Sum(NumVars, WeightsIn(NumVars, Lengths(p), S \union T))
        = Sum(NumVars, WeightsIn(NumVars, Lengths(p), S)) + Sum(NumVars, WeightsIn(NumVars, Lengths(p), T))
  BY <1>2
<1> QED BY <1>3 DEF Weigh

-----------------------------------------------------------------------------
(* The intervals of one partition.                                         *)

\* Nothing is overfull in the bounds remembered, and intervals that begin in
\* full ranges there begin later by now.
Fit(ls) == NoneOverfull(ls) /\ \A v \in Vars : Violated(ls, v) => Top.lo[v] > ls[v].left

\* Each partition was visited, or its bounds are those remembered.
Checked(p, ls, cs) ==
    \A n \in Vars :
        \/ \A m \in Block("Lower", p, n) : Inserts("Lower", p, m, cs)
        \/ Fit(ls) /\ \A m \in Block("Lower", p, n) : ls[p[m]] = Cover(p[m])

\* What is known after a call of propagate added the clauses cs.
Searched(p, ls, cs) == OrderOK("Lower", p) /\ Accepted(cs) /\ Checked(p, ls, cs)

\* The ends of an interval.
LEMMA CoverEnds ==
    ASSUME NEW v \in Vars
    PROVE  /\ Cover(v).left = Lower("Lower", v) /\ Cover(v).right = Upper("Lower", v)
           /\ CoverIn(Top)[v] = Cover(v) /\ Lower("Lower", v) = Top.lo[v]
BY DEF Cover, CoverIn, Lower, Upper, Left, Right

\* Intervals of one partition fit between c and the end of the last one.
LEMMA BlockFits ==
    ASSUME NEW p, NEW ls, NEW cs, Searched(p, ls, cs), NEW n \in Vars,
           NEW T \in SUBSET Block("Lower", p, n), n \in T, \A q \in T : q <= n,
           NEW c \in Int, \A q \in T : c <= Lower("Lower", p[q])
    PROVE  Weigh(p, T) <= Upper("Lower", p[n]) - c + 1
<1> DEFINE L(q) == Lower("Lower", p[q])
           R(q) == Upper("Lower", p[q])
<1>1. OrderOK("Lower", p) /\ Accepted(cs)
  BY DEF Searched
<1>2. /\ NumVars \in Nat /\ Vars = 1..NumVars
      /\ \A q \in Vars : p[q] \in Vars /\ L(q) \in Int /\ R(q) \in Int
      /\ \A k, q \in Vars : k <= q => R(k) <= R(q)
  <2>1. OrderOK("Lower", p)
    BY <1>1
  <2> QED BY ONLY <2>1, OrderFacts
<1>3. T \subseteq Vars
  BY DEF Block
<1>4. Weigh(p, T) \in Int
  BY <1>1, WeighFacts
<1>5. CASE \A m \in Block("Lower", p, n) : Inserts("Lower", p, m, cs)
  <2>1. PICK m \in T : LET y == Filled("Lower", p)[n][m] IN
          /\ \A q \in T : Lower("Lower", p[m]) <= Lower("Lower", p[q])
          /\ Lower("Lower", p[m]) - 1 + Weigh(p, T) <= y
          /\ y <= Upper("Lower", p[n])
    BY <1>1, <1>5, LiveBlock
  <2>2. c <= L(m) /\ L(m) \in Int /\ R(n) \in Int
    BY <1>2, <1>3
  <2>3. n \in 0..NumVars /\ m \in Vars
    BY <1>2, <1>3
  <2>4. Filled("Lower", p)[n][m] \in Int
    <3>1. Filled("Lower", p)[n] \in [Vars -> Int]
      BY <1>1, <2>3, FilledBound
    <3> QED BY <2>3, <3>1
  <2>5. ASSUME NEW y, y = Filled("Lower", p)[n][m]
        PROVE  Weigh(p, T) <= R(n) - c + 1
    <3>1. L(m) - 1 + Weigh(p, T) <= y /\ y <= R(n) /\ y \in Int
      BY <2>1, <2>4, <2>5
    <3> HIDE DEF L, R
    <3> QED BY <1>4, <2>2, <3>1
  <2> QED BY <2>5
<1>6. CASE Fit(ls) /\ \A m \in Block("Lower", p, n) : ls[p[m]] = Cover(p[m])
  <2> DEFINE S == At(p, T)
  <2>1. S \in SUBSET Vars /\ LengthOf(S) = Weigh(p, T) /\ \A v : v \in S => \E q \in T : v = p[q]
    BY <1>1, <1>3, PositionsAt
  <2>2. S # {}
    BY DEF At
  <2> HIDE DEF S
  <2>3. Within(ls, S, c, R(n))
    <3>1. ASSUME NEW v \in S
          PROVE  c <= ls[v].left /\ ls[v].right <= R(n)
      <4>1. PICK q \in T : v = p[q]
        BY <2>1
      <4>2. ls[v] = Cover(v) /\ v \in Vars /\ q \in Vars
        BY <1>2, <1>3, <1>6, <4>1
      <4>3. ls[v].left = L(q) /\ ls[v].right = R(q)
        BY <4>1, <4>2, CoverEnds
      <4>4. R(q) <= R(n)
        BY <1>2, <4>2
      <4> QED BY <4>3, <4>4
    <3> QED BY <3>1 DEF Within
  <2>4. R(n) \in Int
    BY <1>2
  <2> HIDE DEF R
  <2>5. LengthOf(S) <= R(n) - c + 1
    BY <1>6, <2>1, <2>2, <2>3, <2>4 DEF Fit, NoneOverfull
  <2> QED BY <2>1, <2>5 DEF R
<1> QED BY <1>5, <1>6 DEF Searched, Checked

\* Earlier partitions end before later ones begin.
LEMMA LaterBlock ==
    ASSUME NEW type, NEW p, OrderOK(type, p), NEW m \in Vars, NEW n \in Vars, m < n,
           m \notin Block(type, p, n), NEW t \in Block(type, p, n)
    PROVE  m < t /\ Upper(type, p[m]) < Lower(type, p[t])
<1>1. NumVars \in Nat /\ Vars = 1..NumVars /\ t \in Vars
  BY OrderFacts DEF Block
<1>2. PICK q \in (m + 1)..n \union (n + 1)..m : StartsBlock(type, p, q)
  BY DEF Block
<1>3. q \in Int /\ m < q /\ q <= n
  BY <1>1
<1>4. ~(t < q)
  <2> SUFFICES ASSUME t < q PROVE FALSE
    OBVIOUS
  <2>1. q \in (t + 1)..n
    BY <1>1, <1>3
  <2> QED BY <1>2, <2>1 DEF Block
<1>5. m \in 1..(q - 1) /\ t \in Vars \ 1..(q - 1) /\ m < t
  BY <1>1, <1>3, <1>4
<1> QED BY <1>2, <1>5 DEF StartsBlock

\* Intervals at any positions fit where they lie, by induction over the last
\* one: the others of its partition begin after those of earlier ones end.
LEMMA PositionsFit ==
    ASSUME NEW p, NEW ls, NEW cs, Searched(p, ls, cs),
           NEW T \in SUBSET Vars, NEW a \in Int, NEW b \in Int, T # {},
           \A q \in T : a <= Lower("Lower", p[q]) /\ Upper("Lower", p[q]) <= b
    PROVE  Weigh(p, T) <= b - a + 1
<1> DEFINE L(q) == Lower("Lower", p[q])
           R(q) == Upper("Lower", p[q])
           Lies(F, x, y) == \A q \in F : x <= L(q) /\ R(q) <= y
           Good(n) == \A F \in SUBSET (1..n), x \in Int, y \in Int :
                        F # {} /\ Lies(F, x, y) => Weigh(p, F) <= y - x + 1
           Bad == {n \in 0..NumVars : ~Good(n)}
<1>1. OrderOK("Lower", p)
  BY DEF Searched
<1>2. /\ NumVars \in Nat /\ Vars = 1..NumVars /\ Vars \subseteq Nat
      /\ \A q \in Vars : p[q] \in Vars /\ L(q) \in Int /\ R(q) \in Int
      /\ \A k, q \in Vars : k <= q => R(k) <= R(q)
  <2>1. /\ NumVars \in Nat /\ Vars = 1..NumVars
        /\ \A q \in Vars : p[q] \in Vars /\ L(q) \in Int /\ R(q) \in Int
        /\ \A k, q \in Vars : k <= q => R(k) <= R(q)
    BY ONLY <1>1, OrderFacts
  <2> QED BY <2>1
<1>3. \A F : Weigh(p, F) \in Int
  BY <1>1, WeighFacts
<1> HIDE DEF L, R
<1>4. ASSUME NEW n \in 0..NumVars, \A k \in 0..NumVars : k < n => Good(k)
      PROVE  Good(n)
  <2> SUFFICES ASSUME NEW F \in SUBSET (1..n), NEW x \in Int, NEW y \in Int, F # {}, Lies(F, x, y)
               PROVE  Weigh(p, F) <= y - x + 1
    OBVIOUS
  <2>1. F \in SUBSET (1..NumVars) /\ F \subseteq Vars /\ \A q \in F : q \in Nat /\ q <= n
    BY <1>2
  <2>2. PICK k \in F : \A q \in F : q <= k
    BY <1>2, <2>1, GreatestNumber
  <2>3. k \in Vars /\ k \in Nat /\ k \in F /\ R(k) \in Int /\ R(k) <= y
    BY <1>2, <2>1
  <2> DEFINE F1 == {q \in F : q \in Block("Lower", p, k)}
             F0 == {q \in F : q \notin Block("Lower", p, k)}
  <2>4. /\ F1 \in SUBSET Block("Lower", p, k) /\ k \in F1
        /\ F = F0 \union F1 /\ F0 \cap F1 = {} /\ F0 \subseteq F /\ F1 \subseteq F
    BY <1>2, <2>3, BlockOrder
  <2> HIDE DEF F1, F0
  <2>5. Weigh(p, F) = Weigh(p, F0) + Weigh(p, F1)
    BY <1>1, <2>4, WeighUnion
  <2>6. ASSUME NEW c \in Int, \A q \in F1 : c <= L(q)
        PROVE  Weigh(p, F1) <= R(k) - c + 1
    <3>1. \A q \in F1 : q <= k
      BY <2>2, <2>4
    <3> QED BY <2>3, <2>4, <2>6, <3>1, BlockFits DEF L, R
  <2>7. CASE F0 = {}
    <3>1. F = F1
      BY <2>4, <2>7
    <3>2. Weigh(p, F) <= R(k) - x + 1
      BY <2>6, <3>1
    <3> QED BY <1>3, <2>3, <3>2
  <2>8. CASE F0 # {}
    <3>1. PICK e \in F0 : \A q \in F0 : q <= e
      <4>1. F0 \in SUBSET (1..NumVars)
        BY <2>1, <2>4
      <4> QED BY <1>2, <2>8, <4>1, GreatestNumber
    <3>2. e \in F /\ e \in Vars /\ e \in Nat /\ R(e) \in Int /\ e \notin Block("Lower", p, k) /\ e <= k /\ e # k
      BY <1>2, <2>1, <2>2, <2>4 DEF F0
    <3>3. e < k /\ e < n /\ e \in 0..NumVars
      BY <1>2, <2>1, <2>3, <3>2
    <3>4. \A t \in F1 : R(e) < L(t)
      <4>1. \A t \in F1 : t \in Block("Lower", p, k)
        BY <2>4
      <4> QED BY <1>1, <2>3, <3>2, <3>3, <4>1, LaterBlock DEF L, R
    <3>5. Weigh(p, F1) <= R(k) - (R(e) + 1) + 1
      <4>1. ASSUME NEW t \in F1
            PROVE  R(e) + 1 <= L(t)
        <5>1. L(t) \in Int /\ R(e) < L(t)
          BY <1>2, <2>1, <2>4, <3>4
        <5> QED BY <3>2, <5>1
      <4>2. R(e) + 1 \in Int
        BY <3>2
      <4> QED BY <2>6, <4>1, <4>2
    <3>6. Weigh(p, F0) <= R(e) - x + 1
      <4>1. F0 \in SUBSET (1..e)
        <5>1. \A q \in F0 : q \in 1..NumVars /\ q <= e
          BY <1>2, <2>1, <2>4, <3>1
        <5> QED BY <3>2, <5>1
      <4>2. Lies(F0, x, R(e))
        <5>1. ASSUME NEW q \in F0
              PROVE  x <= L(q) /\ R(q) <= R(e)
          <6>1. q \in F /\ q \in Vars /\ q <= e
            BY <2>1, <2>4, <3>1
          <6> QED BY <1>2, <3>2, <6>1
        <5> QED BY <5>1
      <4>3. Good(e)
        BY <1>4, <3>3
      <4> QED BY <2>8, <3>2, <4>1, <4>2, <4>3
    <3> QED BY <1>3, <2>3, <2>5, <3>2, <3>5, <3>6
  <2> QED BY <2>7, <2>8
<1>5. Bad = {}
  <2> HIDE DEF Good
  <2> SUFFICES ASSUME Bad # {} PROVE FALSE
    OBVIOUS
  <2>1. PICK n \in Bad : \A k \in Bad : n <= k
    <3>1. Bad \subseteq Nat
      BY <1>2
    <3> HIDE DEF Bad
    <3> QED BY <3>1, LeastNatural
  <2>2. n \in 0..NumVars /\ ~Good(n)
    OBVIOUS
  <2>3. ASSUME NEW k \in 0..NumVars, k < n
        PROVE  Good(k)
    <3>1. ~(n <= k)
      BY <1>2, <2>2, <2>3
    <3> QED BY <2>1, <3>1
  <2> QED BY <1>4, <2>2, <2>3
<1>6. Good(NumVars)
  <2> HIDE DEF Good
  <2> QED BY <1>2, <1>5
<1>7. T \in SUBSET (1..NumVars) /\ Lies(T, a, b)
  BY <1>2 DEF L, R
<1> QED BY <1>6, <1>7

\* No set of intervals is overfull.
LEMMA AllFit ==
    ASSUME NEW p, NEW ls, NEW cs, Searched(p, ls, cs)
    PROVE  NoneOverfull(CoverIn(Top))
<1>1. OrderOK("Lower", p)
  BY DEF Searched
<1>2. NumVars \in Nat /\ Vars = 1..NumVars
  BY <1>1, OrderFacts
<1>3. ASSUME NEW S \in SUBSET Vars, NEW a \in Int, NEW b \in Int, S # {}, Within(CoverIn(Top), S, a, b)
      PROVE  LengthOf(S) <= b - a + 1
  <2> DEFINE T == Positions(p, S)
  <2>1. T \in SUBSET (1..NumVars) /\ \A q \in T : p[q] \in S
    BY <1>2 DEF Positions
  <2>2. T # {}
    <3>1. \A v \in Vars : \E q \in Vars : p[q] = v
      <4>1. p \in Bijection(Vars, Vars)
        BY <1>1 DEF OrderOK, Sorted
      <4> QED BY <4>1 DEF Bijection, Injection, Surjection, IsInjective
    <3> QED BY <1>3, <3>1 DEF Positions
  <2>3. LengthOf(S) = Weigh(p, T)
    BY <1>1, LengthWeighs
  <2> HIDE DEF T
  <2>4. \A q \in T : a <= Lower("Lower", p[q]) /\ Upper("Lower", p[q]) <= b
    <3>1. ASSUME NEW q \in T
          PROVE  a <= Lower("Lower", p[q]) /\ Upper("Lower", p[q]) <= b
      <4> DEFINE v == p[q]
      <4>1. v \in S /\ v \in Vars
        BY <2>1
      <4>2. a <= CoverIn(Top)[v].left /\ CoverIn(Top)[v].right <= b
        BY <1>3, <4>1 DEF Within
      <4>3. CoverIn(Top)[v].left = Lower("Lower", v) /\ CoverIn(Top)[v].right = Upper("Lower", v)
        BY <4>1, CoverEnds
      <4> QED BY <4>2, <4>3
    <3> QED BY <3>1
  <2> QED BY <1>2, <2>1, <2>2, <2>3, <2>4, PositionsFit
<1> QED BY <1>3 DEF NoneOverfull

-----------------------------------------------------------------------------
(* Intervals that begin in a range that others fill have to leave it.      *)

\* A clause with one literal that is not false makes it true.
LEMMA AcceptedUnit ==
    ASSUME NEW cs, Accepted(cs), NEW lits, Kept(cs, lits), NEW l \in lits,
           \A k \in lits : k = l \/ FalseIn(k, Top)
    PROVE  ~FalseIn(l, Top) /\ l \in Units(cs)
<1> DEFINE c == Because(lits)
<1>1. c \in cs /\ c.lits = lits /\ ~c.guarded
  <2>1. ~(clitLevel > 0 \/ clit = "free")
    BY DEF Accepted
  <2>2. c = [lits |-> lits, guarded |-> (clitLevel > 0 \/ clit = "free")]
    BY DEF Because, Clause
  <2>3. c.lits = lits /\ c.guarded = (clitLevel > 0 \/ clit = "free")
    BY <2>2
  <2>4. c \in cs
    BY DEF Kept
  <2> HIDE DEF c
  <2> QED BY <2>1, <2>3, <2>4
<1> HIDE DEF c
<1>2. ~FalseIn(l, Top)
  BY AcceptedOpen
<1>3. OpenPart(c) = {l}
  BY <1>1, <1>2 DEF OpenPart
<1>4. Cardinality(OpenPart(c)) = 1
  BY <1>3, FS_Singleton
<1>5. ~Guarded(c)
  BY <1>1 DEF Guarded
<1>6. l \in OpenPart(c) /\ c \in {d \in cs : ~Guarded(d) /\ Cardinality(OpenPart(d)) = 1}
  BY <1>1, <1>3, <1>4, <1>5
<1> QED BY <1>2, <1>6 DEF Units

\* A later interval of the partition that begins between a full position and
\* the end of the range is moved behind it.
LEMMA HitRaised ==
    ASSUME NEW p, OrderOK("Lower", p), NEW cs, Accepted(cs), NEW n \in Vars, Inserts("Lower", p, n, cs),
           NEW m \in Full("Lower", p, n, Filled("Lower", p)[n]), NEW j \in Block("Lower", p, n), n < j,
           Lower("Lower", p[m]) <= Lower("Lower", p[j]), Lower("Lower", p[j]) <= Upper("Lower", p[n])
    PROVE  LET l == GT(p[j], Upper("Lower", p[n])) IN l \in Units(cs) /\ ~TrueIn(l, Top)
<1> DEFINE u == Filled("Lower", p)[n - 1]
           w == Filled("Lower", p)[n]
           b == Upper("Lower", p[n])
           v == p[j]
           full == Full("Lower", p, n, w)
           a == Min({Lower("Lower", p[i]) : i \in full})
           lits == HallReason("Lower", p, n, a) \union Leave("Lower", v, b)
           l == GT(v, b)
<1>1. /\ NumVars \in Nat /\ Vars = 1..NumVars /\ b \in Int /\ j \in Vars /\ v \in Vars
      /\ \A q \in Vars : Lower("Lower", p[q]) \in Int
      /\ Top.lo[v] \in Int /\ Top.up[v] \in Int
  <2>1. /\ NumVars \in Nat /\ Vars = 1..NumVars /\ b \in Int
        /\ \A q \in Vars : p[q] \in Vars /\ Lower("Lower", p[q]) \in Int
    BY OrderFacts
  <2>2. j \in Vars /\ Top \in Bounds
    BY DEF Block, OrderOK
  <2> QED BY <2>1, <2>2 DEF Bounds
<1>2. full \subseteq Vars
  BY DEF Full, BlockBefore, Block
<1>3. a \in Int /\ a <= Lower("Lower", p[m])
  <2> DEFINE f == [q \in 1..NumVars |-> Lower("Lower", p[q])]
  <2>1. f \in [1..NumVars -> Int] /\ \A q \in Vars : f[q] = Lower("Lower", p[q])
    BY <1>1
  <2> HIDE DEF full
  <2>2. {Lower("Lower", p[i]) : i \in full} = {f[i] : i \in full}
    BY <1>1, <1>2, <2>1
  <2>3. full \in SUBSET (1..NumVars) /\ m \in full
    BY <1>1, <1>2 DEF full
  <2> HIDE DEF f
  <2>4. Min({f[i] : i \in full}) \in {f[i] : i \in full} /\ \A i \in full : Min({f[q] : q \in full}) <= f[i]
    BY <1>1, <2>1, <2>3, MinValue
  <2>5. a \in {f[i] : i \in full} /\ a <= f[m]
    BY <2>2, <2>3, <2>4
  <2> QED BY <1>1, <1>2, <2>1, <2>3, <2>5
<1>4. Kept(cs, lits)
  <2>1. Overfull("Lower", p, n, u) = {} /\ w[n] <= b
    BY LiveFits
  <2>2. w[n] \in Int
    <3>1. n \in 0..NumVars
      BY <1>1
    <3>2. w \in [Vars -> Int]
      BY <3>1, FilledBound
    <3> QED BY <3>2
  <2>3. ~(w[n] > b) /\ full # {}
    BY <1>1, <2>1, <2>2
  <2> DEFINE hit == {i \in Block("Lower", p, n) : i > n /\ Lower("Lower", p[i]) \in a..b}
             Lits(i) == HallReason("Lower", p, n, a) \union Leave("Lower", p[i], b)
  <2>4. InsertClauses("Lower", p, n, u, w) = {Event(n, i, Lits(i)) : i \in hit}
    BY <2>1, <2>3, Zenon DEF InsertClauses
  <2>5. j \in hit
    <3>1. j > n /\ Lower("Lower", p[j]) \in Int /\ Lower("Lower", p[j]) <= b
      BY <1>1
    <3>2. a <= Lower("Lower", p[j])
      <4>1. m \in Vars
        BY <1>2
      <4>2. Lower("Lower", p[m]) \in Int
        BY <1>1, <4>1
      <4> HIDE DEF a
      <4> QED BY <1>3, <3>1, <4>2
    <3> HIDE DEF a, b
    <3> QED BY <1>1, <1>3, <3>1, <3>2
  <2> HIDE DEF hit, a, b
  <2>6. Event(n, j, Lits(j)) \in InsertClauses("Lower", p, n, u, w)
    BY <2>4, <2>5
  <2>7. Event(n, j, Lits(j)).clause = Because(lits)
    BY DEF Event
  <2> HIDE DEF u, w, Lits, lits
  <2>8. Because(lits) \in cs
    BY <2>6, <2>7 DEF Inserts, u, w
  <2> QED BY <2>8 DEF Kept
<1> DEFINE k == Min({b, Top.up[v]})
<1>5. k \in Int /\ k <= b /\ k <= Top.up[v] /\ k \in {b, Top.up[v]}
  BY <1>1, LeastOfTwo
<1>6. FalseIn(LE(v, Top.lo[v] - 1), Top)
  <2> DEFINE i == LE(v, Top.lo[v] - 1)
  <2>1. i.kind = "le" /\ i.var = v /\ i.value = Top.lo[v] - 1
    BY DEF LE, OrderLit
  <2>2. Top.lo[v] > Top.lo[v] - 1
    BY <1>1
  <2> HIDE DEF i, v
  <2>3. FalseIn(i, Top)
    BY <2>1, <2>2 DEF FalseIn
  <2> QED BY <2>3 DEF i
<1>7. GT(v, k) \in lits /\ \A i \in lits : i = GT(v, k) \/ FalseIn(i, Top)
  <2>1. Leave("Lower", v, b) = {LE(v, Top.lo[v] - 1), GT(v, k)}
    BY DEF Leave
  <2>2. \A i \in HallReason("Lower", p, n, a) : FalseIn(i, Top)
    BY HallReasonFalse
  <2> HIDE DEF a, b, v, k
  <2> QED BY <1>6, <2>1, <2>2
<1>8. ~FalseIn(GT(v, k), Top) /\ GT(v, k) \in Units(cs)
  <2> HIDE DEF lits, k, v
  <2> QED BY <1>4, <1>7, AcceptedUnit
<1> HIDE DEF k
<1>9. k = b
  <2>1. ~(Top.up[v] <= k)
    <3> DEFINE i == GT(v, k)
    <3>1. i.kind = "gt" /\ i.var = v /\ i.value = k
      BY DEF GT, OrderLit
    <3> HIDE DEF i, v
    <3>2. ~FalseIn(i, Top)
      BY <1>8 DEF i
    <3> QED BY <3>1, <3>2 DEF FalseIn
  <2>2. k # Top.up[v]
    BY <1>1, <2>1
  <2> QED BY <1>5, <2>2
<1>10. ~TrueIn(l, Top)
  <2>1. l.kind = "gt" /\ l.var = v /\ l.value = b
    BY DEF GT, OrderLit
  <2>2. ~(Top.lo[v] > b)
    <3>1. Lower("Lower", p[j]) = Top.lo[v]
      BY <1>1, CoverEnds
    <3> HIDE DEF b, v
    <3>2. Top.lo[v] <= b
      BY <3>1 DEF b
    <3> QED BY <1>1, <3>2
  <2> HIDE DEF l, v, b
  <2> QED BY <2>1, <2>2 DEF TrueIn
<1> QED BY <1>8, <1>9, <1>10

\* An interval that begins in a range filled by others of its partition is
\* moved behind that range.
LEMMA BlockRaises ==
    ASSUME NEW p, NEW ls, NEW cs, Searched(p, ls, cs), NEW j \in Vars,
           NEW T \in SUBSET Block("Lower", p, j), T # {}, j \notin T, NEW a \in Int, NEW b \in Int,
           \A q \in T : a <= Lower("Lower", p[q]) /\ Upper("Lower", p[q]) <= b,
           Weigh(p, T) >= b - a + 1, a <= Lower("Lower", p[j]), Lower("Lower", p[j]) <= b
    PROVE  LET l == GT(p[j], b) IN l \in Units(cs) /\ ~TrueIn(l, Top)
<1> DEFINE L(q) == Lower("Lower", p[q])
           R(q) == Upper("Lower", p[q])
           U == Filled("Lower", p)
<1>1. OrderOK("Lower", p) /\ Accepted(cs)
  BY DEF Searched
<1>2. /\ NumVars \in Nat /\ Vars = 1..NumVars /\ Vars \subseteq Nat
      /\ \A q \in Vars : p[q] \in Vars /\ L(q) \in Int /\ R(q) \in Int
      /\ \A q \in Vars : Weight[p[q]] \in Nat /\ Weight[p[q]] > 0
  <2>1. /\ NumVars \in Nat /\ Vars = 1..NumVars
        /\ \A q \in Vars : p[q] \in Vars /\ L(q) \in Int /\ R(q) \in Int
        /\ \A q \in Vars : Weight[p[q]] \in Nat /\ Weight[p[q]] > 0
    BY ONLY <1>1, OrderFacts
  <2> QED BY <2>1
<1>3. T \subseteq Vars /\ T \in SUBSET (1..NumVars) /\ Weigh(p, T) \in Int
  BY <1>1, <1>2, WeighFacts DEF Block
<1> HIDE DEF L, R, U
<1>4. CASE \A m \in Block("Lower", p, j) : Inserts("Lower", p, m, cs)
  <2>1. PICK n \in T : \A q \in T : q <= n
    BY <1>2, <1>3, GreatestNumber
  <2>2. n \in Vars /\ n \in Nat /\ n \in Block("Lower", p, j) /\ n # j
    BY <1>2, <1>3
  <2>3. \A q \in Vars : q \in Block("Lower", p, n) <=> q \in Block("Lower", p, j)
    BY <1>2, <2>2, BlockOrder
  <2>4. T \in SUBSET Block("Lower", p, n) /\ j \in Block("Lower", p, n) /\ n \in Block("Lower", p, n)
    BY <1>2, <1>3, <2>2, <2>3, BlockOrder
  <2>5. \A q \in Block("Lower", p, n) : Inserts("Lower", p, q, cs)
    <3>1. Block("Lower", p, n) \subseteq Vars
      BY DEF Block
    <3> QED BY <1>4, <2>3, <3>1
  <2>6. PICK m \in T :
          /\ L(m) <= L(n)
          /\ m = n \/ (m \in BlockBefore("Lower", p, n) /\ L(m) < L(n))
          /\ L(m) - 1 + Weigh(p, T) <= U[n][m]
          /\ U[n][m] <= R(n)
    BY <1>1, <2>1, <2>2, <2>4, <2>5, LiveBlock DEF L, R, U
  <2>7. m \in Vars /\ L(m) \in Int /\ R(n) \in Int /\ U[n][m] \in Int
    <3>1. m \in Vars /\ n \in 0..NumVars
      BY <1>2, <1>3, <2>2
    <3>2. U[n] \in [Vars -> Int]
      BY <1>1, <3>1, FilledBound DEF U
    <3> QED BY <1>2, <2>2, <3>1, <3>2
  <2>8. L(m) = a /\ U[n][m] = R(n) /\ R(n) = b /\ Weigh(p, T) = b - a + 1
    <3>1. a <= L(m) /\ R(n) <= b
      BY DEF L, R
    <3>2. ASSUME NEW x, NEW y, NEW z, NEW w, x = L(m), y = U[n][m], z = R(n), w = Weigh(p, T)
          PROVE  x = a /\ y = z /\ z = b /\ w = b - a + 1
      <4>1. /\ x \in Int /\ y \in Int /\ z \in Int /\ w \in Int /\ a \in Int /\ b \in Int
            /\ a <= x /\ z <= b /\ x - 1 + w <= y /\ y <= z /\ w >= b - a + 1
        BY <1>3, <2>6, <2>7, <3>1, <3>2
      <4> QED BY ONLY <4>1
    <3> QED BY <3>2
  <2>9. n < j
    <3> SUFFICES ASSUME ~(n < j) PROVE FALSE
      OBVIOUS
    <3>1. j \in Nat /\ j <= n
      BY <1>2, <2>2
    <3> DEFINE S == T \union {j}
    <3>2. S \in SUBSET Block("Lower", p, n) /\ n \in S /\ \A q \in S : q <= n /\ a <= Lower("Lower", p[q])
      BY <2>1, <2>4, <3>1
    <3>3. Weigh(p, S) = Weigh(p, T) + Weight[p[j]]
      BY <1>1, WeighFacts
    <3> HIDE DEF S
    <3>4. Weigh(p, S) <= R(n) - a + 1
      BY <2>2, <3>2, BlockFits DEF R
    <3>5. ASSUME NEW w, w = Weight[p[j]]
          PROVE  FALSE
      <4>1. w \in Nat /\ w > 0
        BY <1>2, <3>5
      <4> QED BY <2>8, <3>3, <3>4, <3>5, <4>1
    <3> QED BY <3>5
  <2>10. m \in Full("Lower", p, n, Filled("Lower", p)[n])
    BY <2>6, <2>8 DEF Full, L, R, U
  <2>11. L(m) <= L(j) /\ L(j) <= R(n)
    BY <2>8 DEF L
  <2>12. GT(p[j], R(n)) \in Units(cs) /\ ~TrueIn(GT(p[j], R(n)), Top)
    BY <1>1, <2>2, <2>4, <2>5, <2>9, <2>10, <2>11, HitRaised DEF L, R
  <2> QED BY <2>8, <2>12
<1>5. CASE Fit(ls) /\ \A m \in Block("Lower", p, j) : ls[p[m]] = Cover(p[m])
  <2> DEFINE v == p[j]
             S == At(p, T)
  <2>1. /\ S \in SUBSET Vars /\ LengthOf(S) = Weigh(p, T)
        /\ \A x : x \in S => \E q \in T : x = p[q]
        /\ v \notin S
    BY <1>1, <1>3, PositionsAt
  <2>2. v \in Vars /\ ls[v] = Cover(v)
    BY <1>2, <1>5, BlockOrder
  <2> HIDE DEF S
  <2>3. Within(ls, S, a, b)
    <3>1. ASSUME NEW x \in S
          PROVE  a <= ls[x].left /\ ls[x].right <= b
      <4>1. PICK q \in T : x = p[q]
        BY <2>1
      <4>2. ls[x] = Cover(x) /\ x \in Vars
        BY <1>2, <1>3, <1>5, <4>1
      <4> QED BY <4>1, <4>2, CoverEnds
    <3> QED BY <3>1 DEF Within
  <2>4. ls[v].left = L(j) /\ L(j) = Top.lo[v]
    BY <2>2, CoverEnds DEF L
  <2>5. FillsRange(ls, v, S, a, b)
    BY <2>1, <2>3, <2>4 DEF FillsRange, L
  <2>6. Violated(ls, v)
    <3>1. S \in SUBSET (Vars \ {v})
      BY <2>1
    <3> HIDE DEF v
    <3> QED BY <2>5, <3>1 DEF Violated
  <2>7. Top.lo[v] > Top.lo[v]
    BY <1>5, <2>2, <2>4, <2>6 DEF Fit
  <2>8. Top.lo[v] \in Int
    BY <1>1, <2>2 DEF OrderOK, Bounds
  <2> QED BY <2>7, <2>8
<1> QED BY <1>4, <1>5 DEF Searched, Checked

\* Whatever intervals fill a range, an interval that begins in it is moved.
\* Those of earlier partitions end before its own begins, those of later ones
\* begin after it ends, and what is between is filled by its own partition.
LEMMA RangeRaises ==
    ASSUME NEW p, NEW ls, NEW cs, Searched(p, ls, cs), NEW j \in Vars,
           NEW T \in SUBSET Vars, j \notin T, NEW a \in Int, NEW b \in Int,
           \A q \in T : a <= Lower("Lower", p[q]) /\ Upper("Lower", p[q]) <= b,
           Weigh(p, T) >= b - a + 1, a <= Lower("Lower", p[j]), Lower("Lower", p[j]) <= b
    PROVE  \E k \in Int : LET l == GT(p[j], k) IN
             Lower("Lower", p[j]) <= k /\ l \in Units(cs) /\ ~TrueIn(l, Top)
<1> DEFINE L(q) == Lower("Lower", p[q])
           R(q) == Upper("Lower", p[q])
           B == Block("Lower", p, j)
           S1 == {q \in T : q \notin B /\ q < j}
           S2 == {q \in T : q \in B}
           S3 == {q \in T : q \notin B /\ j < q}
<1>1. OrderOK("Lower", p)
  BY DEF Searched
<1>2. /\ NumVars \in Nat /\ Vars = 1..NumVars /\ Vars \subseteq Nat
      /\ \A q \in Vars : p[q] \in Vars /\ L(q) \in Int /\ R(q) \in Int
      /\ \A k, q \in Vars : k <= q => R(k) <= R(q)
  <2>1. /\ NumVars \in Nat /\ Vars = 1..NumVars
        /\ \A q \in Vars : p[q] \in Vars /\ L(q) \in Int /\ R(q) \in Int
        /\ \A k, q \in Vars : k <= q => R(k) <= R(q)
    BY ONLY <1>1, OrderFacts
  <2> QED BY <2>1
<1>3. \A F : Weigh(p, F) \in Int
  BY <1>1, WeighFacts
<1>4. j \in B /\ B \subseteq Vars
  BY <1>2, BlockOrder DEF Block
<1>5. L(j) <= R(j)
  <2> DEFINE v == p[j]
  <2>1. v \in Vars /\ Lower("Lower", v) = Top.lo[v] /\ Upper("Lower", v) = Top.up[v] + Weight[v] - 1
    BY <1>2 DEF Lower, Upper, Left, Right
  <2>2. Top.lo[v] <= Top.up[v] /\ Top.lo[v] \in Int /\ Top.up[v] \in Int /\ Weight[v] \in Nat /\ Weight[v] > 0
    BY <1>1, <2>1 DEF OrderOK, NonEmpty, Bounds, DisjointWeights
  <2> HIDE DEF v
  <2> QED BY <2>1, <2>2 DEF v
<1> HIDE DEF L, R, B
<1>6. Weigh(p, T) = Weigh(p, S1) + Weigh(p, S2) + Weigh(p, S3)
  <2> DEFINE S12 == S1 \union S2
  <2>1. /\ S12 \cap S3 = {} /\ S12 \union S3 = T
    <3>1. \A q \in T : q \in Nat /\ j \in Nat /\ q # j
      BY <1>2
    <3>2. \A q \in T : (q < j \/ j < q) /\ ~(q < j /\ j < q)
      BY <3>1
    <3> QED BY <3>2
  <2>2. S1 \cap S2 = {}
    OBVIOUS
  <2> HIDE DEF S1, S2, S3
  <2>3. Weigh(p, S12) = Weigh(p, S1) + Weigh(p, S2)
    BY <1>1, <2>2, WeighUnion
  <2> HIDE DEF S12
  <2>4. Weigh(p, S12 \union S3) = Weigh(p, S12) + Weigh(p, S3)
    BY <1>1, <2>1, WeighUnion
  <2> QED BY <2>1, <2>3, <2>4
<1>7. Weigh(p, {}) = 0
  <2>1. Weigh(p, {} \union {}) = Weigh(p, {}) + Weigh(p, {})
    BY <1>1, WeighUnion
  <2>2. {} \union {} = {}
    OBVIOUS
  <2> QED BY <1>3, <2>1, <2>2
<1>8. /\ S1 \in SUBSET (1..NumVars) /\ S2 \in SUBSET (1..NumVars) /\ S3 \in SUBSET (1..NumVars)
      /\ S1 \subseteq T /\ S2 \subseteq T /\ S3 \subseteq T /\ S2 \subseteq B
  BY <1>2
<1>9. \A F \in SUBSET T : \A q \in F : q \in Vars /\ a <= L(q) /\ R(q) <= b
  BY DEF L, R
<1>10. \E c \in Int : Weigh(p, S1) <= c - a /\ c <= L(j) /\ \A q \in S2 : c <= L(q)
  <2>1. CASE S1 = {}
    <3>1. Weigh(p, S1) <= a - a /\ a <= L(j)
      BY <1>7, <2>1 DEF L
    <3> QED BY <1>8, <1>9, <3>1
  <2>2. CASE S1 # {}
    <3>1. PICK e \in S1 : \A q \in S1 : q <= e
      BY <1>2, <1>8, <2>2, GreatestNumber
    <3>2. e \in Vars /\ e \notin B /\ e < j /\ R(e) \in Int
      BY <1>2
    <3>3. \A t \in B : R(e) < L(t)
      BY <1>1, <3>2, LaterBlock DEF B, L, R
    <3>4. Weigh(p, S1) <= R(e) - a + 1
      <4>1. \A q \in S1 : a <= L(q) /\ R(q) <= R(e)
        BY <1>2, <1>8, <1>9, <3>1, <3>2
      <4>2. S1 \in SUBSET Vars
        BY <1>2, <1>8
      <4> HIDE DEF S1
      <4> QED BY <2>2, <3>2, <4>1, <4>2, PositionsFit DEF L, R
    <3> DEFINE c == R(e) + 1
    <3>5. c \in Int /\ Weigh(p, S1) <= c - a
      BY <1>3, <3>2, <3>4
    <3>6. \A t \in B : c <= L(t)
      <4>1. \A t \in B : L(t) \in Int
        BY <1>2, <1>4
      <4> QED BY <3>2, <3>3, <4>1
    <3> HIDE DEF c
    <3> QED BY <1>4, <1>8, <3>5, <3>6
  <2> QED BY <2>1, <2>2
<1>11. \E d \in Int : Weigh(p, S3) <= b - d /\ L(j) <= d /\ \A q \in S2 : R(q) <= d
  <2>1. CASE S3 = {}
    <3>1. Weigh(p, S3) <= b - b /\ L(j) <= b
      BY <1>7, <2>1 DEF L
    <3> QED BY <1>8, <1>9, <3>1
  <2>2. CASE S3 # {}
    <3> DEFINE H == S2 \union {j}
    <3>1. H \in SUBSET (1..NumVars) /\ H # {} /\ H \subseteq B
      BY <1>2, <1>4, <1>8
    <3> HIDE DEF H
    <3>2. PICK e \in H : \A q \in H : q <= e
      BY <1>2, <3>1, GreatestNumber
    <3>3. e \in Vars /\ e \in B /\ e \in Nat /\ R(e) \in Int
      BY <1>2, <1>4, <3>1, <3>2
    <3>4. \A q \in H : R(q) <= R(e)
      BY <1>2, <1>4, <3>1, <3>2
    <3>5. \A q \in S2 : R(q) <= R(e)
      BY <3>4 DEF H
    <3>6. L(j) <= R(e)
      <4>1. R(j) <= R(e) /\ L(j) \in Int /\ R(j) \in Int
        BY <1>2, <3>4 DEF H
      <4> QED BY <1>5, <3>3, <4>1
    <3>7. ASSUME NEW q \in S3
          PROVE  R(e) < L(q)
      <4>1. q \in Vars /\ q \in Nat /\ q \notin B /\ j < q /\ j \in Nat
        BY <1>2
      <4>2. \A m, n, t \in Vars : m \in Block("Lower", p, n) =>
              n \in Block("Lower", p, m) /\ (t \in Block("Lower", p, m) => t \in Block("Lower", p, n))
        BY <1>2, BlockOrder
      <4>3. q \notin Block("Lower", p, e) /\ e \notin Block("Lower", p, q) /\ j \in Block("Lower", p, e)
            /\ q \in Block("Lower", p, q)
        <5>1. e \in Block("Lower", p, j) /\ q \notin Block("Lower", p, j)
          BY <3>3, <4>1 DEF B
        <5>2. q \in Block("Lower", p, q)
          BY <1>2, <4>1, BlockOrder
        <5> QED BY <3>3, <4>1, <4>2, <5>1, <5>2
      <4>4. ~(q < e)
        <5> SUFFICES ASSUME q < e PROVE FALSE
          OBVIOUS
        <5>1. q < j
          BY <1>1, <3>3, <4>1, <4>3, LaterBlock
        <5> QED BY <4>1, <5>1
      <4>5. q # e
        BY <3>3, <4>1
      <4>6. e < q
        BY <3>3, <4>1, <4>4, <4>5
      <4> QED BY <1>1, <3>3, <4>1, <4>3, <4>6, LaterBlock DEF L, R
    <3>8. Weigh(p, S3) <= b - (R(e) + 1) + 1
      <4>1. \A q \in S3 : R(e) + 1 <= L(q) /\ R(q) <= b
        <5>1. \A q \in S3 : R(e) < L(q) /\ L(q) \in Int /\ R(q) <= b
          BY <1>2, <1>8, <1>9, <3>7
        <5> QED BY <3>3, <5>1
      <4>2. S3 \in SUBSET Vars /\ R(e) + 1 \in Int
        BY <1>2, <1>8, <3>3
      <4> HIDE DEF S3
      <4> QED BY <2>2, <4>1, <4>2, PositionsFit DEF L, R
    <3>9. Weigh(p, S3) <= b - R(e)
      BY <1>3, <3>3, <3>8
    <3> QED BY <3>3, <3>5, <3>6, <3>9
  <2> QED BY <2>1, <2>2
<1>12. PICK c \in Int : Weigh(p, S1) <= c - a /\ c <= L(j) /\ \A q \in S2 : c <= L(q)
  BY <1>10
<1>13. PICK d \in Int : Weigh(p, S3) <= b - d /\ L(j) <= d /\ \A q \in S2 : R(q) <= d
  BY <1>11
<1>14. L(j) \in Int /\ j \notin S2 /\ S2 \in SUBSET Block("Lower", p, j)
  BY <1>2, <1>8 DEF B
<1> HIDE DEF S1, S2, S3
<1>15. Weigh(p, S2) >= d - c + 1
  <2>1. ASSUME NEW x, NEW y, NEW z, x = Weigh(p, S1), y = Weigh(p, S2), z = Weigh(p, S3)
        PROVE  y >= d - c + 1
    <3>1. /\ x \in Int /\ y \in Int /\ z \in Int /\ a \in Int /\ b \in Int /\ c \in Int /\ d \in Int
          /\ x <= c - a /\ z <= b - d /\ x + y + z >= b - a + 1
      BY <1>3, <1>6, <1>12, <1>13, <2>1
    <3> QED BY ONLY <3>1
  <2> QED BY <2>1
<1>16. S2 # {}
  <2> SUFFICES ASSUME S2 = {} PROVE FALSE
    OBVIOUS
  <2>1. 0 >= d - c + 1
    BY <1>7, <1>15
  <2> QED BY <1>12, <1>13, <1>14, <2>1
<1>17. LET l == GT(p[j], d) IN l \in Units(cs) /\ ~TrueIn(l, Top)
  BY <1>12, <1>13, <1>14, <1>15, <1>16, BlockRaises DEF L, R
<1> QED BY <1>13, <1>17 DEF L

\* So the first position of every interval in a full range is raised.
THEOREM Raises ==
    ASSUME NEW p, NEW ls, NEW cs, Searched(p, ls, cs), NEW v \in Vars, Violated(CoverIn(Top), v)
    PROVE  \E k \in Int : LET l == GT(v, k) IN
             Top.lo[v] <= k /\ l \in Units(cs) /\ ~TrueIn(l, Top)
<1>1. OrderOK("Lower", p)
  BY DEF Searched
<1>2. PICK S \in SUBSET (Vars \ {v}), a \in Int, b \in Int : FillsRange(CoverIn(Top), v, S, a, b)
  BY DEF Violated
<1>3. /\ Within(CoverIn(Top), S, a, b) /\ LengthOf(S) >= b - a + 1
      /\ a <= CoverIn(Top)[v].left /\ CoverIn(Top)[v].left <= b
  BY <1>2 DEF FillsRange
<1>4. CoverIn(Top)[v].left = Lower("Lower", v) /\ Lower("Lower", v) = Top.lo[v]
  BY CoverEnds
<1>5. PICK j \in Vars : p[j] = v
  <2>1. p \in Bijection(Vars, Vars)
    BY <1>1 DEF OrderOK, Sorted
  <2> QED BY <2>1 DEF Bijection, Injection, Surjection, IsInjective
<1> DEFINE T == Positions(p, S)
<1>6. T \in SUBSET Vars /\ j \notin T /\ \A q \in T : p[q] \in S
  BY <1>5 DEF Positions
<1>7. Weigh(p, T) >= b - a + 1
  BY <1>1, <1>3, LengthWeighs
<1> HIDE DEF T
<1>8. ASSUME NEW q \in T
      PROVE  a <= Lower("Lower", p[q]) /\ Upper("Lower", p[q]) <= b
  <2> DEFINE w == p[q]
  <2>1. w \in S /\ w \in Vars
    BY <1>6
  <2>2. a <= CoverIn(Top)[w].left /\ CoverIn(Top)[w].right <= b
    BY <1>3, <2>1 DEF Within
  <2>3. CoverIn(Top)[w].left = Lower("Lower", w) /\ CoverIn(Top)[w].right = Upper("Lower", w)
    BY <2>1, CoverEnds
  <2> QED BY <2>2, <2>3
<1>9. a <= Lower("Lower", p[j]) /\ Lower("Lower", p[j]) <= b
  BY <1>3, <1>4, <1>5
<1>10. \E k \in Int : LET l == GT(p[j], k) IN
         Lower("Lower", p[j]) <= k /\ l \in Units(cs) /\ ~TrueIn(l, Top)
  BY <1>6, <1>7, <1>8, <1>9, RangeRaises
<1> QED BY <1>4, <1>5, <1>10

-----------------------------------------------------------------------------
(* What a call of propagate leaves behind.                                 *)

\* One run visits what changed.
LEMMA RunSearched ==
    ASSUME NEW p, OrderOK("Lower", p), NEW ls, NEW cs, Accepted(cs), forceUpdate \/ Fit(ls),
           \A e \in Events("Lower", p, Live("Lower", p, ls)) : e.clause \in cs
    PROVE  Searched(p, ls, cs)
<1>1. NumVars \in Nat
  BY DEF OrderOK
<1>2. ASSUME NEW m \in Live("Lower", p, ls)
      PROVE  Inserts("Lower", p, m, cs)
  BY <1>2 DEF Inserts, Events
<1>3. ASSUME NEW n \in Vars
      PROVE  \/ \A m \in Block("Lower", p, n) : Inserts("Lower", p, m, cs)
             \/ Fit(ls) /\ \A m \in Block("Lower", p, n) : ls[p[m]] = Cover(p[m])
  <2>1. CASE forceUpdate \/ Changed("Lower", p, ls, n)
    <3>1. ASSUME NEW m \in Block("Lower", p, n)
          PROVE  m \in Live("Lower", p, ls)
      <4>1. m \in Vars
        BY DEF Block
      <4>2. \A q \in Block("Lower", p, n) : q \in Block("Lower", p, m)
        <5>1. n \in Block("Lower", p, m)
          BY <1>1, <4>1, BlockOrder
        <5>2. Block("Lower", p, n) \subseteq Vars
          BY DEF Block
        <5> QED BY <1>1, <4>1, <5>1, <5>2, BlockOrder
      <4>3. forceUpdate \/ Changed("Lower", p, ls, m)
        BY <2>1, <4>2 DEF Changed
      <4> QED BY <4>1, <4>3 DEF Live
    <3> QED BY <1>2, <3>1
  <2>2. CASE ~(forceUpdate \/ Changed("Lower", p, ls, n))
    BY <2>2 DEF Changed
  <2> QED BY <2>1, <2>2
<1> QED BY <1>3 DEF Searched, Checked

\* After both runs the current bounds are remembered.
LEMMA VisitedAll ==
    ASSUME NEW p, OrderOK("Lower", p), NEW ls
    PROVE  /\ Visited(p, ls, Live("Lower", p, ls)) = CoverIn(Top)
           /\ \A q, done : Visited(q, CoverIn(Top), done) = CoverIn(Top)
<1>1. \A v \in Vars : CoverIn(Top)[v] = Cover(v)
  BY CoverEnds
<1>2. CoverIn(Top) = [v \in Vars |-> Cover(v)]
  BY DEF CoverIn, Cover, Left, Right
<1>3. ASSUME NEW v \in Vars, v \notin {p[n] : n \in Live("Lower", p, ls)}
      PROVE  ls[v] = Cover(v)
  <2>1. PICK n \in Vars : p[n] = v
    <3>1. p \in Bijection(Vars, Vars)
      BY DEF OrderOK, Sorted
    <3> QED BY <3>1 DEF Bijection, Injection, Surjection, IsInjective
  <2>2. n \notin Live("Lower", p, ls) /\ NumVars \in Nat
    BY <1>3, <2>1 DEF OrderOK
  <2>3. n \in Block("Lower", p, n)
    BY <2>2, BlockOrder
  <2> QED BY <2>1, <2>2, <2>3 DEF Live, Changed
<1>4. Visited(p, ls, Live("Lower", p, ls)) = [v \in Vars |-> Cover(v)]
  BY <1>3 DEF Visited
<1>5. \A q, S : Visited(q, CoverIn(Top), S) = [v \in Vars |-> Cover(v)]
  BY <1>1 DEF Visited
<1> QED BY <1>2, <1>4, <1>5

\* A call of propagate of a constraint that is a fact fails, or nothing is
\* overfull, and every interval that begins in a full range will be moved.
LEMMA FactPropagate ==
    ASSUME HostInv, HostStarts, DisjointWeights, PropagateDisjoint,
           clit = "true", clitLevel = 0, forceUpdate \/ Fit(last)
    PROVE  \/ \E cs : ClauseFails(cs)
           \/ /\ NoneOverfull(CoverIn(Top)) /\ last' = CoverIn(Top)
              /\ \A v \in Vars : Violated(CoverIn(Top), v) =>
                   \E k \in Int : Top.lo[v] <= k /\ GT(v, k) \in pending'
              /\ UNCHANGED litVars
              /\ pc' = IF pending' = {} THEN "fixpoint" ELSE "propagate"
<1>1. Top \in Bounds /\ NonEmpty(Top)
  BY TopFacts
<1>2. PICK p \in Sorted("Lower"), q \in Sorted("Upper") :
        LET liveL == Live("Lower", p, last)
            lastL == Visited(p, last, liveL)
            eventsL == Events("Lower", p, liveL)
            liveU == Live("Upper", q, lastL)
            eventsU == Events("Upper", q, liveU) IN
        \/ RunFails("Lower", p, liveL, last, {}, eventsL)
        \/ RunFails("Upper", q, liveU, lastL, eventsL, eventsU)
        \/ /\ AddClauses({e.clause : e \in eventsL \union eventsU})
           /\ last' = Visited(q, lastL, liveU)
  BY DEF PropagateDisjoint
<1> DEFINE liveL == Live("Lower", p, last)
           lastL == Visited(p, last, liveL)
           eventsL == Events("Lower", p, liveL)
           liveU == Live("Upper", q, lastL)
           eventsU == Events("Upper", q, liveU)
           cs == {e.clause : e \in eventsL \union eventsU}
<1>3. OrderOK("Lower", p)
  BY <1>1 DEF OrderOK, HostStarts
<1>4. \A e \in eventsL : e.clause \in cs
  OBVIOUS
<1>5. \/ RunFails("Lower", p, liveL, last, {}, eventsL)
      \/ RunFails("Upper", q, liveU, lastL, eventsL, eventsU)
      \/ AddClauses(cs) /\ last' = Visited(q, lastL, liveU)
  BY <1>2
<1> HIDE DEF eventsL, eventsU, liveU, cs
<1>6. CASE RunFails("Lower", p, liveL, last, {}, eventsL) \/ RunFails("Upper", q, liveU, lastL, eventsL, eventsU)
  <2> HIDE DEF liveL, lastL
  <2>1. \A type, o, live, ls, before, events :
          RunFails(type, o, live, ls, before, events) => \E ds : ClauseFails(ds)
    BY Zenon DEF RunFails
  <2> QED BY <1>6, <2>1
<1>7. CASE AddClauses(cs) /\ last' = Visited(q, lastL, liveU)
  <2>1. last' = CoverIn(Top)
    <3>1. lastL = CoverIn(Top)
      BY <1>3, VisitedAll
    <3> HIDE DEF lastL
    <3> QED BY <1>3, <1>7, <3>1, VisitedAll
  <2>2. Accepted(cs)
    BY <1>7 DEF Accepted, AddClauses
  <2>3. Searched(p, last, cs)
    BY <1>3, <1>4, <2>2, RunSearched DEF eventsL
  <2>4. NoneOverfull(CoverIn(Top))
    BY <2>3, AllFit
  <2>5. pending' = {l \in Units(cs) : ~TrueIn(l, Top)} /\ pc' = IF pending' = {} THEN "fixpoint" ELSE "propagate"
    BY <1>7 DEF AddClauses
  <2>6. UNCHANGED litVars
    <3>1. ~(\E c \in cs : Guarded(c) /\ OpenPart(c) = {})
      BY DEF Guarded
    <3> QED BY <1>7, <3>1 DEF AddClauses
  <2>7. ASSUME NEW v \in Vars, Violated(CoverIn(Top), v)
        PROVE  \E k \in Int : Top.lo[v] <= k /\ GT(v, k) \in pending'
    <3>1. PICK k \in Int : LET l == GT(v, k) IN Top.lo[v] <= k /\ l \in Units(cs) /\ ~TrueIn(l, Top)
      BY <2>3, <2>7, Raises
    <3> QED BY <2>5, <3>1
  <2> QED BY <2>1, <2>4, <2>5, <2>6, <2>7
<1> QED BY <1>5, <1>6, <1>7

-----------------------------------------------------------------------------
(* The invariant of a disjoint constraint that is a fact.                  *)

\* No interval begins in a range that others fill.
Clean(b) == \A v \in Vars : ~Violated(CoverIn(b), v)

\* v begins after x, or will when the pending literals are passed on.
Raised(v, x) == Top.lo[v] > x \/ \E l \in pending : l.var = v /\ l.kind = "gt" /\ l.value >= x

\* Going back a level undoes a change the constraint was told of.
Settled == dl = 0 \/ flushed # Previous

\* What was told has been dealt with, up to pending literals.
ToldHandled == \A v \in Vars : Violated(CoverIn(flushed), v) => Raised(v, flushed.lo[v])

\* What is remembered was dealt with. Where the result is not in the bounds
\* the constraint was told yet, going back will force an update.
Recorded ==
    /\ NoneOverfull(last)
    /\ \A v \in Vars : Violated(last, v) =>
         /\ last[v].left \in Int
         /\ flushed.lo[v] > last[v].left \/ (Settled /\ Raised(v, last[v].left))

FactInv ==
    /\ clit = "true" /\ clitLevel = 0 /\ inactive = 0
    /\ dl > 0 => ~todo
    /\ pc = "fixpoint" => pending = {} /\ ~todo
    /\ \A l \in 1..dl : Clean(trail[l])
    /\ pc \in {"propagate", "fixpoint"} /\ ~todo => ToldHandled
    /\ forceUpdate \/ (pc \in {"conflict", "unsat"} /\ Settled) \/ Recorded

\* It holds at the start.
LEMMA FactInit ==
    ASSUME DisjointInit, start.clit = "true"
    PROVE  FactInv
<1>1. dl = 0
  BY DEF DisjointInit, HostInit, dl
<1>2. 1..dl = {}
  BY <1>1
<1> QED BY <1>1, <1>2 DEF FactInv, DisjointInit, HostInit

\* Where clasp may decide, no interval begins in a full range.
LEMMA FixpointClean ==
    ASSUME HostInv, FactInv, pc = "fixpoint"
    PROVE  Clean(Top) /\ flushed = Top
<1>1. flushed = Top /\ Top \in Bounds
  BY TopFacts DEF HostInv, FlushOK
<1>2. ~todo /\ pending = {} /\ ToldHandled
  BY DEF FactInv
<1>3. ASSUME NEW v \in Vars, Violated(CoverIn(Top), v)
      PROVE  FALSE
  <2>1. Raised(v, Top.lo[v])
    BY <1>1, <1>2, <1>3 DEF ToldHandled
  <2>2. Top.lo[v] > Top.lo[v] /\ Top.lo[v] \in Int
    BY <1>1, <1>2, <2>1 DEF Raised, Bounds
  <2> QED BY <2>2
<1> QED BY <1>1, <1>3 DEF Clean

\* A decision.
LEMMA FactDecide ==
    ASSUME HostInv, FactInv, Decide, UNCHANGED ownVars
    PROVE  FactInv'
<1>1. PICK b : Pushed(b)
  BY DecidePushes
<1>2. /\ Len(trail') = Len(trail) + 1 /\ dl' = dl + 1 /\ Top' = b /\ Previous' = Top
      /\ \A l \in 1..Len(trail) : trail'[l] = trail[l]
  BY <1>1, PushedTrail
<1>3. /\ dl \in Nat /\ Len(trail) = dl + 1 /\ Top \in Bounds /\ flushed \in Bounds
      /\ pc = "fixpoint" /\ pending = {} /\ ~todo
      /\ flushed' = flushed /\ inactive' = inactive /\ pending' = pending /\ pc' = "propagate"
      /\ last' = last /\ forceUpdate' = forceUpdate
  BY TopFacts DEF Decide, ownVars, FactInv
<1>4. UNCHANGED <<clit, clitLevel, todo>>
  BY DEF Decide, AssignClit, FactInv, litVars
<1>5. Clean(Top) /\ flushed = Top /\ Tighter(b, Top) /\ b \in Bounds
  BY <1>1, <1>3, FixpointClean DEF Pushed
<1>6. ASSUME NEW l \in 1..dl'
      PROVE  Clean(trail'[l])
  <2>1. l \in 1..Len(trail) /\ (l \in 1..dl \/ l = Len(trail))
    BY <1>2, <1>3
  <2>2. trail'[l] = trail[l]
    BY <1>2, <2>1
  <2>3. CASE l \in 1..dl
    BY <2>2, <2>3 DEF FactInv
  <2>4. CASE l = Len(trail)
    BY <1>5, <2>2, <2>4 DEF Top
  <2> QED BY <2>1, <2>3, <2>4
<1>7. ToldHandled'
  <2>1. ASSUME NEW v \in Vars
        PROVE  ~Violated(CoverIn(flushed'), v)
    BY <1>3, <1>5 DEF Clean
  <2> QED BY <2>1 DEF ToldHandled
<1>8. forceUpdate' \/ Recorded'
  <2>1. CASE forceUpdate
    BY <1>3, <2>1
  <2>2. CASE ~forceUpdate
    <3>1. Recorded
      BY <1>3, <2>2 DEF FactInv
    <3>2. ASSUME NEW v \in Vars, Violated(last, v)
          PROVE  last[v].left \in Int /\ flushed.lo[v] > last[v].left
      <4>1. last[v].left \in Int /\ (flushed.lo[v] > last[v].left \/ Raised(v, last[v].left))
        BY <3>1, <3>2 DEF Recorded
      <4> QED BY <1>3, <1>5, <4>1 DEF Raised
    <3>3. NoneOverfull(last') /\ \A v \in Vars : Violated(last', v) =>
            last'[v].left \in Int /\ flushed'.lo[v] > last'[v].left
      BY <1>3, <3>1, <3>2 DEF Recorded
    <3> QED BY <3>3 DEF Recorded
  <2> QED BY <2>1, <2>2
<1> QED BY <1>3, <1>4, <1>6, <1>7, <1>8 DEF FactInv

\* What is raised stays raised until a conflict.
LEMMA RaisedKeeps ==
    ASSUME HostInv, UnitPropagate \/ (Deliver /\ pc' = pc), NEW v \in Vars, NEW x \in Int, Raised(v, x)
    PROVE  Raised(v, x)'
<1>1. Top \in Bounds /\ Len(trail) \in Nat /\ Len(trail) > 0 /\ trail \in Seq(Bounds) /\ \A l \in pending : LitOK(l)
  BY TopFacts DEF HostInv, TrailOK
<1>2. Top'.lo[v] >= Top.lo[v] /\ Top'.lo[v] \in Int /\ Top.lo[v] \in Int
  <2>1. CASE UNCHANGED trail
    BY <1>1, <2>1 DEF Top, Bounds
  <2>2. CASE \E b : Narrowed(b)
    <3>1. PICK b : Narrowed(b)
      BY <2>2
    <3>2. Top' = b /\ b \in Bounds /\ Tighter(b, Top)
      BY <3>1, NarrowedTrail DEF Narrowed
    <3> QED BY <1>1, <3>2 DEF Tighter, Bounds
  <2> QED BY <2>1, <2>2, UnitNarrows
<1>3. CASE Top.lo[v] > x
  BY <1>2, <1>3 DEF Raised
<1>4. CASE \E l \in pending : l.var = v /\ l.kind = "gt" /\ l.value >= x
  <2>1. PICK l \in pending : l.var = v /\ l.kind = "gt" /\ l.value >= x
    BY <1>4
  <2>2. CASE l \in pending'
    BY <2>1, <2>2 DEF Raised
  <2>3. CASE l \notin pending'
    <3>1. Deliver /\ pc' = pc
      BY <2>3 DEF UnitPropagate
    <3>2. ~FalseIn(l, Top) /\ trail' = IF TrueIn(l, Top) THEN trail
                                        ELSE [trail EXCEPT ![Len(trail)] = Tightened(@, l)]
      BY <2>3, <3>1 DEF Deliver, ConflictPc
    <3>3. l.value \in Int
      BY <1>1, <2>1 DEF LitOK
    <3>4. Top'.lo[v] > l.value
      <4>1. CASE TrueIn(l, Top)
        BY <1>2, <2>1, <3>2, <3>3, <4>1 DEF TrueIn
      <4>2. CASE ~TrueIn(l, Top)
        <5>1. Top' = Tightened(Top, l)
          <6>1. trail' = [trail EXCEPT ![Len(trail)] = Tightened(Top, l)]
            BY <3>2, <4>2 DEF Top
          <6>2. Len(trail') = Len(trail) /\ trail'[Len(trail)] = Tightened(Top, l)
            BY <1>1, <6>1
          <6> QED BY <6>2 DEF Top
        <5>2. Tightened(Top, l) = [Top EXCEPT !.lo = [Top.lo EXCEPT ![v] = l.value + 1]]
          BY <2>1 DEF Tightened
        <5>3. Top'.lo[v] = l.value + 1
          BY <1>1, <5>1, <5>2 DEF Bounds
        <5> QED BY <3>3, <5>3
      <4> QED BY <4>1, <4>2
    <3>5. Top'.lo[v] > x
      BY <1>2, <2>1, <3>3, <3>4
    <3> QED BY <3>5 DEF Raised
  <2> QED BY <2>2, <2>3
<1> QED BY <1>3, <1>4 DEF Raised

\* Unit propagation, and a pending literal that is passed on.
LEMMA FactUnit ==
    ASSUME HostInv, FactInv, UnitPropagate \/ Deliver, UNCHANGED <<start, ownVars>>
    PROVE  FactInv'
<1>1. /\ HostInv' /\ dl' = dl /\ \A l \in 1..dl : trail'[l] = trail[l]
  BY UnitHostInv
<1>2. /\ flushed' = flushed /\ inactive' = inactive /\ last' = last /\ forceUpdate' = forceUpdate
      /\ pc = "propagate" /\ pc' \in {"propagate", "conflict", "unsat"}
      /\ flushed \in Bounds /\ dl \in Nat
  BY TopFacts DEF UnitPropagate, Deliver, ownVars, ConflictPc
<1>3. UNCHANGED <<clit, clitLevel, todo>>
  BY DEF UnitPropagate, Deliver, AssignClit, FactInv, litVars
<1>4. Settled' <=> Settled
  <2>1. dl > 0 => Previous' = Previous
    <3>1. CASE UNCHANGED trail
      BY <3>1 DEF Previous
    <3>2. CASE \E b : Narrowed(b)
      BY <3>2, NarrowedTrail
    <3> QED BY <3>1, <3>2, UnitNarrows
  <2> QED BY <1>1, <1>2, <2>1 DEF Settled
<1>5. \A l \in 1..dl' : Clean(trail'[l])
  BY <1>1 DEF FactInv
<1>6. pc' = "propagate" => UnitPropagate \/ (Deliver /\ pc' = pc)
  BY <1>2
<1>7. ASSUME pc' = "propagate", ~todo
      PROVE  ToldHandled'
  <2>1. ASSUME NEW v \in Vars, Violated(CoverIn(flushed), v)
        PROVE  Raised(v, flushed.lo[v])'
    <3>1. Raised(v, flushed.lo[v])
      BY <1>2, <1>7, <2>1 DEF FactInv, ToldHandled
    <3>2. flushed.lo[v] \in Int
      BY <1>2 DEF Bounds
    <3>3. ASSUME NEW x \in Int, x = flushed.lo[v]
          PROVE  Raised(v, flushed.lo[v])'
      <4>1. Raised(v, x)
        BY <3>1, <3>3
      <4>2. Raised(v, x)'
        BY <1>6, <1>7, <4>1, RaisedKeeps
      <4> QED BY <1>2, <3>3, <4>2 DEF Raised
    <3> QED BY <3>2, <3>3
  <2> QED BY <1>2, <2>1 DEF ToldHandled
<1>8. CASE pc' = "propagate"
  <2>1. ASSUME Recorded
        PROVE  Recorded'
    <3>1. ASSUME NEW v \in Vars, Violated(last, v)
          PROVE  /\ last[v].left \in Int
                 /\ flushed.lo[v] > last[v].left \/ (Settled' /\ Raised(v, last[v].left)')
      <4>1. last[v].left \in Int /\ (flushed.lo[v] > last[v].left \/ (Settled /\ Raised(v, last[v].left)))
        BY <2>1, <3>1 DEF Recorded
      <4>2. CASE Settled /\ Raised(v, last[v].left)
        <5>1. ASSUME NEW x \in Int, x = last[v].left
              PROVE  Raised(v, last[v].left)'
          <6>1. Raised(v, x)
            BY <4>2, <5>1
          <6>2. Raised(v, x)'
            BY <1>6, <1>8, <6>1, RaisedKeeps
          <6> QED BY <1>2, <5>1, <6>2 DEF Raised
        <5> QED BY <1>4, <4>1, <4>2, <5>1
      <4> QED BY <4>1, <4>2
    <3> QED BY <1>2, <2>1, <3>1 DEF Recorded
  <2>2. forceUpdate' \/ Recorded'
    BY <1>2, <2>1 DEF FactInv
  <2> QED BY <1>1, <1>2, <1>3, <1>5, <1>7, <1>8, <2>2 DEF FactInv
<1>9. CASE pc' # "propagate"
  <2>1. pc' \in {"conflict", "unsat"}
    BY <1>2, <1>9
  <2>2. forceUpdate' \/ Settled' \/ Recorded'
    <3>1. CASE Settled
      BY <1>4, <3>1
    <3>2. CASE ~Settled /\ ~forceUpdate
      <4>1. Recorded
        BY <1>2, <3>2 DEF FactInv
      <4> QED BY <1>2, <3>2, <4>1 DEF Recorded
    <3> QED BY <1>2, <3>1, <3>2
  <2> QED BY <1>1, <1>2, <1>3, <1>5, <2>1, <2>2 DEF FactInv
<1> QED BY <1>8, <1>9

\* A check with nothing to do.
LEMMA FactIdle ==
    ASSUME HostInv, FactInv, CheckIdle, UNCHANGED ownVars
    PROVE  FactInv'
<1>1. /\ pc = "propagate" /\ pending = {} /\ ~todo /\ inactive = 0
      /\ LowerDiff(Top, flushed) = {} /\ UpperDiff(Top, flushed) = {}
  BY DEF CheckIdle, CheckStart, Enqueued, ToldLower, ToldUpper, Removable, FactInv
<1>2. /\ flushed' = Top /\ todo' = FALSE /\ pc' = "fixpoint" /\ trail' = trail /\ pending' = pending
      /\ clit' = clit /\ clitLevel' = clitLevel /\ inactive' = inactive
      /\ last' = last /\ forceUpdate' = forceUpdate
  BY DEF CheckIdle, FlushBounds, ownVars, litVars
<1>3. flushed = Top
  <2>1. Top \in Bounds /\ flushed \in Bounds
    BY TopFacts
  <2>2. \A v \in Vars : Top.lo[v] = flushed.lo[v] /\ Top.up[v] = flushed.up[v]
    BY <1>1 DEF LowerDiff, UpperDiff
  <2> QED BY <2>1, <2>2 DEF Bounds
<1>4. UNCHANGED <<trail, flushed, pending, last>> /\ UNCHANGED <<clit, clitLevel, inactive, forceUpdate>>
  BY <1>1, <1>2, <1>3
<1>5. Top' = Top /\ dl' = dl /\ Previous' = Previous
  BY <1>4 DEF Top, dl, Previous
<1>6. ToldHandled /\ (forceUpdate \/ Recorded)
  BY <1>1 DEF FactInv
<1>7. ToldHandled' /\ (forceUpdate' \/ Recorded')
  BY <1>4, <1>5, <1>6 DEF ToldHandled, Recorded, Raised, Settled
<1>8. \A l \in 1..dl' : Clean(trail'[l])
  BY <1>4, <1>5 DEF FactInv
<1> QED BY <1>1, <1>2, <1>7, <1>8 DEF FactInv

\* A call of propagate.
LEMMA FactChecked ==
    ASSUME HostInv, HostStarts, DisjointWeights, FactInv, PropagateDisjoint
    PROVE  FactInv'
<1>1. /\ pc = "propagate" /\ pending = {} /\ CheckPropagate /\ flushed' = Top /\ todo' = FALSE
      /\ forceUpdate' = FALSE /\ trail' = trail /\ inactive' = inactive
  BY DEF PropagateDisjoint, CheckPropagate, CheckStart, FlushBounds
<1>2. clit = "true" /\ clitLevel = 0 /\ inactive = 0
  BY DEF FactInv
<1>3. /\ Top \in Bounds /\ flushed \in Bounds /\ dl \in Nat /\ (dl > 0 => Previous \in Bounds)
      /\ Tighter(Top, flushed) /\ (dl > 0 => Tighter(flushed, Previous))
  BY TopFacts DEF HostInv, FlushOK
<1>4. Top' = Top /\ dl' = dl /\ Previous' = Previous
  BY <1>1 DEF Top, dl, Previous
<1>5. Settled'
  <2> SUFFICES ASSUME dl > 0, Top = Previous
               PROVE  FALSE
    BY <1>1, <1>3, <1>4 DEF Settled
  <2>1. ~todo
    BY DEF FactInv
  <2>2. Enqueued
    BY <1>1 DEF CheckPropagate
  <2>3. LowerDiff(Top, flushed) \union UpperDiff(Top, flushed) # {}
    <3>1. ToldLower = LowerDiff(Top, flushed) /\ ToldUpper = UpperDiff(Top, flushed)
      BY <1>2 DEF ToldLower, ToldUpper, Removable
    <3> QED BY <2>1, <2>2, <3>1 DEF Enqueued
  <2>4. \A v \in Vars : Top.lo[v] = flushed.lo[v] /\ Top.up[v] = flushed.up[v]
    <3>1. ASSUME NEW v \in Vars
          PROVE  Top.lo[v] = flushed.lo[v] /\ Top.up[v] = flushed.up[v]
      <4>1. /\ Top.lo[v] \in Int /\ flushed.lo[v] \in Int /\ Top.up[v] \in Int /\ flushed.up[v] \in Int
            /\ flushed.lo[v] <= Top.lo[v] /\ Top.up[v] <= flushed.up[v]
            /\ Top.lo[v] <= flushed.lo[v] /\ flushed.up[v] <= Top.up[v]
        BY <1>3 DEF Bounds, Tighter
      <4> QED BY <4>1
    <3> QED BY <3>1
  <2> QED BY <2>3, <2>4 DEF LowerDiff, UpperDiff
<1>6. forceUpdate \/ Fit(last)
  <2>1. forceUpdate \/ Recorded
    BY <1>1 DEF FactInv
  <2>2. ASSUME Recorded, NEW v \in Vars, Violated(last, v)
        PROVE  Top.lo[v] > last[v].left
    <3>1. last[v].left \in Int /\ (flushed.lo[v] > last[v].left \/ Top.lo[v] > last[v].left)
      BY <1>1, <2>2 DEF Recorded, Raised
    <3>2. Top.lo[v] \in Int /\ flushed.lo[v] \in Int /\ flushed.lo[v] <= Top.lo[v]
      BY <1>3 DEF Tighter, Bounds
    <3> QED BY <3>1, <3>2
  <2> QED BY <2>1, <2>2 DEF Recorded, Fit
<1>7. \A l \in 1..dl' : Clean(trail'[l])
  BY <1>1, <1>4 DEF FactInv
<1>8. CASE \E cs : ClauseFails(cs)
  <2>1. pc' \in {"conflict", "unsat"} /\ UNCHANGED <<clit, clitLevel>>
    BY <1>8 DEF ClauseFails, ConflictPc, litVars
  <2> QED BY <1>1, <1>2, <1>5, <1>7, <2>1 DEF FactInv
<1>9. CASE /\ NoneOverfull(CoverIn(Top)) /\ last' = CoverIn(Top)
           /\ \A v \in Vars : Violated(CoverIn(Top), v) =>
                \E k \in Int : Top.lo[v] <= k /\ GT(v, k) \in pending'
           /\ UNCHANGED litVars
           /\ pc' = IF pending' = {} THEN "fixpoint" ELSE "propagate"
  <2>1. UNCHANGED <<clit, clitLevel>>
    BY <1>9 DEF litVars
  <2>2. ASSUME NEW v \in Vars, Violated(CoverIn(Top), v)
        PROVE  Raised(v, Top.lo[v])'
    <3>1. PICK k \in Int : Top.lo[v] <= k /\ GT(v, k) \in pending'
      BY <1>9, <2>2
    <3> DEFINE l == GT(v, k)
    <3>2. l.var = v /\ l.kind = "gt" /\ l.value = k
      BY DEF GT, OrderLit
    <3>3. l.value >= Top.lo[v] /\ l \in pending'
      BY <1>3, <3>1, <3>2 DEF Bounds
    <3> HIDE DEF l
    <3> QED BY <1>4, <3>2, <3>3 DEF Raised
  <2>3. ToldHandled'
    BY <1>1, <1>4, <2>2 DEF ToldHandled, Raised
  <2>4. Recorded'
    <3>1. \A v \in Vars : last'[v].left = Top.lo[v] /\ Top.lo[v] \in Int
      BY <1>3, <1>9 DEF CoverIn, Bounds
    <3>2. ASSUME NEW v \in Vars, Violated(last', v)
          PROVE  last'[v].left \in Int /\ Raised(v, last[v].left)'
      <4>1. Raised(v, Top.lo[v])'
        BY <1>9, <2>2, <3>2
      <4> QED BY <1>4, <3>1, <4>1 DEF Raised
    <3>3. NoneOverfull(last')
      BY <1>9
    <3> QED BY <1>5, <3>2, <3>3 DEF Recorded
  <2>5. pc' \in {"fixpoint", "propagate"} /\ (pc' = "fixpoint" => pending' = {})
    BY <1>9
  <2> QED BY <1>1, <1>2, <1>7, <2>1, <2>3, <2>4, <2>5 DEF FactInv
<1> QED BY <1>2, <1>6, <1>8, <1>9, FactPropagate

\* Going back a level.
LEMMA FactUndo ==
    ASSUME HostInv, FactInv, UndoDisjoint, UNCHANGED start
    PROVE  FactInv'
<1>1. /\ dl > 0 /\ dl' = dl - 1 /\ flushed' = Top' /\ Top' = Previous
      /\ inactive' = IF inactive = dl + 1 THEN 0 ELSE inactive
      /\ \A l \in 1..dl : trail'[l] = trail[l]
  BY UndoHostInv DEF UndoDisjoint
<1>2. /\ dl \in Nat /\ Previous \in Bounds /\ Previous = trail[dl] /\ flushed \in Bounds
  BY <1>1, TopFacts
<1>3. /\ pc' = "propagate" /\ todo' = FALSE /\ pending' = {} /\ last' = last
      /\ forceUpdate' = ForcedBy(TakenBack)
      /\ pc # "unsat"
  BY DEF UndoDisjoint, HostUndo
<1>4. clit = "true" /\ clitLevel = 0 /\ inactive = 0
  BY DEF FactInv
<1>5. clit' = "true" /\ clitLevel' = 0 /\ inactive' = 0
  <2>1. clitLevel # dl
    BY <1>1, <1>2, <1>4
  <2> QED BY <1>1, <1>2, <1>4, <2>1 DEF UndoDisjoint, HostUndo, litVars
<1>6. \A l \in 1..dl' : Clean(trail'[l])
  <2>1. \A l \in 1..dl' : l \in 1..dl
    BY <1>1, <1>2
  <2> QED BY <1>1, <2>1 DEF FactInv
<1>7. ToldHandled'
  <2>1. dl \in 1..dl
    BY <1>1, <1>2
  <2>2. Clean(Previous)
    BY <1>2, <2>1 DEF FactInv
  <2> QED BY <1>1, <2>2 DEF ToldHandled, Clean
<1>8. forceUpdate' \/ Recorded'
  <2>1. CASE forceUpdate \/ TakenBack # {}
    BY <1>3, <2>1 DEF ForcedBy
  <2>2. CASE ~forceUpdate /\ TakenBack = {}
    <3>1. flushed = Previous
      <4>1. LowerDiff(flushed, Previous) = {} /\ UpperDiff(flushed, Previous) = {}
        BY <1>4, <2>2 DEF TakenBack, Removable
      <4>2. \A v \in Vars : flushed.lo[v] = Previous.lo[v] /\ flushed.up[v] = Previous.up[v]
        BY <4>1 DEF LowerDiff, UpperDiff
      <4> QED BY <1>2, <4>2 DEF Bounds
    <3>2. ~Settled
      BY <1>1, <1>2, <3>1 DEF Settled
    <3>3. Recorded
      BY <2>2, <3>2 DEF FactInv
    <3>4. NoneOverfull(last') /\ \A v \in Vars : Violated(last', v) =>
            last'[v].left \in Int /\ flushed'.lo[v] > last'[v].left
      BY <1>1, <1>3, <3>1, <3>2, <3>3 DEF Recorded
    <3> QED BY <3>4 DEF Recorded
  <2> QED BY <2>1, <2>2
<1> QED BY <1>3, <1>5, <1>6, <1>7, <1>8 DEF FactInv

\* All steps keep the invariant.
LEMMA FactStep ==
    ASSUME HostInv, HostStarts, DisjointWeights, FactInv, [DisjointNext]_disjointVars
    PROVE  FactInv'
<1>1. CASE UNCHANGED disjointVars
  BY <1>1 DEF disjointVars, hostVars, ownVars, litVars, FactInv, ToldHandled, Recorded, Settled, Raised, Top, Previous, dl
<1>2. CASE DisjointNext
  <2>1. UNCHANGED start
    BY <1>2 DEF DisjointNext
  <2>2. CASE Decide /\ UNCHANGED ownVars
    BY <2>2, FactDecide
  <2>3. CASE (UnitPropagate \/ Deliver) /\ UNCHANGED ownVars
    BY <2>1, <2>3, FactUnit
  <2>4. CASE CheckIdle /\ UNCHANGED ownVars
    BY <2>4, FactIdle
  <2>5. CASE CheckFalse /\ UNCHANGED ownVars
    BY <2>5 DEF CheckFalse, FactInv
  <2>6. CASE PropagateDisjoint
    BY <2>6, FactChecked
  <2>7. CASE UndoDisjoint
    BY <2>1, <2>7, FactUndo
  <2> QED BY <1>2, <2>2, <2>3, <2>4, <2>5, <2>6, <2>7 DEF DisjointNext, DisjointStep
<1> QED BY <1>1, <1>2

\* A set of values has a greatest member, too.
LEMMA MaxValue ==
    ASSUME NEW n \in Nat, NEW f \in [1..n -> Int], NEW S \in SUBSET (1..n), S # {}
    PROVE  /\ Max({f[m] : m \in S}) \in {f[m] : m \in S}
           /\ \A i \in S : f[i] <= Max({f[m] : m \in S})
<1> DEFINE g == [i \in 1..n |-> -f[i]]
<1>1. g \in [1..n -> Int] /\ \A i \in S : g[i] = -f[i] /\ f[i] \in Int
  OBVIOUS
<1> HIDE DEF g
<1>2. PICK m \in S : \A i \in S : g[m] <= g[i]
  BY <1>1, LeastValue
<1>3. ASSUME NEW i \in S
      PROVE  f[m] >= f[i]
  <2>1. ASSUME NEW x, NEW y, x = f[m], y = f[i]
        PROVE  x >= y
    <3>1. x \in Int /\ y \in Int /\ -x <= -y
      BY <1>1, <1>2, <2>1
    <3> QED BY ONLY <3>1
  <2> QED BY <2>1
<1> DEFINE V == {f[i] : i \in S}
<1>4. f[m] \in V /\ \A y \in V : f[m] >= y
  BY <1>3
<1>5. V \subseteq Int /\ \A i \in S : f[i] \in V
  BY <1>1
<1> HIDE DEF V
<1>6. Max(V) \in V /\ \A y \in V : Max(V) >= y
  BY <1>4 DEF Max
<1>7. \A i \in S : f[i] <= Max(V)
  <2>1. \A i \in S : f[i] \in Int /\ Max(V) \in Int /\ Max(V) >= f[i]
    BY <1>5, <1>6
  <2> QED BY <2>1
<1> QED BY <1>6, <1>7 DEF V

\* The length of one interval.
LEMMA LengthOfOne ==
    ASSUME NumVars \in Nat, DisjointWeights, NEW w \in Vars
    PROVE  LengthOf({w}) = Weight[w]
<1> DEFINE f == [v \in Vars |-> IF v \in {w} THEN Weight[v] ELSE 0]
<1>1. f \in [1..NumVars -> Int] /\ f[w] = Weight[w] /\ w \in 1..NumVars
      /\ \A i \in 1..NumVars : i # w => f[i] = 0
  BY DEF DisjointWeights, Vars
<1>2. LengthOf({w}) = Sum(NumVars, f)
  BY DEF LengthOf
<1> HIDE DEF f
<1>3. Sum(NumVars, f) = f[w]
  BY <1>1, SumPoint
<1> QED BY <1>1, <1>2, <1>3

\* Where no interval begins in a full range, total assignments have no
\* overlaps.
LEMMA CleanApart ==
    ASSUME NumVars \in Nat, DisjointWeights, Top \in Bounds, Clean(Top), AllAssigned
    PROVE  AllDisjoint(Top.lo)
<1>1. ASSUME NEW v \in Vars, NEW w \in Vars, v # w,
             Top.lo[w] <= Top.lo[v], Top.lo[v] < Top.lo[w] + Weight[w]
      PROVE  FALSE
  <2> DEFINE a == Top.lo[w]
             b == Top.lo[w] + Weight[w] - 1
             S == {w}
  <2>1. /\ Top.lo[w] \in Int /\ Top.lo[v] \in Int /\ Top.up[w] = Top.lo[w]
        /\ Weight[w] \in Nat
    BY DEF Bounds, AllAssigned, DisjointWeights
  <2>2. CoverIn(Top)[w] = [left |-> a, right |-> b] /\ CoverIn(Top)[v].left = Top.lo[v]
    BY <2>1 DEF CoverIn
  <2>3. LengthOf(S) = Weight[w]
    BY LengthOfOne
  <2>4. a \in Int /\ b \in Int /\ b - a + 1 = Weight[w] /\ Top.lo[v] <= b
    BY <1>1, <2>1
  <2>5. S \in SUBSET (Vars \ {v})
    BY <1>1
  <2>6. Within(CoverIn(Top), S, a, b)
    <3>1. CoverIn(Top)[w].left = a /\ CoverIn(Top)[w].right = b
      BY <2>2
    <3> HIDE DEF a, b
    <3> QED BY <2>4, <3>1 DEF Within
  <2> HIDE DEF S, b
  <2>7. FillsRange(CoverIn(Top), v, S, a, b)
    BY <1>1, <2>1, <2>2, <2>3, <2>4, <2>6 DEF FillsRange
  <2> HIDE DEF a
  <2> QED BY <2>4, <2>5, <2>7 DEF Clean, Violated
<1>2. ASSUME NEW v \in Vars, NEW w \in Vars, v # w, Overlap(Top.lo, v, w)
      PROVE  FALSE
  <2>1. Top.lo[v] < Top.lo[w] + Weight[w] /\ Top.lo[w] < Top.lo[v] + Weight[v]
    BY <1>2 DEF Overlap
  <2>2. Top.lo[v] \in Int /\ Top.lo[w] \in Int
    BY DEF Bounds
  <2> QED BY <1>1, <1>2, <2>1, <2>2
<1> QED BY <1>2 DEF AllDisjoint

\* And first positions lie outside of the ranges that others fill exactly.
LEMMA CleanLeft ==
    ASSUME NumVars \in Nat, DisjointWeights, Top \in Bounds, Clean(Top),
           NEW S \in SUBSET Vars, S # {},
           LengthOf(S) = Max({Right(v) : v \in S}) - Min({Left(v) : v \in S}) + 1,
           NEW v \in Vars \ S
    PROVE  Left(v) \notin Min({Left(w) : w \in S})..Max({Right(w) : w \in S})
<1> DEFINE f == [w \in 1..NumVars |-> Left(w)]
           g == [w \in 1..NumVars |-> Right(w)]
<1>1. \A w \in Vars : /\ Left(w) \in Int /\ Right(w) \in Int /\ Left(w) = Top.lo[w]
                      /\ CoverIn(Top)[w].left = Left(w) /\ CoverIn(Top)[w].right = Right(w)
  BY DEF Bounds, DisjointWeights, Left, Right, CoverIn
<1>2. /\ f \in [1..NumVars -> Int] /\ g \in [1..NumVars -> Int] /\ S \in SUBSET (1..NumVars)
      /\ \A w \in S : f[w] = Left(w) /\ g[w] = Right(w)
  BY <1>1 DEF Vars
<1>3. {f[w] : w \in S} = {Left(w) : w \in S} /\ {g[w] : w \in S} = {Right(w) : w \in S}
  BY <1>2
<1> HIDE DEF f, g
<1> DEFINE a == Min({Left(w) : w \in S})
           b == Max({Right(w) : w \in S})
<1>4. a \in {f[w] : w \in S} /\ \A w \in S : a <= f[w]
  BY <1>2, <1>3, MinValue
<1>5. b \in {g[w] : w \in S} /\ \A w \in S : g[w] <= b
  BY <1>2, <1>3, MaxValue
<1>6. a \in Int /\ b \in Int /\ \A w \in S : a <= Left(w) /\ Right(w) <= b
  BY <1>1, <1>2, <1>4, <1>5
<1>7. LengthOf(S) = b - a + 1
  OBVIOUS
<1> HIDE DEF a, b
<1>8. ASSUME Left(v) \in a..b
      PROVE  FALSE
  <2>1. Within(CoverIn(Top), S, a, b)
    BY <1>1, <1>6 DEF Within
  <2>2. LengthOf(S) >= b - a + 1
    BY <1>6, <1>7
  <2>3. a <= CoverIn(Top)[v].left /\ CoverIn(Top)[v].left <= b
    BY <1>1, <1>6, <1>8
  <2>4. FillsRange(CoverIn(Top), v, S, a, b)
    BY <2>1, <2>2, <2>3 DEF FillsRange
  <2>5. S \in SUBSET (Vars \ {v})
    OBVIOUS
  <2> QED BY <1>6, <2>4, <2>5 DEF Clean, Violated
<1> QED BY <1>8 DEF a, b

\* What the invariant says of fixpoints.
LEMMA FactDetects ==
    ASSUME HostInv, HostStarts, DisjointWeights, start.clit = "true" => FactInv
    PROVE  FactsFullCheck /\ LeftBoundsLeaveHallIntervals
<1>1. NumVars \in Nat /\ Top \in Bounds
  BY TopFacts DEF HostStarts
<1>2. ASSUME start.clit = "true", pc = "fixpoint"
      PROVE  Clean(Top)
  BY <1>2, FixpointClean
<1>3. FactsFullCheck
  BY <1>1, <1>2, CleanApart DEF FactsFullCheck
<1>4. LeftBoundsLeaveHallIntervals
  BY <1>1, <1>2, CleanLeft DEF LeftBoundsLeaveHallIntervals
<1> QED BY <1>3, <1>4

-----------------------------------------------------------------------------
(* Constraints of any of the three types.                                  *)

\* The invariant of the type a constraint has.
TypesInv ==
    /\ start.kind \in {"disjoint", "nonlinear", "distinct"}
    /\ start.kind = "disjoint" => HostInv
    /\ start.kind = "nonlinear" => NonlinearInv
    /\ start.kind = "distinct" => DistinctInv

\* A step of the solver is one of its constraint.
LEMMA StepOfType ==
    ASSUME [TypesNext]_typesVars, start.kind \in {"disjoint", "nonlinear", "distinct"}
    PROVE  /\ start' = start
           /\ start.kind = "disjoint" => [DisjointNext]_disjointVars
           /\ start.kind = "nonlinear" => [NonlinearNext]_hostVars
           /\ start.kind = "distinct" => [DistinctNext]_distinctVars
<1>1. CASE UNCHANGED typesVars
  BY <1>1 DEF typesVars, disjointVars, distinctVars, hostVars
<1>2. CASE TypesNext
  <2>1. start' = start
    BY <1>2 DEF TypesNext, DisjointNext, NonlinearNext, DistinctNext
  <2> QED BY <1>2, <2>1 DEF TypesNext
<1> QED BY <1>1, <1>2

\* What holds at the start.
LEMMA TypesInitInv ==
    ASSUME TypesInit
    PROVE  TypesInv /\ ClausesEntailed
<1> USE TypesAssumption
<1>1. CASE DisjointInit
  <2>1. HostInv /\ start.kind = "disjoint" /\ added = {}
    BY <1>1, HostInitInv DEF DisjointInit, HostInit
  <2> QED BY <2>1 DEF TypesInv, ClausesEntailed, DisjointClausesEntailed
<1>2. CASE NonlinearInit
  <2>1. NonlinearInv /\ start.kind = "nonlinear" /\ added = {}
    BY <1>2, NonlinearInitInv DEF NonlinearInit, HostInit
  <2> QED BY <2>1 DEF TypesInv, ClausesEntailed, NonlinearClausesEntailed
<1>3. CASE DistinctInit
  <2>1. DistinctInv /\ start.kind = "distinct" /\ added = {}
    BY <1>3, DistinctInitInv DEF DistinctInit, HostInit
  <2> QED BY <2>1 DEF TypesInv, ClausesEntailed, DistinctClausesEntailed
<1> QED BY <1>1, <1>2, <1>3 DEF TypesInit

\* Steps keep the invariant.
LEMMA TypesStepInv ==
    ASSUME TypesInv, [TypesNext]_typesVars
    PROVE  TypesInv'
<1> USE TypesAssumption
<1>1. start.kind \in {"disjoint", "nonlinear", "distinct"} /\ start'.kind = start.kind
  BY StepOfType DEF TypesInv
<1>2. CASE start.kind = "disjoint"
  <2>1. HostInv'
    BY <1>1, <1>2, StepOfType, DisjointStepInv DEF TypesInv
  <2> QED BY <1>1, <1>2, <2>1 DEF TypesInv
<1>3. CASE start.kind = "nonlinear"
  <2>1. NonlinearInv'
    BY <1>1, <1>3, StepOfType, NonlinearStepInv DEF TypesInv
  <2> QED BY <1>1, <1>3, <2>1 DEF TypesInv
<1>4. CASE start.kind = "distinct"
  <2>1. DistinctInv'
    BY <1>1, <1>4, StepOfType, DistinctStepInv DEF TypesInv
  <2> QED BY <1>1, <1>4, <2>1 DEF TypesInv
<1> QED BY <1>1, <1>2, <1>3, <1>4

\* The inductive invariant of a constraint of any type.
THEOREM TypesInvariance == TypesSpec => []TypesInv
<1>1. TypesInit => TypesInv
  BY TypesInitInv
<1>2. TypesInv /\ [TypesNext]_typesVars => TypesInv'
  BY TypesStepInv
<1> QED BY <1>1, <1>2, PTL DEF TypesSpec

\* The clauses added in a step follow from the constraint.
LEMMA TypesStepClauses ==
    ASSUME NoCeiling, TypesInv, ClausesEntailed, [TypesNext]_typesVars
    PROVE  ClausesEntailed'
<1> USE TypesAssumption
<1>1. start.kind \in {"disjoint", "nonlinear", "distinct"} /\ start'.kind = start.kind
  BY StepOfType DEF TypesInv
<1>2. CASE start.kind = "disjoint"
  <2>1. DisjointClausesEntailed'
    BY <1>1, <1>2, StepOfType, DisjointStepClauses DEF TypesInv, ClausesEntailed
  <2> QED BY <1>1, <1>2, <2>1 DEF ClausesEntailed
<1>3. CASE start.kind = "nonlinear"
  <2>1. NonlinearClausesEntailed'
    BY <1>1, <1>3, StepOfType, NonlinearStepClauses DEF TypesInv, ClausesEntailed
  <2> QED BY <1>1, <1>3, <2>1 DEF ClausesEntailed
<1>4. CASE start.kind = "distinct"
  <2>1. DistinctClausesEntailed'
    BY <1>1, <1>4, StepOfType, DistinctStepClauses DEF TypesInv, ClausesEntailed
  <2> QED BY <1>1, <1>4, <2>1 DEF ClausesEntailed
<1> QED BY <1>1, <1>2, <1>3, <1>4

\* Every clause a constraint adds follows from it: for any numbers of
\* variables, intervals and elements, any bounds and coefficients (of the
\* linear terms of nonlinear constraints: any that are not negative), and
\* whatever calls of propagate were cut short before.
THEOREM ClausesFollow ==
    ASSUME NoCeiling
    PROVE  TypesSpec => []ClausesEntailed
<1>1. TypesInit => ClausesEntailed
  BY TypesInitInv
<1>2. TypesInv /\ ClausesEntailed /\ [TypesNext]_typesVars => ClausesEntailed'
  BY TypesStepClauses
<1> QED BY <1>1, <1>2, TypesInvariance, PTL DEF TypesSpec

\* Inactive nonlinear constraints cannot be violated.
THEOREM InactiveMarksJustified == TypesSpec => []InactiveJustified
<1>1. ASSUME TypesInv
      PROVE  InactiveJustified
  <2>1. start.kind = "nonlinear" => NonlinearInv
    BY <1>1 DEF TypesInv
  <2> QED BY <2>1, InvJustified, TypesAssumption DEF InactiveJustified
<1> QED BY <1>1, TypesInvariance, PTL

\* What distinct constraints remember of their elements is right.
THEOREM CachesRight == TypesSpec => []CachesConsistent
<1>1. ASSUME TypesInv
      PROVE  CachesConsistent
  <2>1. start.kind = "distinct" => DistinctInv
    BY <1>1 DEF TypesInv
  <2> QED BY <2>1, InvCaches DEF CachesConsistent
<1> QED BY <1>1, TypesInvariance, PTL

-----------------------------------------------------------------------------
(* Fixpoints.                                                              *)

\* The invariant of disjoint constraints that are facts.
TypesFact == start.kind = "disjoint" /\ start.clit = "true" => FactInv

\* Steps keep it.
LEMMA TypesStepFact ==
    ASSUME TypesInv, TypesFact, [TypesNext]_typesVars
    PROVE  TypesFact'
<1> USE TypesAssumption
<1>1. start' = start /\ (start.kind = "disjoint" => HostInv /\ [DisjointNext]_disjointVars)
  BY StepOfType DEF TypesInv
<1> QED BY <1>1, FactStep DEF TypesFact

\* Disjoint constraints that are facts have their invariant.
LEMMA FactsInvariance == TypesSpec => []TypesFact
<1>1. TypesInit => TypesFact
  BY FactInit DEF TypesInit, TypesFact, NonlinearInit, DistinctInit
<1>2. TypesInv /\ TypesFact /\ [TypesNext]_typesVars => TypesFact'
  BY TypesStepFact
<1> QED BY <1>1, <1>2, TypesInvariance, PTL DEF TypesSpec

\* Where clasp may decide, the bounds of the product are supported by values of
\* its factors, and no interval of a disjoint constraint that is a fact begins
\* where a set of others fills a range: whatever order equal ends are in,
\* whichever partitions are skipped, and after calls of propagate that failed.
THEOREM BoundsAreSupported == TypesSpec => []BoundsSupported
<1> USE TypesAssumption
<1>1. ASSUME TypesInv, TypesFact
      PROVE  BoundsSupported
  <2>1. CASE start.kind = "nonlinear"
    BY <1>1, <2>1, InvSupported DEF TypesInv, BoundsSupported
  <2>2. CASE start.kind = "disjoint"
    BY <1>1, <2>2, FactDetects DEF TypesInv, TypesFact, BoundsSupported
  <2> QED BY <2>1, <2>2 DEF BoundsSupported
<1> QED BY <1>1, TypesInvariance, FactsInvariance, PTL

\* Assigned elements differ where they were told.
TypesApart == start.kind = "distinct" => ApartOK

\* Where clasp may decide and the literal is true, what check_full asserts of
\* models holds: a total assignment has no overlapping intervals (of a disjoint
\* constraint that is a fact), satisfies the product, and elements with the
\* same value were detected, unless they are constants from the start.
THEOREM FullCheckNeverFails == TypesSpec => []FullCheckSucceeds
<1> USE TypesAssumption
<1>1. TypesInit => TypesApart
  BY InitApart DEF TypesInit, TypesApart, DisjointInit, NonlinearInit
<1>2. ASSUME TypesInv, TypesApart, [TypesNext]_typesVars
      PROVE  TypesApart'
  <2>1. start' = start /\ (start.kind = "distinct" => DistinctInv /\ [DistinctNext]_distinctVars)
    BY <1>2, StepOfType DEF TypesInv
  <2> QED BY <1>2, <2>1, NextApart DEF TypesApart
<1>3. ASSUME TypesInv, TypesApart, TypesFact
      PROVE  FullCheckSucceeds
  <2>1. CASE start.kind = "nonlinear"
    BY <1>3, <2>1, InvFullCheck DEF TypesInv, FullCheckSucceeds
  <2>2. CASE start.kind = "distinct"
    BY <1>3, <2>2, ApartDetects DEF TypesInv, TypesApart, FullCheckSucceeds
  <2>3. CASE start.kind = "disjoint"
    BY <1>3, <2>3, FactDetects DEF TypesInv, TypesFact, FullCheckSucceeds
  <2> QED BY <1>3, <2>1, <2>2, <2>3 DEF TypesInv
<1>4. TypesInv /\ TypesApart /\ [TypesNext]_typesVars => TypesApart'
  BY <1>2
<1>5. TypesInv /\ TypesApart /\ TypesFact => FullCheckSucceeds
  BY <1>3
<1> QED BY <1>1, <1>4, <1>5, TypesInvariance, FactsInvariance, PTL DEF TypesSpec
===============================================================================
