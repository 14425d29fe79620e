------------------------------ MODULE Disjoint -------------------------------
(***************************************************************************)
(* DisjointConstraintState: intervals [left, right] of positions covered   *)
(* by v..v+w-1 must not overlap. Propagation sorts the intervals, visits   *)
(* the partitions in which a bound changed since they were visited last,   *)
(* and looks for sets of intervals that fill a range (Hall intervals).     *)
(***************************************************************************)
EXTENDS ConstraintHost, Sums, FiniteSetsExt

CONSTANT Weight   \* Weight[v]: length of the interval of v

DisjointWeights == Weight \in [Vars -> Nat \ {0}]

VARIABLES
    last,         \* last_left and last_right of each interval
    forceUpdate   \* force_update_

ownVars == <<last, forceUpdate>>
disjointVars == <<hostVars, ownVars>>

\* The positions an interval may cover.
Left(v) == Top.lo[v]
Right(v) == Top.up[v] + Weight[v] - 1
Cover(v) == [left |-> Left(v), right |-> Right(v)]

DisjointInit ==
    /\ HostInit /\ start.kind = "disjoint"
    /\ last = [v \in Vars |-> [left |-> 0, right |-> 0]]
    /\ forceUpdate = TRUE

-----------------------------------------------------------------------------
(* Algorithm<type>: p lists the intervals with ascending upper end. The    *)
(* operators take positions in p.                                          *)

Lower(type, v) == IF type = "Lower" THEN Left(v) ELSE -Right(v)
Upper(type, v) == IF type = "Lower" THEN Right(v) ELSE -Left(v)

Sorted(type) == {p \in Bijection(Vars, Vars) :
                   \A m, n \in Vars : m < n => Upper(type, p[m]) <= Upper(type, p[n])}

\* run: a partition starts where all earlier intervals end before all later
\* ones begin.
StartsBlock(type, p, n) ==
    \A m \in 1..(n - 1), q \in Vars \ 1..(n - 1) : Upper(type, p[m]) < Lower(type, p[q])
Block(type, p, n) ==
    {m \in Vars : \A q \in (m + 1)..n \union (n + 1)..m : ~StartsBlock(type, p, q)}

\* The positions in partitions that are visited.
Changed(type, p, ls, n) == \E m \in Block(type, p, n) : ls[p[m]] # Cover(p[m])
Live(type, p, ls) == {n \in Vars : forceUpdate \/ Changed(type, p, ls, n)}

\* insert: u after the positions up to n were inserted. The loop over the
\* earlier positions ends at one that is overfull.
BlockBefore(type, p, n) == {m \in Block(type, p, n) : m < n}
Overfull(type, p, n, u) ==
    {m \in BlockBefore(type, p, n) :
        Lower(type, p[m]) < Lower(type, p[n]) /\ u[m] + Weight[p[n]] > Upper(type, p[n])}
Reached_Bug(type, p, n, u) == {m \in BlockBefore(type, p, n) : Lower(type, p[m]) < Lower(type, p[n])}
Reached(type, p, n, u) ==
    IF Overfull(type, p, n, u) = {} THEN BlockBefore(type, p, n)
    ELSE {m \in BlockBefore(type, p, n) : m <= Min(Overfull(type, p, n, u))}
Inserted(type, p, n, u) ==
    LET reached == Reached(type, p, n, u)
        below == {m \in reached : Lower(type, p[m]) < Lower(type, p[n])} IN
    [m \in Vars |->
        IF m = n THEN Lower(type, p[n]) + Weight[p[n]] - 1
                      + Sum(NumVars, [q \in Vars |-> IF q \in reached \ below THEN Weight[p[q]] ELSE 0])
        ELSE IF m \in below THEN u[m] + Weight[p[n]] ELSE u[m]]

\* calculate_reason
HallReason_Bug(type, p, n, a) ==
    UNION {{LE(v, Top.lo[v] - 1), GT(v, Top.up[v])} :
             v \in {p[m] : m \in {q \in Block(type, p, n) : q < n /\ Lower(type, p[q]) >= a}}}
HallReason(type, p, n, a) ==
    UNION {{LE(v, Top.lo[v] - 1), GT(v, Top.up[v])} :
             v \in {p[m] : m \in {q \in Block(type, p, n) : q <= n /\ Lower(type, p[q]) >= a}}}
Because(lits) == Clause(lits, clitLevel > 0 \/ clit = "free")

\* update_bound: v has to leave the Hall interval that ends at b.
Leave(type, v, b) ==
    IF type = "Lower" THEN {LE(v, Top.lo[v] - 1), GT(v, Min({b, Top.up[v]}))}
    ELSE {GT(v, Top.up[v]), LE(v, Max({-b - Weight[v], Top.lo[v] - 1}))}

\* A clause added while position at was inserted. Its bound is that of
\* position pos, or it is a conflict.
Event(at, pos, lits) == [at |-> at, pos |-> pos, clause |-> Because(lits)]

\* The Hall intervals of position n, with w after it was inserted.
Full(type, p, n, w) ==
    {m \in BlockBefore(type, p, n) :
        Lower(type, p[m]) < Lower(type, p[n]) /\ w[m] = Upper(type, p[n])}
    \union (IF w[n] = Upper(type, p[n]) THEN {n} ELSE {})

\* The clauses added by insert for position n, with u before and w after it.
InsertClauses(type, p, n, u, w) ==
    LET b == Upper(type, p[n])
        over == Overfull(type, p, n, u)
        a == Min({Lower(type, p[m]) : m \in Full(type, p, n, w)})
        hit == {j \in Block(type, p, n) : j > n /\ Lower(type, p[j]) \in a..b} IN
    IF over # {} THEN {Event(n, n, HallReason(type, p, n, Lower(type, p[Min(over)])))}
    ELSE IF w[n] > b THEN {Event(n, n, HallReason(type, p, n, Lower(type, p[n])))}
    ELSE IF Full(type, p, n, w) = {} THEN {}
    ELSE {Event(n, j, HallReason(type, p, n, a) \union Leave(type, p[j], b)) : j \in hit}

\* What the positions inserted add up to, after each of them.
Filled(type, p) ==
    LET U[n \in 0..NumVars] == IF n = 0 THEN [m \in Vars |-> 0] ELSE Inserted(type, p, n, U[n - 1])
    IN  U

\* The clauses of one run; partitions are independent of each other.
Events(type, p, live) ==
    LET U == Filled(type, p) IN
    UNION {InsertClauses(type, p, n, U[n - 1], U[n]) : n \in live}

\* Partitions are visited from the last to the first one.
Precedes(type, p, m, n) == IF m \in Block(type, p, n) THEN m < n ELSE n < m
EarlierEvent(type, p, e, f) ==
    \/ e.at # f.at /\ Precedes(type, p, e.at, f.at)
    \/ e.at = f.at /\ e.pos < f.pos

\* last after the positions done were inserted.
Visited(p, ls, done) == [v \in Vars |-> IF v \in {p[n] : n \in done} THEN Cover(v) ELSE ls[v]]

\* last if the clause of event f failed: some later intervals have the bounds
\* that the clauses of the same partition should have given them.
Predicted(type, p, ls, events, f) ==
    [v \in Vars |->
        LET n == CHOOSE m \in Vars : p[m] = v
            by == {e \in events : e.pos = n /\ n > f.at /\ (e = f \/ EarlierEvent(type, p, e, f))
                                  /\ e.at \in Block(type, p, f.at)}
            b == Upper(type, p[Max({e.at : e \in by})]) + 1 IN
        IF by = {} THEN ls[v]
        ELSE IF type = "Lower" THEN [ls[v] EXCEPT !.left = b] ELSE [ls[v] EXCEPT !.right = -b]]

RunFails(type, p, live, ls, before, events) ==
    \E f \in events :
      LET earlier == before \union {e \in events : EarlierEvent(type, p, e, f)}
          done == {n \in live : n = f.at \/ Precedes(type, p, n, f.at)} IN
      /\ ~Conflicting({e.clause : e \in earlier})
      /\ ClauseFails({e.clause : e \in earlier \union {f}})
      /\ last' = Predicted(type, p, Visited(p, ls, done), events, f)

PropagateDisjoint ==
    /\ CheckPropagate
    /\ FlushBounds
    /\ forceUpdate' = FALSE
    /\ \E p \in Sorted("Lower"), q \in Sorted("Upper") :
         LET liveL == Live("Lower", p, last)
             lastL == Visited(p, last, liveL)
             eventsL == Events("Lower", p, liveL)
             liveU == Live("Upper", q, lastL)
             eventsU == Events("Upper", q, liveU) IN
         \/ RunFails("Lower", p, liveL, last, {}, eventsL)
         \/ RunFails("Upper", q, liveU, lastL, eventsL, eventsU)
         \/ /\ AddClauses({e.clause : e \in eventsL \union eventsU})
            /\ last' = Visited(q, lastL, liveU)
    /\ UNCHANGED <<trail, inactive>>

-----------------------------------------------------------------------------
\* undo
ForcedBy(changes) == forceUpdate \/ changes # {}

UndoDisjoint ==
    /\ HostUndo
    /\ forceUpdate' = ForcedBy(TakenBack)
    /\ UNCHANGED last

DisjointStep ==
    \/ (Decide \/ UnitPropagate \/ Deliver \/ CheckIdle \/ CheckFalse) /\ UNCHANGED ownVars
    \/ PropagateDisjoint
    \/ UndoDisjoint

DisjointNext == DisjointStep /\ UNCHANGED start

DisjointSpec == DisjointInit /\ [][DisjointNext]_disjointVars

-----------------------------------------------------------------------------
Overlap(a, v, w) == a[v] < a[w] + Weight[w] /\ a[w] < a[v] + Weight[v]
AllDisjoint(a) == \A v, w \in Vars : v # w => ~Overlap(a, v, w)

\* Every clause of a Hall interval and of an overfull range follows from the
\* constraint, for any order of intervals with equal ends and after clauses
\* of conflicts that were not conflicting for clasp.
DisjointClausesEntailed == \A c \in added : EntailedBy(c, AllDisjoint)

\* For a constraint that is a fact: when clasp may decide, a total assignment
\* has no overlaps (what check_full asserts of models), although partitions
\* without a change since their last visit are skipped.
FactsFullCheck ==
    start.clit = "true" /\ pc = "fixpoint" /\ AllAssigned => AllDisjoint(Top.lo)

\* How long the intervals of S are together.
LengthOf(S) == Sum(NumVars, [v \in Vars |-> IF v \in S THEN Weight[v] ELSE 0])

\* For a constraint that is a fact: when clasp may decide, no interval
\* begins where a set of other intervals fills a range.
LeftBoundsLeaveHallIntervals ==
    start.clit = "true" /\ pc = "fixpoint" =>
      \A S \in (SUBSET Vars) \ {{}} :
        LET a == Min({Left(v) : v \in S})
            b == Max({Right(v) : v \in S}) IN
        LengthOf(S) = b - a + 1 => \A v \in Vars \ S : Left(v) \notin a..b
=============================================================================
