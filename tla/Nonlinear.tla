------------------------------ MODULE Nonlinear ------------------------------
(***************************************************************************)
(* NonlinearConstraintState: a * x * y + b * z <= rhs with a possibly      *)
(* missing linear term (b = 0). The state keeps nothing between calls; it  *)
(* propagates upper and lower bounds of z and detects conflicts.           *)
(***************************************************************************)
EXTENDS ConstraintHost, Sums, FiniteSetsExt

NonlinearStarts ==
    \A s \in Starts : s.kind = "nonlinear" =>
        /\ {s.x, s.y, s.z} \subseteq Vars
        /\ s.co_a \in Int \ {0} /\ s.co_b \in Int /\ s.rhs \in Int

\* The variables, coefficients and the right hand side of the constraint.
X == start.x
Y == start.y
Z == start.z
CoA == start.co_a
CoB == start.co_b
Rhs == start.rhs

-----------------------------------------------------------------------------
\* get_bound: the bounds of the nonlinear term for bounds b.
Corners(b) == {CoA * x * y : x \in {b.lo[X], b.up[X]}, y \in {b.lo[Y], b.up[Y]}}
LowerTerm(b) == Min(Corners(b))
UpperTerm(b) == Max(Corners(b))

\* The values of z that make the linear term least and greatest.
LowerZ(b) == IF CoB < 0 THEN b.up[Z] ELSE b.lo[Z]
UpperZ(b) == IF CoB < 0 THEN b.lo[Z] ELSE b.up[Z]

LowerLhs(b) == LowerTerm(b) + CoB * LowerZ(b)
UpperLhs(b) == UpperTerm(b) + CoB * UpperZ(b)

\* The negated bounds of x and y.
ReasonXY == UNION {{GT(v, Top.up[v]), LE(v, Top.lo[v] - 1)} : v \in {X, Y}}
ReasonZ == IF CoB = 0 THEN {}
           ELSE IF CoB < 0 THEN {GT(Z, Top.up[Z])} ELSE {LE(Z, Top.lo[Z] - 1)}

\* propagate adds its clauses without the literal of the constraint.
Unguarded(lits) == Clause(lits, FALSE)

BoundZ == IF CoB > 0 THEN floordiv(Rhs - LowerTerm(Top), CoB)
                     ELSE ceildiv(Rhs - LowerTerm(Top), CoB)

TightenZ ==
    IF CoB > 0 /\ BoundZ < UpperZ(Top) THEN {Unguarded(ReasonXY \union {LE(Z, BoundZ)})}
    ELSE IF CoB < 0 /\ BoundZ > UpperZ(Top) THEN {Unguarded(ReasonXY \union {GT(Z, BoundZ - 1)})}
    ELSE {}

Satisfied_Bug == LowerLhs(Top) <= Rhs
Satisfied == UpperLhs(Top) <= Rhs

\* The clauses of one call of propagate.
NonlinearClauses ==
    IF LowerLhs(Top) > Rhs THEN {Unguarded(ReasonXY \union ReasonZ)} ELSE TightenZ

PropagateNonlinear ==
    /\ CheckPropagate
    /\ FlushBounds
    /\ IF Satisfied
       THEN /\ MarkInactive
            /\ AddClauses({})
       ELSE /\ AddClauses(NonlinearClauses) \/ ClauseFails(NonlinearClauses)
            /\ UNCHANGED inactive
    /\ UNCHANGED trail

NonlinearInit == HostInit /\ start.kind = "nonlinear"

NonlinearStep ==
    \/ Decide \/ UnitPropagate \/ Deliver
    \/ CheckIdle \/ CheckFalse
    \/ PropagateNonlinear
    \/ HostUndo

NonlinearNext == NonlinearStep /\ UNCHANGED start

NonlinearSpec == NonlinearInit /\ [][NonlinearNext]_hostVars

-----------------------------------------------------------------------------
Lhs(a) == CoA * a[X] * a[Y] + CoB * a[Z]
Holds(a) == Lhs(a) <= Rhs

\* The clauses added follow from the constraint: those that tighten z and
\* those that report a conflict.
NonlinearClausesEntailed == \A c \in added : EntailedBy(c, Holds)

\* When clasp may decide and the literal is true, a total assignment
\* satisfies the constraint (what check_full asserts of models).
NonlinearFullCheck ==
    pc = "fixpoint" /\ clit = "true" /\ AllAssigned => Holds(Top.lo)

\* A constraint is marked inactive only where its literal is false or every
\* assignment within the bounds of that level satisfies it.
InactiveJustified ==
    start.kind = "nonlinear" /\ inactive > 0 =>
      LET b == trail[inactive] IN
      \/ clit = "false"
      \/ \A a \in Assignments : (\A v \in Vars : a[v] \in b.lo[v]..b.up[v]) => Holds(a)

\* At a fixpoint with a true literal every bound of z is supported by some
\* values of x and y within their bounds.
BoundsOfZSupported ==
    pc = "fixpoint" /\ clit = "true" /\ CoB > 0 =>
      \E x \in Top.lo[X]..Top.up[X], y \in Top.lo[Y]..Top.up[Y] :
        CoA * x * y + CoB * Top.up[Z] <= Rhs
=============================================================================
