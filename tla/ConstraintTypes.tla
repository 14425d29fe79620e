--------------------------- MODULE ConstraintTypes ---------------------------
(***************************************************************************)
(* A solver with one constraint of any of the types that keep a state of   *)
(* their own: disjoint, nonlinear and distinct constraints. What the       *)
(* constraint is, and so which functions the solver calls, is the kind of  *)
(* the start; what the other types would keep stays empty.                 *)
(***************************************************************************)
EXTENDS Disjoint, Nonlinear, Distinct

ASSUME TypesAssumption ==
    HostStarts /\ DisjointWeights /\ NonlinearStarts /\ DistinctElements

NoIntervals == last = <<>> /\ forceUpdate = FALSE
NoElements == assigned = <<>> /\ dirty = {} /\ todoLower = {} /\ todoUpper = {}

typesVars == <<hostVars, ownVars, elemVars>>

TypesInit ==
    \/ DisjointInit /\ NoElements
    \/ NonlinearInit /\ NoIntervals /\ NoElements
    \/ DistinctInit /\ NoIntervals

TypesNext ==
    \/ start.kind = "disjoint" /\ DisjointNext /\ UNCHANGED elemVars
    \/ start.kind = "nonlinear" /\ NonlinearNext /\ UNCHANGED <<ownVars, elemVars>>
    \/ start.kind = "distinct" /\ DistinctNext /\ UNCHANGED ownVars

TypesSpec == TypesInit /\ [][TypesNext]_typesVars

-----------------------------------------------------------------------------
\* The clauses that propagate adds follow from the constraint: those for
\* overfull ranges and Hall intervals whatever the order of equal ends,
\* those for bounds of z and for products that are too large, and those that
\* separate an element from an assigned one. After propagations that were cut
\* short, too, which leave remembered or cached bounds behind.
ClausesEntailed ==
    /\ start.kind = "disjoint" => DisjointClausesEntailed
    /\ start.kind = "nonlinear" => NonlinearClausesEntailed
    /\ start.kind = "distinct" => DistinctClausesEntailed

\* What check_full asserts of models: when clasp may decide and the literal
\* is true, a total assignment satisfies the constraint. (A disjoint
\* constraint has to be a fact for that, a distinct one already detects two
\* assigned elements of the same value, unless they were equal constants when
\* they were attached.)
FullCheckSucceeds ==
    /\ start.kind = "disjoint" => FactsFullCheck
    /\ start.kind = "nonlinear" => NonlinearFullCheck
    /\ start.kind = "distinct" => ConflictDetected

\* Nothing that follows from the bounds is missed at a fixpoint: the bounds of
\* z are supported by values of x and y, and intervals begin outside of ranges
\* that others fill.
BoundsSupported ==
    /\ start.kind = "nonlinear" => BoundsOfZSupported
    /\ start.kind = "disjoint" => LeftBoundsLeaveHallIntervals
=============================================================================
