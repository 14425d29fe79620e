--------------------------- MODULE ConstraintHost ---------------------------
(***************************************************************************)
(* What one constraint state sees of its solver: the bounds of its         *)
(* variables on every decision level, calls of update, propagate and undo, *)
(* its place in the todo list, its inactive mark and the truth of its      *)
(* literal. The actions below are the solver's side of these calls; the    *)
(* modules of the constraint types conjoin them with their own.            *)
(*                                                                         *)
(* The bookkeeping behind it (stacks, lists of pending changes, watches)   *)
(* is the subject of SolverState; here a change is pending as long as the  *)
(* current bound differs from the flushed one. Every level has a frame.    *)
(***************************************************************************)
EXTENDS Integers, Sequences, FiniteSets

CONSTANTS
    NumVars,  \* the variables are 1..NumVars
    Starts,   \* what it may be and be attached to: [kind, lo, up, clit], the type
              \* of the constraint, the bounds of the variables and the truth of
              \* the literal, possibly with more fields
    MaxLevel  \* bound: decision levels explored

Vars == 1..NumVars

\* What the constants have to satisfy.
HostStarts ==
    /\ NumVars \in Nat /\ MaxLevel \in Nat
    /\ \A s \in Starts :
        /\ s.lo \in [Vars -> Int] /\ s.up \in [Vars -> Int]
        /\ \A v \in Vars : s.lo[v] <= s.up[v]
        /\ s.clit \in {"free", "true"}

VARIABLES
    start,            \* the member of Starts, never changed
    trail,            \* trail[l + 1]: the bounds after level l
    flushed,          \* the bounds the constraint has been told of
    clit, clitLevel,  \* the constraint literal and its level
    inactive,         \* inactive_level_
    todo,             \* todo_
    pending,          \* literals true by clauses, not passed to propagate yet
    added,            \* the clauses added if the last step was a call of propagate
    pc

litVars  == <<clit, clitLevel>>
hostVars == <<start, trail, flushed, litVars, inactive, todo, pending, added, pc>>

Top == trail[Len(trail)]
dl == Len(trail) - 1

\* A clause consists of order literals and possibly the negated literal of
\* the constraint.
OrderLit(v, kind, value) == [var |-> v, kind |-> kind, value |-> value]
LE(v, value) == OrderLit(v, "le", value)
GT(v, value) == OrderLit(v, "gt", value)
Clause(lits, guarded) == [lits |-> lits, guarded |-> guarded]

TrueIn(l, b)  == IF l.kind = "le" THEN b.up[l.var] <= l.value ELSE b.lo[l.var] > l.value
FalseIn(l, b) == IF l.kind = "le" THEN b.lo[l.var] > l.value ELSE b.up[l.var] <= l.value

\* The bounds b after the literal l became true.
Tightened(b, l) == IF l.kind = "le" THEN [b EXCEPT !.up[l.var] = l.value]
                                    ELSE [b EXCEPT !.lo[l.var] = l.value + 1]

OpenLits ==
    {l \in UNION {{LE(v, k), GT(v, k)} : v \in Vars, k \in UNION {Top.lo[w]..Top.up[w] : w \in Vars}} :
        ~TrueIn(l, Top) /\ ~FalseIn(l, Top)}

Removable == inactive > 0 /\ inactive <= dl

HostInit ==
    /\ start \in Starts
    /\ trail = <<[lo |-> start.lo, up |-> start.up]>>
    /\ flushed = [lo |-> start.lo, up |-> start.up]
    /\ clit = start.clit /\ clitLevel = 0
    /\ inactive = 0 /\ todo = TRUE
    /\ pending = {} /\ added = {}
    /\ pc = "propagate"

-----------------------------------------------------------------------------
(* clasp decides or propagates; what it assigned is passed to propagate.   *)

AssignClit(level) ==
    /\ clit = "free"
    /\ clitLevel' = level
    /\ \/ clit' = "true" /\ todo' = (todo \/ inactive = 0)
       \/ clit' = "false" /\ UNCHANGED todo

Decide ==
    /\ pc = "fixpoint" /\ dl < MaxLevel
    /\ \/ /\ \E l \in OpenLits : trail' = Append(trail, Tightened(Top, l))
          /\ UNCHANGED <<litVars, todo>>
       \/ /\ AssignClit(dl + 1)
          /\ trail' = Append(trail, Top)
    /\ pc' = "propagate"
    /\ added' = {}
    /\ UNCHANGED <<flushed, inactive, pending>>

UnitPropagate ==
    /\ pc = "propagate"
    /\ \/ /\ \E l \in OpenLits : trail' = [trail EXCEPT ![Len(trail)] = Tightened(@, l)]
          /\ UNCHANGED <<litVars, todo>>
       \/ AssignClit(dl) /\ UNCHANGED trail
    /\ added' = {}
    /\ UNCHANGED <<flushed, inactive, pending, pc>>

ConflictPc == IF dl = 0 THEN "unsat" ELSE "conflict"

Deliver ==
    /\ pc = "propagate"
    /\ \E l \in pending :
         /\ pending' = pending \ {l}
         /\ IF FalseIn(l, Top) THEN pc' = ConflictPc /\ UNCHANGED trail
            ELSE /\ trail' = IF TrueIn(l, Top) THEN trail
                             ELSE [trail EXCEPT ![Len(trail)] = Tightened(@, l)]
                 /\ UNCHANGED pc
    /\ added' = {}
    /\ UNCHANGED <<flushed, litVars, inactive, todo>>

-----------------------------------------------------------------------------
(* Solver::check: flush the changes, then propagate the constraint if it   *)
(* is in the todo list.                                                    *)

\* The variables whose lower (upper) bound differs between bounds a and b.
LowerDiff(a, b) == {v \in Vars : a.lo[v] # b.lo[v]}
UpperDiff(a, b) == {v \in Vars : a.up[v] # b.up[v]}

\* The changes reported by update in this check.
ToldLower == IF Removable THEN {} ELSE LowerDiff(Top, flushed)
ToldUpper == IF Removable THEN {} ELSE UpperDiff(Top, flushed)

\* Whether the constraint is in the todo list after the changes were reported.
Enqueued == todo \/ (inactive = 0 /\ ToldLower \union ToldUpper # {})

CheckStart == pc = "propagate" /\ pending = {}
FlushBounds == flushed' = Top /\ todo' = FALSE

\* There is nothing to do.
CheckIdle ==
    /\ CheckStart /\ ~Enqueued
    /\ FlushBounds
    /\ added' = {}
    /\ pc' = "fixpoint"
    /\ UNCHANGED <<trail, litVars, inactive, pending>>

MarkInactive == inactive' = IF inactive = 0 THEN dl + 1 ELSE inactive

\* The literal is false: the constraint is left alone.
CheckFalse ==
    /\ CheckStart /\ Enqueued /\ clit = "false"
    /\ FlushBounds
    /\ MarkInactive
    /\ added' = {}
    /\ pc' = "fixpoint"
    /\ UNCHANGED <<trail, litVars, pending>>

\* Calls propagate. The parts of clauses that are not false decide.
CheckPropagate == CheckStart /\ Enqueued /\ clit # "false"

OpenPart(c) == {l \in c.lits : ~FalseIn(l, Top)}
Guarded(c) == c.guarded /\ clit = "free"
Units(cs) == UNION {OpenPart(c) : c \in {d \in cs : ~Guarded(d) /\ Cardinality(OpenPart(d)) = 1}}
Conflicting(cs) == \E c \in cs : ~Guarded(c) /\ OpenPart(c) = {}

\* add_clause returned true for the clauses cs.
AddClauses(cs) ==
    /\ ~Conflicting(cs)
    /\ added' = cs
    /\ pending' = {l \in Units(cs) : ~TrueIn(l, Top)}
    /\ IF \E c \in cs : Guarded(c) /\ OpenPart(c) = {}
       THEN clit' = "false" /\ clitLevel' = dl
       ELSE UNCHANGED litVars
    /\ pc' = IF pending' = {} THEN "fixpoint" ELSE "propagate"

\* add_clause returned false for one of the clauses cs: it is conflicting,
\* or clasp has to go back to a lower level for it.
ClauseFails(cs) ==
    /\ cs # {} /\ (Conflicting(cs) \/ dl > 0)
    /\ added' = cs
    /\ pc' = ConflictPc
    /\ UNCHANGED <<litVars, pending>>

-----------------------------------------------------------------------------
(* Solver::undo for the last level. Calls undo of the constraint for the   *)
(* variables whose changes had been reported.                              *)

Previous == trail[Len(trail) - 1]
TakenBack == IF Removable THEN {}
             ELSE LowerDiff(flushed, Previous) \union UpperDiff(flushed, Previous)

\* An inactive mark is removed with its level.
InactiveAfterUndo == IF inactive = dl + 1 THEN 0 ELSE inactive

HostUndo ==
    /\ pc \in {"propagate", "fixpoint", "conflict"} /\ dl > 0
    /\ trail' = SubSeq(trail, 1, Len(trail) - 1)
    /\ flushed' = Previous
    /\ inactive' = InactiveAfterUndo
    /\ todo' = FALSE
    /\ IF clitLevel = dl THEN clit' = "free" /\ clitLevel' = 0 ELSE UNCHANGED litVars
    /\ pending' = {} /\ added' = {}
    /\ pc' = "propagate"

-----------------------------------------------------------------------------
\* The state of the solver's side.
HostTypeOK ==
    /\ start \in Starts
    /\ trail \in Seq([lo : [Vars -> Int], up : [Vars -> Int]])
    /\ trail # <<>>
    /\ flushed \in [lo : [Vars -> Int], up : [Vars -> Int]]
    /\ clit \in {"free", "true", "false"} /\ clitLevel \in 0..dl
    /\ inactive \in 0..(dl + 1) /\ todo \in BOOLEAN
    /\ \A l \in pending : l.var \in Vars /\ l.kind \in {"le", "gt"} /\ l.value \in Int
    /\ pc \in {"propagate", "fixpoint", "conflict", "unsat"}

\* The assignments within the initial bounds.
Assignments == {a \in [Vars -> UNION {start.lo[v]..start.up[v] : v \in Vars}] :
                  \A v \in Vars : a[v] \in start.lo[v]..start.up[v]}

HoldsFor(l, a) == IF l.kind = "le" THEN a[l.var] <= l.value ELSE a[l.var] > l.value

\* Every assignment that satisfies the constraint Holds satisfies clause c
\* (with the constraint literal true).
EntailedBy(c, Holds(_)) ==
    \A a \in Assignments : Holds(a) => \E l \in c.lits : HoldsFor(l, a)

AllAssigned == \A v \in Vars : Top.lo[v] = Top.up[v]
=============================================================================
