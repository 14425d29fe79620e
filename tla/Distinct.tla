------------------------------ MODULE Distinct -------------------------------
(***************************************************************************)
(* DistinctConstraintState: the elements (linear terms) of a distinct      *)
(* constraint with their cached bounds, the dirty elements, and the lists  *)
(* of elements whose bounds changed, between the calls a solver makes.     *)
(***************************************************************************)
EXTENDS ConstraintHost, Sums

CONSTANTS
    Elems,     \* the elements, numbered
    Coef,      \* Coef[e][v]: coefficient of v in e, 0 if v is not in e
    Fixed      \* Fixed[e]: constant part of e

DistinctElements ==
    /\ NumVars \in Nat
    /\ Elems \subseteq Nat
    /\ Coef \in [Elems -> [Vars -> Int]] /\ Fixed \in [Elems -> Int]

VARIABLES
    assigned,             \* assigned_: the cached bounds, also in lower_ and upper_
    dirty,                \* dirty_, in_dirty_
    todoLower, todoUpper  \* todo_lower_, todo_upper_ with their flags

elemVars == <<assigned, dirty, todoLower, todoUpper>>
distinctVars == <<hostVars, elemVars>>

VarsOf(e) == {v \in Vars : Coef[e][v] # 0}

\* init_: the bounds of element e for the bounds b of the variables.
ElemBounds(e, b) ==
    [lo |-> Fixed[e] + Sum(NumVars, [v \in Vars |->
                Coef[e][v] * (IF Coef[e][v] > 0 THEN b.lo[v] ELSE b.up[v])]),
     up |-> Fixed[e] + Sum(NumVars, [v \in Vars |->
                Coef[e][v] * (IF Coef[e][v] > 0 THEN b.up[v] ELSE b.lo[v])])]

DistinctInit ==
    /\ HostInit /\ start.kind = "distinct"
    /\ assigned = [e \in Elems |-> ElemBounds(e, start)]
    /\ dirty = {} /\ todoLower = {} /\ todoUpper = {}

-----------------------------------------------------------------------------
(* update: the list depends on the sign of the coefficient only.           *)

ElemsWith(vs) == {e \in Elems : VarsOf(e) \cap vs # {}}
ListedLower(vs) == {e \in Elems : \E v \in vs : Coef[e][v] > 0}
ListedUpper(vs) == {e \in Elems : \E v \in vs : Coef[e][v] < 0}

Told == ToldLower \union ToldUpper
DirtyNow == dirty \union ElemsWith(Told)
TodoLowerNow_Bug == todoLower \union ListedUpper(Told)
TodoLowerNow == todoLower \union ListedLower(Told)
TodoUpperNow == todoUpper \union ListedUpper(Told)

UpdateElems ==
    /\ dirty' = DirtyNow /\ todoLower' = TodoLowerNow /\ todoUpper' = TodoUpperNow
    /\ UNCHANGED assigned

-----------------------------------------------------------------------------
(* propagate.                                                              *)

\* update_: the dirty elements are recalculated.
Recalculated == [e \in Elems |-> IF e \in DirtyNow THEN ElemBounds(e, Top) ELSE assigned[e]]

Fix(as, e) == as[e].lo = as[e].up

\* propagate_: element i is assigned and the upper (s > 0) or lower bound of
\* j has the same value; some variable of j has to leave its bound.
AssignedReason(i) == UNION {{GT(v, Top.up[v]), LE(v, Top.lo[v] - 1)} : v \in VarsOf(i)}
LeavesBound(s, j, v) ==
    IF s * Coef[j][v] > 0 THEN {GT(v, Top.up[v]), LE(v, Top.up[v] - 1)}
                          ELSE {LE(v, Top.lo[v] - 1), GT(v, Top.lo[v])}
AtBound(s, j) == UNION {LeavesBound(s, j, v) : v \in VarsOf(j)}
Separate(s, i, j) == Clause(AssignedReason(i) \union AtBound(s, j), clitLevel > 0 \/ clit = "free")

\* propagate_assigned_
FromAssigned(as, i) ==
    {Separate(1, i, j) : j \in {e \in Elems \ {i} : as[e].up = as[i].lo}}
    \union {Separate(-1, i, j) : j \in {e \in Elems \ {i} : as[e].lo = as[i].lo}}

\* Element i met one bound of an assigned element. The elements are visited
\* in the order of the sets, and the first assigned one decides: nothing is
\* added if it is in a todo list itself.
FromBound(as, s, i, same) ==
    LET met == {j \in same : Fix(as, j)} IN
    IF met = {} THEN {}
    ELSE LET j == CHOOSE k \in met : \A k2 \in met : k <= k2 IN
         IF j \in TodoLowerNow \union TodoUpperNow THEN {} ELSE {Separate(s, j, i)}

\* The clauses for an element in the list of lower or upper bounds.
LowerClauses(as, i) ==
    IF Fix(as, i) THEN FromAssigned(as, i)
    ELSE FromBound(as, -1, i, {j \in Elems : as[j].lo = as[i].lo})
UpperClauses(as, i) ==
    IF Fix(as, i) THEN FromAssigned(as, i)
    ELSE FromBound(as, 1, i, {j \in Elems : as[j].up = as[i].up})

DistinctClauses(as) ==
    (UNION {LowerClauses(as, i) : i \in TodoLowerNow})
    \union (UNION {UpperClauses(as, i) : i \in TodoUpperNow})

PropagateDistinct ==
    /\ CheckPropagate
    /\ FlushBounds
    /\ LET cs == DistinctClauses(Recalculated) IN
       \/ /\ AddClauses(cs)
          /\ todoLower' = {} /\ todoUpper' = {}
       \/ /\ ClauseFails(cs)
          /\ todoLower' = TodoLowerNow /\ todoUpper' = TodoUpperNow
    /\ assigned' = Recalculated
    /\ dirty' = {}
    /\ UNCHANGED <<trail, inactive>>

-----------------------------------------------------------------------------
\* undo: the elements are dirty and nothing is left to propagate.
MarkTakenBack_Bug == UNCHANGED dirty
MarkTakenBack == dirty' = dirty \union ElemsWith(TakenBack)

\* clear_todo_, by the first call of undo.
AfterUndo(list) == IF ElemsWith(TakenBack) = {} THEN list ELSE {}

UndoDistinct ==
    /\ HostUndo
    /\ MarkTakenBack
    /\ todoLower' = AfterUndo(todoLower) /\ todoUpper' = AfterUndo(todoUpper)
    /\ UNCHANGED assigned

DistinctStep ==
    \/ (Decide \/ UnitPropagate \/ Deliver) /\ UNCHANGED elemVars
    \/ (CheckIdle \/ CheckFalse) /\ UpdateElems
    \/ PropagateDistinct
    \/ UndoDistinct

DistinctNext == DistinctStep /\ UNCHANGED start

DistinctSpec == DistinctInit /\ [][DistinctNext]_distinctVars

-----------------------------------------------------------------------------
\* Types of the state.
DistinctTypeOK ==
    /\ HostTypeOK
    /\ assigned \in [Elems -> [lo : Int, up : Int]]
    /\ dirty \subseteq Elems /\ todoLower \subseteq Elems /\ todoUpper \subseteq Elems

\* The cached bounds of an element not marked dirty are those of the bounds
\* reported so far, in every state in which the constraint is told of changes.
CacheMatches ==
    ~Removable => \A e \in Elems \ dirty : assigned[e] = ElemBounds(e, flushed)

\* Nothing of an abandoned propagation is left in the lists when the next
\* change arrives, so that no element is skipped because of a stale flag.
ListsEmptyAtFixpoint ==
    pc = "fixpoint" /\ inactive = 0 => todoLower = {} /\ todoUpper = {}

\* What the constraint remembers of its elements between the calls of the
\* solver is right, after conflicts, undone levels and inactive phases too.
CachesConsistent ==
    start.kind = "distinct" => DistinctTypeOK /\ CacheMatches /\ ListsEmptyAtFixpoint

ValueOf(e, a) == Fixed[e] + Sum(NumVars, [v \in Vars |-> Coef[e][v] * a[v]])
AllDistinct(a) == \A d, e \in Elems : d # e => ValueOf(d, a) # ValueOf(e, a)

\* The clauses added follow from the constraint.
DistinctClausesEntailed == \A c \in added : EntailedBy(c, AllDistinct)

\* The elements d and e had the same constant value when they were attached.
\* Nothing puts such elements into the lists, so they are never compared.
AttachedEqual(d, e) ==
    LET at(k) == ElemBounds(k, start)
    IN  at(d).lo = at(d).up /\ at(e).lo = at(e).up /\ at(d).lo = at(e).lo

\* The comment on propagate_ ("it guarantees conflict detection"): when
\* clasp may decide and the literal is true, assigned elements differ, except
\* for those that had one constant value from the start.
ConflictDetected ==
    pc = "fixpoint" /\ clit = "true" =>
      \A d, e \in Elems : /\ d # e /\ ~AttachedEqual(d, e)
                         /\ ElemBounds(d, Top).lo = ElemBounds(d, Top).up
                         /\ ElemBounds(e, Top).lo = ElemBounds(e, Top).up
                        => ElemBounds(d, Top).lo # ElemBounds(e, Top).lo
=============================================================================
