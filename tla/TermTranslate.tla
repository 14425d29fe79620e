---------------------------- MODULE TermTranslate ----------------------------
(***************************************************************************)
(* The translation of distinct constraints to weight constraints and of    *)
(* the objective to clasp's, with the InitClauseCreator that collects what *)
(* they add and gives it to clasp in the end.                              *)
(*                                                                         *)
(* Program variables are 1 .. n; the auxiliary variable of element e is    *)
(* n + e. Literals are order literals (LitLe), the literal of the          *)
(* constraint (ConstraintLit), and the fresh literal for element e having  *)
(* value k (ValueLit).                                                     *)
(***************************************************************************)
EXTENDS Integers, Sequences, FiniteSets

CONSTANTS
    Tasks,          \* [kind, lb, ub, clit, limit] with elems or terms, see below
    MinVal, MaxVal  \* MIN_VAL, MAX_VAL

\* distinct: elems[e] = [co, fixed], the coefficients of the variables (0 if
\* one does not occur) and the constant. minimize: terms, the coefficients,
\* with adjust and always, whether the translation is forced (by the value
\* max of the option or because an earlier objective was translated).
VARIABLES
    task,
    pc,          \* start, values, commit, done, kept or failed
    left,        \* the values whose weight constraints are still to be added
    clauses, weights, objective,  \* the buffers of the clause creator
    given        \* what clasp got: clauses, weight constraints, objective

translateVars == <<task, pc, left, clauses, weights, objective, given>>

-----------------------------------------------------------------------------
N == Len(task.lb)
ProgramVars == 1..N
Elems == DOMAIN task.elems
Co(e, v) == task.elems[e].co[v]
FixedOf(e) == task.elems[e].fixed
VarsIn(e) == {v \in ProgramVars : Co(e, v) # 0}

Total(S, F(_)) == LET t[n \in 0..N] == IF n = 0 THEN 0 ELSE t[n - 1] + IF n \in S THEN F(n) ELSE 0
                  IN  t[N]
AbsOf(n) == IF n < 0 THEN -n ELSE n

\* assigned_: the bounds of an element.
LowerOf(e) ==
    LET Part(v) == Co(e, v) * (IF Co(e, v) > 0 THEN task.lb[v] ELSE task.ub[v]) IN
    FixedOf(e) + Total(VarsIn(e), Part)
UpperOf(e) ==
    LET Part(v) == Co(e, v) * (IF Co(e, v) > 0 THEN task.ub[v] ELSE task.lb[v]) IN
    FixedOf(e) + Total(VarsIn(e), Part)

\* estimate_, with half-open intervals.
Cost == Cardinality(UNION {LowerOf(e)..(UpperOf(e) - 1) : e \in Elems})
SmallEnough ==
    /\ \A e \in Elems : LowerOf(e) >= MinVal /\ UpperOf(e) <= MaxVal
    /\ Cost < task.limit

\* domain_: the values of an element, variable by variable.
ValuesOf(e) ==
    LET d[n \in 0..N] ==
          IF n = 0 THEN {LowerOf(e)}
          ELSE {k + AbsOf(Co(e, n)) * j : k \in d[n - 1], j \in 0..(task.ub[n] - task.lb[n])}
    IN  d[N]

With(value) == {e \in Elems : value \in ValuesOf(e)}
Shared == {k \in UNION {ValuesOf(e) : e \in Elems} : Cardinality(With(k)) > 1}

\* var_: terms with several variables get an auxiliary one if they share a
\* value, which is made equal to the term by two sums.
HasShared(e) == ValuesOf(e) \intersect Shared # {}
NeedsVar(e) == Cardinality(VarsIn(e)) > 1 /\ HasShared(e)
Auxiliary == {e \in Elems : NeedsVar(e)}
VarOf(e) == IF NeedsVar(e) THEN N + e ELSE CHOOSE v \in VarsIn(e) : TRUE
FactorOf(e) == IF NeedsVar(e) THEN 1 ELSE Co(e, VarOf(e))
OffsetOf(e) == IF NeedsVar(e) THEN 0 ELSE FixedOf(e)

-----------------------------------------------------------------------------
(* Literals and the clause creator                                         *)

OrderLit(v, k, pos) == [of |-> "order", var |-> v, val |-> k, pos |-> pos]
TrueLit == [of |-> "true", var |-> 0, val |-> 0, pos |-> TRUE]
ConstraintLit == [of |-> "constraint", var |-> 0, val |-> 0, pos |-> TRUE]
ValueLit(e, k) == [of |-> "value", var |-> e, val |-> k, pos |-> TRUE]
Negated(l) == [l EXCEPT !.pos = ~@]

BoundsOf(v) == IF v \in ProgramVars THEN <<task.lb[v], task.ub[v]>>
               ELSE <<LowerOf(v - N), UpperOf(v - N)>>
\* get_literal
LitLe(v, k) == IF k < BoundsOf(v)[1] THEN Negated(TrueLit)
               ELSE IF k >= BoundsOf(v)[2] THEN TrueLit ELSE OrderLit(v, k, TRUE)

AddClauses(cs) == clauses' = clauses \union cs

\* add_weight_constraint for lit => (wlits <= bound).
AddAtMost(lits, bound) ==
    weights' = IF task.clit = "false" THEN weights ELSE Append(weights, [lits |-> lits, bound |-> bound])

\* commit negates the literal of weight constraints: (wlits >= bound + 1) => -lit.
AtLeastBound_Bug(w) == w.bound
AtLeastBound(w) == w.bound + 1
Committed(w) == [lits |-> w.lits, bound |-> AtLeastBound(w), lit |-> Negated(ConstraintLit)]

\* clasp rejects one whose literal is false and whose condition holds.
CountTrue(lits) == Cardinality({n \in DOMAIN lits : lits[n] = TrueLit})
Rejected(w) == task.clit = "true" /\ CountTrue(w.lits) >= AtLeastBound(w)

-----------------------------------------------------------------------------
Init ==
    /\ task \in Tasks
    /\ pc = "start" /\ left = {}
    /\ clauses = {} /\ weights = <<>> /\ objective = <<>>
    /\ given = [clauses |-> {}, weights |-> <<>>, objective |-> <<>>]

StartDistinct ==
    /\ pc = "start" /\ task.kind = "distinct"
    /\ IF SmallEnough THEN pc' = "values" /\ left' = Shared
       ELSE pc' = "kept" /\ UNCHANGED left
    /\ UNCHANGED <<task, clauses, weights, objective, given>>

\* The literals of element e having value k.
AtMostLit(e, k) == LitLe(VarOf(e), (k - OffsetOf(e)) \div FactorOf(e))
AboveLit(e, k) == Negated(LitLe(VarOf(e), ((k - OffsetOf(e)) \div FactorOf(e)) - 1))
IsFree(e, k) == VarsIn(e) # {} /\ AtMostLit(e, k) # TrueLit /\ AboveLit(e, k) # Negated(TrueLit)
HasValue(e, k) ==
    IF VarsIn(e) = {} THEN TrueLit
    ELSE IF AtMostLit(e, k) = TrueLit THEN AboveLit(e, k)
    ELSE IF AboveLit(e, k) = Negated(TrueLit) THEN AtMostLit(e, k)
    ELSE ValueLit(e, k)
Defining(e, k) ==
    LET a == AtMostLit(e, k)
        b == AboveLit(e, k) IN
    {{Negated(a), Negated(b), ValueLit(e, k)}, {a, Negated(ValueLit(e, k))}, {b, Negated(ValueLit(e, k))}}

\* At most one element has value k. The elements are visited in order.
Ordered(S) == CHOOSE f \in [1..Cardinality(S) -> S] : \A m, n \in DOMAIN f : m < n => f[m] < f[n]

AddValue ==
    /\ pc = "values" /\ left # {}
    /\ LET k == CHOOSE x \in left : \A y \in left : x <= y
           es == Ordered(With(k)) IN
       /\ AddClauses(UNION {Defining(e, k) : e \in {x \in With(k) : IsFree(x, k)}})
       /\ AddAtMost([n \in DOMAIN es |-> HasValue(es[n], k)], 1)
       /\ left' = left \ {k}
    /\ UNCHANGED <<task, pc, objective, given>>

ValuesEnd ==
    /\ pc = "values" /\ left = {} /\ pc' = "commit"
    /\ UNCHANGED <<task, left, clauses, weights, objective, given>>

\* required_literals
Required ==
    LET Part(v) == task.ub[v] - task.lb[v] - 1 IN Total({v \in ProgramVars : task.terms[v] # 0}, Part)

Weighted(l, w) == [lit |-> l, weight |-> w]
TermLits(v) ==
    <<Weighted(TrueLit, task.terms[v] * task.lb[v])>> \o
    [n \in 1..(task.ub[v] - task.lb[v]) |-> Weighted(Negated(LitLe(v, task.lb[v] + n - 1)), task.terms[v])]

StartMinimize ==
    /\ pc = "start" /\ task.kind = "minimize"
    /\ IF task.always \/ Required < task.limit
       THEN LET lits[n \in 0..N] ==
                  IF n = 0 THEN <<Weighted(TrueLit, -task.adjust)>>
                  ELSE lits[n - 1] \o (IF task.terms[n] = 0 THEN <<>> ELSE TermLits(n))
            IN  objective' = lits[N] /\ pc' = "commit"
       ELSE pc' = "kept" /\ UNCHANGED objective
    /\ UNCHANGED <<task, left, clauses, weights, given>>

\* commit: clauses, then weight constraints in order up to a rejected one,
\* then the objective.
Commit ==
    /\ pc = "commit"
    /\ LET bad == {n \in DOMAIN weights : Rejected(weights[n])} IN
       IF bad = {}
       THEN /\ pc' = "done"
            /\ given' = [clauses |-> clauses, objective |-> objective,
                         weights |-> [n \in DOMAIN weights |-> Committed(weights[n])]]
            /\ clauses' = {} /\ weights' = <<>> /\ objective' = <<>>
       ELSE /\ pc' = "failed"
            /\ given' = [given EXCEPT !.clauses = clauses]
            /\ clauses' = {} /\ UNCHANGED <<weights, objective>>
    /\ UNCHANGED <<task, left>>

Next == StartDistinct \/ AddValue \/ ValuesEnd \/ StartMinimize \/ Commit

Spec == Init /\ [][Next]_translateVars

-----------------------------------------------------------------------------
Assignments == {s \in [ProgramVars -> UNION {task.lb[v]..task.ub[v] : v \in ProgramVars}] :
                  \A v \in ProgramVars : s[v] \in task.lb[v]..task.ub[v]}
Truths == CASE task.clit = "true" -> {TRUE} [] task.clit = "false" -> {FALSE} [] OTHER -> BOOLEAN

TermValue(e, s) == LET Part(v) == Co(e, v) * s[v] IN FixedOf(e) + Total(VarsIn(e), Part)

\* The values of auxiliary variables that satisfy the sums added by var_.
Extensions(s) ==
    {x \in [Auxiliary -> UNION {LowerOf(e)..UpperOf(e) : e \in Auxiliary}] :
       \A e \in Auxiliary :
         LET Part(v) == Co(e, v) * s[v]
             sum == Total(VarsIn(e), Part) IN
         x[e] \in LowerOf(e)..UpperOf(e) /\ -x[e] + sum <= -FixedOf(e) /\ x[e] - sum <= FixedOf(e)}

\* Truth of literals; V are the true literals for values.
Holds(l, s, x, T, V) ==
    LET value == IF l.var \in ProgramVars THEN s[l.var] ELSE x[l.var - N]
        holds == CASE l.of = "order" -> value <= l.val
                   [] l.of = "constraint" -> T
                   [] l.of = "value" -> l \in V
                   [] OTHER -> TRUE
    IN  IF l.pos THEN holds ELSE ~holds

ValueLits == {[l EXCEPT !.pos = TRUE] : l \in {m \in UNION given.clauses : m.of = "value"}}
\* The value literals that the clauses force to be true.
Implied(s, x) == {l \in ValueLits :
    \E c \in given.clauses : l \in c /\ \A m \in c \ {l} : ~Holds(m, s, x, TRUE, {})}

WeightHolds(w, s, x, T, V) ==
    Cardinality({n \in DOMAIN w.lits : Holds(w.lits[n], s, x, T, V)}) >= w.bound => Holds(w.lit, s, x, T, V)

Accepted(s, T) ==
    \E x \in Extensions(s) :
      LET V == Implied(s, x) IN
      /\ \A c \in given.clauses : \E m \in c : Holds(m, s, x, T, V)
      /\ \A n \in DOMAIN given.weights : WeightHolds(given.weights[n], s, x, T, V)

Differ(s) == \A d, e \in Elems : d # e => TermValue(d, s) # TermValue(e, s)

\* What clasp gets for a distinct constraint has its solutions: exactly the
\* assignments under which the terms differ if the literal is true extend to
\* one of the auxiliary variables and literals, in one way only; clasp rejects
\* a weight constraint only if there are none.
DistinctTranslated ==
    task.kind = "distinct" =>
      \A s \in Assignments, T \in Truths :
        /\ pc = "done" => /\ Accepted(s, T) <=> (T => Differ(s))
                          /\ Cardinality(Extensions(s)) = 1
        /\ pc = "failed" => ~Differ(s)

ObjectiveOf(s) == LET Part(v) == task.terms[v] * s[v] IN Total(ProgramVars, Part) - task.adjust
CostInClasp(s) ==
    LET c[n \in 0..Len(given.objective)] ==
          IF n = 0 THEN 0
          ELSE c[n - 1] + IF Holds(given.objective[n].lit, s, <<>>, TRUE, {}) THEN given.objective[n].weight ELSE 0
    IN  c[Len(given.objective)]

\* The cost clasp assigns to a model is the value of the objective.
CostTranslated ==
    task.kind = "minimize" /\ pc = "done" => \A s \in Assignments : CostInClasp(s) = ObjectiveOf(s)

\* The documented meaning of the option translate-opt: the objective is
\* translated if it requires less literals than the limit, and never for 0.
TranslatedBelowLimit ==
    task.kind = "minimize" /\ ~task.always /\ pc = "done" =>
        LET Part(v) == task.ub[v] - task.lb[v] IN
        Total({v \in ProgramVars : task.terms[v] # 0}, Part) < task.limit
=============================================================================
