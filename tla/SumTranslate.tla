---------------------------- MODULE SumTranslate ----------------------------
(***************************************************************************)
(* The translation of a sum constraint to a weight constraint or clauses   *)
(* over order literals (SumConstraintState::translate).  The clauses come  *)
(* from a depth first search with an explicit stack and one shared clause  *)
(* buffer; a search with the same branches estimates their number first.   *)
(*                                                                         *)
(* An order literal is a record [var, val, pos]: var <= val, or its        *)
(* negation.  Literals decided by the bounds are the constants True and    *)
(* False, as get_literal returns them; NotLit is the negation of the       *)
(* literal of the constraint.                                              *)
(***************************************************************************)
EXTENDS Integers, Sequences, FiniteSets, Sums

CONSTANTS Instances,  \* [co, rhs, lb, ub, fact]: coefficients, right hand side and
                      \* bounds of the variables 1 .. n, and whether the literal is a fact
          Limits,     \* values of clause_limit
          Ratios      \* values of weight_constraint_ratio

Lit(v, k, p) == [var |-> v, val |-> k, pos |-> p]
True == Lit(0, 0, TRUE)
False == Lit(0, 0, FALSE)
NotLit == Lit(0, 1, FALSE)

VARIABLES inst,      \* the constraint with its solver state
          pc,        \* start, estimate, clauses, weight, done, kept or trivial
          limit,     \* clause_limit
          todo,      \* the stack of the search
          estimate,  \* clause_estimate_: the number of clauses seen so far
          buffer,    \* clause: the buffer shared by all branches
          clauses,   \* the clauses added, as sets
          leaves,    \* how often a clause was added
          wlits      \* the literals of the weight constraint with their weights

vars == <<inst, pc, limit, todo, estimate, buffer, clauses, leaves, wlits>>
result == <<buffer, clauses, leaves, wlits>>

-----------------------------------------------------------------------------
Vars == DOMAIN inst.co
Co(v) == inst.co[v]
Lb(v) == inst.lb[v]
Ub(v) == inst.ub[v]

MaxOf(a, b) == IF a < b THEN b ELSE a
MinOf(a, b) == IF a < b THEN a ELSE b

(* get_literal: x <= k, decided outside of the bounds.                     *)
LitLe(v, k) == IF k < Lb(v) THEN False ELSE IF k >= Ub(v) THEN True ELSE Lit(v, k, TRUE)
Not(l) == [l EXCEPT !.pos = ~@]

(* lower and upper bound of the sum, as attach computes them.              *)
Low(v) == IF Co(v) > 0 THEN Co(v) * Lb(v) ELSE Co(v) * Ub(v)
High(v) == IF Co(v) > 0 THEN Co(v) * Ub(v) ELSE Co(v) * Lb(v)
SumOver(F(_)) == LET s[n \in 0 .. Len(inst.co)] == IF n = 0 THEN 0 ELSE s[n - 1] + F(n)
                 IN  s[Len(inst.co)]
Slack == inst.rhs - SumOver(Low)
UpperSlack == inst.rhs - SumOver(High)

-----------------------------------------------------------------------------
(* The branches for a variable: the values its literal is tried with, so   *)
(* that the rest of the sum can still violate the constraint (first) and   *)
(* not every value of the rest does so (last).                             *)

FirstValue(v, upper, lower) ==
  IF Co(v) > 0
  THEN MaxOf(Lb(v) - 1, floordiv(upper + Co(v) * Ub(v), Co(v)))
  ELSE MaxOf(Lb(v), -floordiv(lower + Co(v) * Ub(v), -Co(v)) - 1)
LastValue(v, upper, lower) ==
  IF Co(v) > 0
  THEN MinOf(Ub(v) - 1, floordiv(lower + Co(v) * Lb(v), Co(v)))
  ELSE MinOf(Ub(v), -floordiv(upper + Co(v) * Lb(v), -Co(v)) - 1)

(* The slacks left when the first literal tried is false: x > last if the  *)
(* coefficient is positive, x < first otherwise.                           *)
LowerAfter(v, upper, lower) ==
  IF Co(v) > 0 THEN lower - Co(v) * (LastValue(v, upper, lower) - Lb(v) + 1)
  ELSE lower - Co(v) * (FirstValue(v, upper, lower) - Ub(v))
UpperAfter_Bug(v, upper, lower) ==
  IF Co(v) > 0 THEN upper + Co(v) * (Ub(v) - LastValue(v, upper, lower))
  ELSE upper + Co(v) * (Lb(v) - FirstValue(v, upper, lower))
UpperAfter(v, upper, lower) ==
  IF Co(v) > 0 THEN upper + Co(v) * (Ub(v) - LastValue(v, upper, lower) - 1)
  ELSE upper + Co(v) * (Lb(v) - FirstValue(v, upper, lower))

Entry(i, j, first, last, lower, upper) ==
  [i |-> i, j |-> j, first |-> first, last |-> last, lower |-> lower, upper |-> upper]

Branch(i, j, lower, upper) ==
  Entry(i + 1, j, FirstValue(i + 1, upper, lower), LastValue(i + 1, upper, lower),
        LowerAfter(i + 1, upper, lower), UpperAfter(i + 1, upper, lower))

(* The entry of the root stands for the literal of the constraint.         *)
Root(lower, upper) == Entry(0, 0, 0, 0, lower, upper)

(* The entry for the next value of the same variable.                      *)
Sibling(e) ==
  IF Co(e.i) > 0
  THEN [e EXCEPT !.last = @ - 1, !.lower = @ + Co(e.i), !.upper = @ + Co(e.i)]
  ELSE [e EXCEPT !.first = @ + 1, !.lower = @ - Co(e.i), !.upper = @ - Co(e.i)]

Size(e) == e.last - e.first + 1

(* The stack after the top entry has been taken, without its successors.   *)
TopEntry == todo[Len(todo)]
Popped == SubSeq(todo, 1, Len(todo) - 1)
Advanced == IF TopEntry.i = 0 THEN Popped ELSE Append(Popped, Sibling(TopEntry))

-----------------------------------------------------------------------------
Init ==
  /\ inst \in Instances /\ limit \in Limits
  /\ pc = "start" /\ todo = <<>> /\ estimate = 0
  /\ buffer = [i \in 1 .. Len(inst.co) + 1 |-> False]
  /\ clauses = {} /\ leaves = 0 /\ wlits = <<>>

(* literal_variable_ratio_ and weight_translate_ count and add the same    *)
(* literals: those up to the value that uses up the slack.                 *)
WeightFirst(v) ==
  IF Co(v) > 0 THEN Lb(v)
  ELSE MaxOf(-floordiv(Slack + Co(v) * Ub(v), -Co(v)) - 1, Lb(v))
WeightEnd(v) ==
  IF Co(v) > 0 THEN MinOf(floordiv(Slack + Co(v) * Lb(v), Co(v)) + 1, Ub(v)) ELSE Ub(v)

WeightLits(v) ==
  [n \in 1 .. WeightEnd(v) - WeightFirst(v) |->
     LET l == LitLe(v, WeightFirst(v) + n - 1)
     IN  IF Co(v) > 0 THEN [lit |-> Not(l), weight |-> Co(v)]
         ELSE [lit |-> l, weight |-> -Co(v)]]

LitCount == LET Count(v) == WeightEnd(v) - WeightFirst(v) IN SumOver(Count)
OpenVars == Cardinality({v \in Vars : Lb(v) # Ub(v)})
AllWeightLits ==
  LET w[n \in 0 .. Len(inst.co)] == IF n = 0 THEN <<>> ELSE w[n - 1] \o WeightLits(n)
  IN  w[Len(inst.co)]

(* translate: constraints that hold anyway are removed, those with few     *)
(* literals per variable become weight constraints.                        *)
Translate ==
  /\ pc = "start"
  /\ \E r \in Ratios :
       CASE UpperSlack >= 0 ->
              pc' = "trivial" /\ UNCHANGED <<todo, wlits>>
         [] UpperSlack < 0 /\ LitCount <= r * OpenVars ->
              pc' = "weight" /\ wlits' = AllWeightLits /\ UNCHANGED todo
         [] OTHER ->
              pc' = "estimate" /\ todo' = << Root(Slack, UpperSlack) >> /\ UNCHANGED wlits
  /\ UNCHANGED <<inst, limit, estimate, buffer, clauses, leaves>>

(* An entry that is followed was counted, except for the root.             *)
Followed(e) == IF e.i = 0 THEN 0 ELSE 1

(* clause_estimate_ counts the branches of an entry when it is pushed, and *)
(* takes one off for each that it follows.                                 *)
EstimateStep ==
  /\ pc = "estimate" /\ todo # <<>>
  /\ LET e    == TopEntry
         from == estimate - Followed(e)
         b    == Branch(e.i, e.j, e.lower, e.upper)
     IN  IF Size(e) <= 0
         THEN todo' = Popped /\ UNCHANGED <<estimate, pc>>
         ELSE IF e.lower < 0
         THEN /\ estimate' = from + 1
              /\ todo' = Advanced
              /\ pc' = IF from + 1 >= limit THEN "kept" ELSE pc
         ELSE /\ estimate' = from + Size(b)
              /\ todo' = Append(Advanced, b)
              /\ pc' = IF from + Size(b) >= limit THEN "kept" ELSE pc
  /\ UNCHANGED <<inst, limit, result>>

EstimateEnd ==
  /\ pc = "estimate" /\ todo = <<>>
  /\ pc' = "clauses"
  /\ todo' = << Root(Slack, UpperSlack) >>
  /\ UNCHANGED <<inst, limit, estimate, result>>

(* The literal of an entry.  It is not added to the clause if it is false. *)
EntryLit(e) ==
  IF e.i = 0 THEN IF inst.fact THEN False ELSE NotLit
  ELSE IF Co(e.i) > 0 THEN LitLe(e.i, e.last)
  ELSE Not(LitLe(e.i, e.first))

(* One iteration of clause_translate_: the literal goes to its position in *)
(* the buffer, over what another branch left there.                        *)
NextPosition(e) == IF EntryLit(e) = False THEN e.j ELSE e.j + 1
Written(e) == IF EntryLit(e) = False THEN buffer ELSE [buffer EXCEPT ![e.j + 1] = EntryLit(e)]

ClauseStep ==
  /\ pc = "clauses" /\ todo # <<>>
  /\ LET e == TopEntry
         j == NextPosition(e)
     IN  IF Size(e) <= 0
         THEN todo' = Popped /\ UNCHANGED <<buffer, clauses, leaves>>
         ELSE /\ buffer' = Written(e)
              /\ IF e.lower < 0
                 THEN /\ todo' = Advanced
                      /\ clauses' = clauses \cup {{buffer'[k] : k \in 1 .. j}}
                      /\ leaves' = leaves + 1
                 ELSE /\ todo' = Append(Advanced, Branch(e.i, j, e.lower, e.upper))
                      /\ UNCHANGED <<clauses, leaves>>
  /\ UNCHANGED <<inst, limit, pc, estimate, wlits>>

ClauseEnd ==
  /\ pc = "clauses" /\ todo = <<>>
  /\ pc' = "done"
  /\ UNCHANGED <<inst, limit, todo, estimate, result>>

Next == Translate \/ EstimateStep \/ EstimateEnd \/ ClauseStep \/ ClauseEnd

Spec == Init /\ [][Next]_vars

-----------------------------------------------------------------------------
(* Values within the bounds, and the constraint and its translations under *)
(* them; T is the truth value of the literal of the constraint.            *)
Assignments == {s \in [Vars -> UNION {Lb(v) .. Ub(v) : v \in Vars}] :
                  \A v \in Vars : s[v] \in Lb(v) .. Ub(v)}

SumOf(s) == LET Value(v) == Co(v) * s[v] IN SumOver(Value)
ConstraintHolds(s, T) == T => SumOf(s) <= inst.rhs

LitHolds(l, s, T) ==
  LET holds == IF l.var # 0 THEN s[l.var] <= l.val ELSE IF l.val = 1 THEN T ELSE TRUE
  IN  IF l.pos THEN holds ELSE ~holds
ClauseHolds(c, s, T) == \E l \in c : LitHolds(l, s, T)
WeightHolds(s, T) ==
  LET w[n \in 0 .. Len(wlits)] ==
        IF n = 0 THEN 0
        ELSE w[n - 1] + (IF LitHolds(wlits[n].lit, s, T) THEN wlits[n].weight ELSE 0)
  IN  T => w[Len(wlits)] <= Slack
Truths == IF inst.fact THEN {TRUE} ELSE BOOLEAN

-----------------------------------------------------------------------------
(* The buffer has room for every literal, and entries stay on the sum.     *)
TypeOK ==
  /\ pc \in {"start", "estimate", "clauses", "weight", "done", "kept", "trivial"}
  /\ \A n \in DOMAIN todo : todo[n].i \in 0 .. Len(inst.co) /\ todo[n].j \in 0 .. todo[n].i
  /\ Len(buffer) = Len(inst.co) + 1
  /\ estimate \in Nat /\ leaves \in Nat

(* The assertion of the search: as long as the sum of an entry can hold,   *)
(* its upper bound still violates it and a variable is left to branch on.  *)
(* The stack and the buffer stay within the sum.                           *)
SearchGoesOn ==
  /\ TypeOK
  /\ \A n \in DOMAIN todo :
       LET e == todo[n]
       IN  Size(e) > 0 /\ e.lower >= 0 => e.upper < 0 /\ e.i < Len(inst.co)

ClausesExact ==
  pc = "done" =>
    \A s \in Assignments, T \in Truths :
      (\A c \in clauses : ClauseHolds(c, s, T)) <=> ConstraintHolds(s, T)

WeightsExact ==
  \A s \in Assignments, T \in Truths :
    /\ pc = "weight" => (WeightHolds(s, T) <=> ConstraintHolds(s, T))
    /\ pc = "trivial" => ConstraintHolds(s, T)

(* Clauses and weight constraints have the solutions of the constraint they *)
(* replace, and one that is dropped holds anyway.                          *)
TranslationExact == ClausesExact /\ WeightsExact

(* The estimate is the number of clauses added, which is below the limit.  *)
EstimateExact == pc = "done" => leaves = estimate /\ leaves < limit
=============================================================================
