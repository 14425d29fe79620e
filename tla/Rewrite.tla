------------------------------ MODULE Rewrite ------------------------------
(***************************************************************************)
(* What happens to the rules of a program before they are grounded: a      *)
(* theory atom in the body of an integrity constraint is moved to its head *)
(* (shift_rule), and theory atoms are marked as head or body atoms and get *)
(* more terms in their tuples (TheoryRewriter).                            *)
(*                                                                         *)
(* Terms are sequences of variables <<"var", v>> and numbers <<"num", n>>. *)
(* Elements have a sequence of terms and the variables of their condition. *)
(* Pools and the grounder are external.                                    *)
(***************************************************************************)
EXTENDS Integers, SequencesExt, FiniteSetsExt

CONSTANTS Statements,  \* the statements of programs
          Anonymous    \* the variable written _

Summing == {"sum", "nsum", "diff"}
Rewritten == Summing \cup {"distinct", "disjoint", "minimize", "maximize"}

VARIABLES
  statement,   \* the member of Statements, never changed
  rule,        \* what it has become so far
  pc,          \* shift, search, head, body, done or rejected
  pos,         \* the position in the body
  in_literal   \* TheoryRewriter::in_literal

rewriteVars == <<statement, rule, pc, pos, in_literal>>

Init ==
  /\ statement \in Statements /\ rule = statement
  /\ pc \in {"shift", "head"}   \* whether shift-constraints is set
  /\ pos = 1 /\ in_literal = FALSE

-----------------------------------------------------------------------------
(* shift_rule                                                              *)

NegateRelation(op) ==
  CASE op = "=" -> "!=" [] op = "!=" -> "=" [] op = "<" -> ">="
    [] op = "<=" -> ">" [] op = ">" -> "<=" [] op = ">=" -> "<"

\* The head is false: #false, not not #false or not #true.
IsConstraint ==
  /\ statement.type = "rule"
  /\ rule.head.type = "literal" /\ rule.head.atom.type = "bool"
  /\ rule.head.atom.value = (rule.head.sign = "not")

IsTheory(lit, terms) == lit.type = "literal" /\ lit.atom.type = "theory" /\ lit.atom.term \in terms

StartShift ==
  /\ pc = "shift"
  /\ pc' = IF IsConstraint THEN "search" ELSE "head"
  /\ UNCHANGED <<statement, rule, pos, in_literal>>

Search ==
  /\ pc = "search"
  /\ IF pos <= Len(rule.body)
     THEN ~IsTheory(rule.body[pos], {"sum", "diff"}) /\ pos' = pos + 1 /\ UNCHANGED pc
     ELSE pos' = 1 /\ pc' = "head"
  /\ UNCHANGED <<statement, rule, in_literal>>

Shifted(lit) == IF lit.sign = "not" THEN lit.atom ELSE [lit.atom EXCEPT !.op = NegateRelation(@)]

Shift ==
  /\ pc = "search" /\ pos <= Len(rule.body)
  /\ LET lit == rule.body[pos]
     IN  /\ IsTheory(lit, {"sum", "diff"})
         /\ IF lit.atom.op = "none"
            THEN pc' = "rejected" /\ UNCHANGED <<rule, pos>>
            ELSE /\ rule' = [rule EXCEPT !.head = Shifted(lit), !.body = RemoveAt(@, pos)]
                 /\ pc' = "head" /\ pos' = 1
  /\ UNCHANGED <<statement, in_literal>>

-----------------------------------------------------------------------------
(* TheoryRewriter                                                          *)

VarsOf(t) == {leaf[2] : leaf \in {l \in ToSet(t) : l[1] = "var"}}
Missing(e) == (e.cond \ VarsOf(e.terms[1])) \ {Anonymous}

\* A number if there are several elements, and the missing variables by name.
RewriteTuple_Bug(e, number) ==
  [e EXCEPT !.terms = @ \o (IF number >= 0 THEN <<<<<<"num", number>>>>>> ELSE <<>>)]
RewriteTuple(e, number) ==
  [e EXCEPT !.terms =
     @ \o (IF number >= 0 THEN <<<<<<"num", number>>>>>> ELSE <<>>)
       \o LET names == SetToSortSeq(Missing(e), <) IN [i \in DOMAIN names |-> <<<<"var", names[i]>>>>]]

HasTuples(a) == \A i \in DOMAIN a.elems : Len(a.elems[i].terms) = 1

TagOf(literal) == IF literal THEN "b" ELSE "h"

RewriteAtom(a) ==
  [a EXCEPT
     !.elems = [i \in DOMAIN @ |-> RewriteTuple(@[i], IF Len(@) > 1 THEN i - 1 ELSE -1)],
     !.tag = IF a.term \in Summing THEN TagOf(in_literal) ELSE @]

\* Atoms of other theories are left alone; tuples with several terms throw.
IsRewritten(a) == a.type = "theory" /\ a.term \in Rewritten
Visited(a) == IF IsRewritten(a) THEN RewriteAtom(a) ELSE a
Visit(a, visited) ==
  IF IsRewritten(a) /\ ~HasTuples(a)
  THEN UNCHANGED rule /\ pc' = "rejected"
  ELSE rule' = visited /\ pc' = "body"

EnterLiteral ==
  /\ ~in_literal
  /\ \/ pc = "head" /\ rule.head.type = "literal"
     \/ pc = "body" /\ pos <= Len(rule.body) /\ rule.body[pos].type = "literal"
  /\ in_literal' = TRUE
  /\ UNCHANGED <<statement, rule, pc, pos>>

RewriteHead ==
  /\ pc = "head"
  /\ IF rule.head.type = "literal"
     THEN in_literal /\ UNCHANGED rule /\ pc' = "body"   \* theory atoms in heads are no literals
     ELSE Visit(rule.head, [rule EXCEPT !.head = Visited(@)])
  /\ in_literal' = FALSE
  /\ UNCHANGED <<statement, pos>>

RewriteBody ==
  /\ pc = "body" /\ pos <= Len(rule.body)
  /\ IF rule.body[pos].type = "literal"
     THEN /\ in_literal
          /\ Visit(rule.body[pos].atom, [rule EXCEPT !.body[pos].atom = Visited(@)])
     ELSE UNCHANGED <<rule, pc>>
  /\ in_literal' = FALSE /\ pos' = pos + 1
  /\ UNCHANGED statement

EndRewrite ==
  /\ pc = "body" /\ pos > Len(rule.body)
  /\ pc' = "done"
  /\ UNCHANGED <<statement, rule, pos, in_literal>>

Next ==
  \/ StartShift \/ Search \/ Shift
  \/ EnterLiteral \/ RewriteHead \/ RewriteBody \/ EndRewrite

Spec == Init /\ [][Next]_rewriteVars

-----------------------------------------------------------------------------
(* Rules hold for an assignment of the integer variables x(1), x(2) that   *)
(* terms stand for, and a truth value of the other atoms.                  *)

Objects == {1, 2}
Substitutions(vs) == [vs -> Objects]
Ground(t, s) == [i \in DOMAIN t |-> IF t[i][1] = "var" THEN s[t[i][2]] ELSE t[i][2]]
TermValue(g, x) == FoldLeft(LAMBDA sum, o : sum + (IF o \in Objects THEN x[o] ELSE 0), 0, g)

\* What is written: one summand for each element and each way to satisfy its
\* condition, but for anonymous variables.
Written(a, x) ==
  MapThenSumSet(
    LAMBDA i : MapThenSumSet(LAMBDA s : TermValue(Ground(a.elems[i].terms[1], s), x),
                             Substitutions((VarsOf(a.elems[i].terms[1]) \cup a.elems[i].cond) \ {Anonymous})),
    DOMAIN a.elems)

\* What is grounded: one summand for each tuple.
Tuples(a) ==
  UNION {LET e == a.elems[i]
         IN  {[j \in DOMAIN e.terms |-> Ground(e.terms[j], s)] :
                s \in Substitutions(UNION {VarsOf(e.terms[j]) : j \in DOMAIN e.terms} \cup e.cond)} :
         i \in DOMAIN a.elems}
Grounded(a, x) == MapThenSumSet(LAMBDA t : TermValue(t[1], x), Tuples(a))

Relates(op, n) ==
  CASE op = "=" -> n = 0 [] op = "!=" -> n # 0 [] op = "<" -> n < 0
    [] op = "<=" -> n <= 0 [] op = ">" -> n > 0 [] op = ">=" -> n >= 0 [] OTHER -> TRUE

\* The truth values an atom may have: that of a head atom only implies it.
Truths(a, other, value(_)) ==
  CASE a.type = "theory" -> {Relates(a.op, value(a))} \cup (IF a.tag = "h" THEN {FALSE} ELSE {})
    [] a.type = "bool" -> {a.value}
    [] OTHER -> {other}
TruthsOf(lit, other, value(_)) ==
  IF lit.type # "literal" THEN Truths(lit, other, value)
  ELSE {IF lit.sign = "not" THEN ~b ELSE b : b \in Truths(lit.atom, other, value)}

\* The truth values of a rule: of its head or of one of its body literals.
RuleTruths(r, other, value(_)) ==
  {(TRUE \in TruthsOf(r.head, other, value) \/ \E i \in DOMAIN r.body : ~t[i]) :
     t \in {u \in [DOMAIN r.body -> BOOLEAN] :
              \A i \in DOMAIN r.body : u[i] \in TruthsOf(r.body[i], other, value)}}

-----------------------------------------------------------------------------
\* Rules mean what was written: a constraint whose theory atom is moved to the
\* head rules out the same assignments, body atoms are equivalent to what they
\* state, and no summand is lost when elements become tuples of a set.
MeaningPreserved ==
  pc = "done" =>
    \A x \in [Objects -> -2..2], other \in BOOLEAN :
      RuleTruths(rule, other, LAMBDA a : Grounded(a, x))
        = RuleTruths(statement, other, LAMBDA a : Written(a, x))
=============================================================================
