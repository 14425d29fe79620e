------------------------------ MODULE Normalize ------------------------------
(***************************************************************************)
(* How theory atoms become constraints: parsing.cc turns the terms of an   *)
(* atom into a sum of coefficients and variables, simplifies it, rewrites  *)
(* its relation into `<=', and the ConstraintBuilder of propagator.cc      *)
(* adds simple, sum, nonlinear, distinct and disjoint constraints with     *)
(* fresh literals and clauses between them.                                *)
(*                                                                         *)
(* A term is a number, a variable, or a sum, difference, negation or       *)
(* product of terms.  Literals are integers, -l negates l, and TrueLit is  *)
(* the only literal true before the search.  A strict atom (of a rule      *)
(* body) is equivalent to its constraint, others (of a head) imply it.     *)
(* Overflows, which the code reports with an exception, are left out.      *)
(***************************************************************************)
EXTENDS Terms, FiniteSets, SequencesExt

CONSTANTS Vars,      \* the variables, integers
          Values,    \* the values they take when solutions are compared
          Programs,  \* sequences of the theory atoms of a program
          AtomLits   \* the literals of atoms are 1 .. AtomLits and their negations

TrueLit == 1

VARIABLES program,  \* the member of Programs, never changed
          parsed,   \* the atoms parsed so far
          builder,  \* what the builder has added for them
          rejected  \* an exception was thrown

vars == <<program, parsed, builder, rejected>>

-----------------------------------------------------------------------------
(* Terms as sums of monomials.                                             *)

Products(ls, rs) ==
  FlattenSeq([i \in DOMAIN ls |->
    [j \in DOMAIN rs |-> Mono(ls[i].co * rs[j].co, ls[i].vars \o rs[j].vars)]])

RECURSIVE Elems(_)
Elems(t) ==
  CASE t[1] = "num" -> << Mono(t[2], <<>>) >>
    [] t[1] = "var" -> << Mono(1, <<t[2]>>) >>
    [] t[1] = "+" -> Elems(t[2]) \o Elems(t[3])
    [] t[1] = "-" -> Elems(t[2]) \o Negated(Elems(t[3]))
    [] t[1] = "neg" -> Negated(Elems(t[2]))
    [] t[1] = "*" -> Products(Elems(t[2]), Elems(t[3]))

(* A difference must be an `a - b' of variables and numbers, compared with *)
(* a number.                                                               *)
IsDifference(a) ==
  /\ Len(a.terms) = 1 /\ a.terms[1][1] = "-" /\ a.rhs[1] = "num"
  /\ \A i \in {2, 3} : a.terms[1][i][1] \in {"num", "var"}

(* The elements of an atom and, with opposite sign, its right hand side.   *)
AtomElems(a) ==
  FlattenSeq([i \in DOMAIN a.terms |-> Elems(a.terms[i])]) \o Negated(Elems(a.rhs))

(* simplify for nonlinear terms sorts the variables of the monomials first. *)
Sorted(es) == [i \in DOMAIN es |-> Mono(es[i].co, SortSeq(es[i].vars, <))]

IsLinear(es) == \A i \in DOMAIN es : Len(es[i].vars) <= 1

AbsOf(n) == IF n < 0 THEN -n ELSE n

(* The greatest common divisor of the coefficients and the right hand side. *)
Gcd(S) ==
  LET abs == {AbsOf(n) : n \in S} \ {0}
  IN  IF abs = {} THEN 0
      ELSE Max({d \in 1 .. Max(abs) : \A n \in abs : n % d = 0})

Quotient(n, d) == IF n < 0 THEN -(-n \div d) ELSE n \div d

Divisor(c) ==
  IF c.elems = <<>> THEN c.rhs
  ELSE Gcd({c.rhs} \cup {c.elems[i].co : i \in DOMAIN c.elems})

Reduced(c) ==
  LET d == Divisor(c)
  IN  IF d <= 1 THEN c
      ELSE [elems |-> [i \in DOMAIN c.elems |->
                        Mono(Quotient(c.elems[i].co, d), c.elems[i].vars)],
            rhs   |-> Quotient(c.rhs, d)]

-----------------------------------------------------------------------------
(* The builder: the last literal used, clauses, and the constraints it     *)
(* handed to the propagator.  A constraint with `strict' set is equivalent *)
(* to its literal.                                                         *)

EmptyBuilder ==
  [last |-> AtomLits, clauses |-> {}, cons |-> {}, distincts |-> {},
   disjoints |-> {}, doms |-> {}, bad |-> FALSE]

WithClauses(b, cs) == [b EXCEPT !.clauses = @ \cup cs]
WithLits(b, n) == [b EXCEPT !.last = @ + n]
WithCons(b, cs) == [b EXCEPT !.cons = @ \cup cs]
IsFalseLit(lit) == lit = -TrueLit

Con(lit, es, rhs, strict) == [lit |-> lit, elems |-> es, rhs |-> rhs, strict |-> strict]

(* ConstraintBuilder::add_constraint: one element gives simple constraints *)
(* on order literals, and a strict sum becomes one sum per direction.      *)
AddLinear(b, lit, es, rhs, strict) ==
  IF ~strict /\ IsFalseLit(lit) THEN b
  ELSE IF Len(es) = 1 THEN WithCons(b, {Con(lit, es, rhs, strict)})
  ELSE WithCons(b, {Con(lit, es, rhs, FALSE)}
         \cup (IF strict THEN {Con(-lit, Negated(es), -(rhs + 1), FALSE)} ELSE {}))

(* ConstraintBuilder::add_nonlinear: co_ab * a * b + co_c * c <= rhs.  The *)
(* reverse direction of a strict constraint gets the literal itself.       *)
AddNonlinear(b, lit, es, rhs, strict) ==
  IF IsLinear(es) THEN AddLinear(b, lit, es, rhs, strict)
  ELSE WithCons(b, {Con(lit, es, rhs, FALSE)}
         \cup (IF strict THEN {Con(lit, Negated(es), -(rhs + 1), FALSE)} ELSE {}))

(* add_constraint for nonlinear terms looks at the terms in order.  Both   *)
(* tests are on the coefficient of a linear term seen before, so that a    *)
(* second product replaces the first one.                                  *)
OfDegree(es, d) == {i \in DOMAIN es : Len(es[i].vars) = d}
AcceptsTerms(es) ==
  /\ \A i \in DOMAIN es : Len(es[i].vars) <= 2
  /\ \A i \in OfDegree(es, 1) : i = Len(es)
TakenTerms(es) ==
  LET products == OfDegree(es, 2)
      taken == OfDegree(es, 1) \cup (IF products = {} THEN {} ELSE {Max(products)})
  IN  [k \in 1 .. Cardinality(taken) |->
         es[CHOOSE i \in taken : Cardinality({j \in taken : j < i}) = k - 1]]

Add(b, lit, es, rhs, strict, nonlinear) ==
  IF ~nonlinear THEN AddLinear(b, lit, es, rhs, strict)
  ELSE IF ~AcceptsTerms(es) THEN [b EXCEPT !.bad = TRUE]
  ELSE AddNonlinear(b, lit, TakenTerms(es), rhs, strict)

-----------------------------------------------------------------------------
(* normalize_constraint.  The operators implement one relation each; Imp   *)
(* are the relations of literals that only imply them.                     *)

ImpLe(b, lit, es, rhs, nl) ==
  IF IsFalseLit(lit) THEN b ELSE Add(b, lit, es, rhs, FALSE, nl)
ImpGe(b, lit, es, rhs, nl) == ImpLe(b, lit, Negated(es), -rhs, nl)
ImpLt(b, lit, es, rhs, nl) == ImpLe(b, lit, es, rhs - 1, nl)
ImpGt(b, lit, es, rhs, nl) == ImpGe(b, lit, es, rhs + 1, nl)
ImpEq(b, lit, es, rhs, nl) == ImpGe(ImpLe(b, lit, es, rhs, nl), lit, es, rhs, nl)

(* `!=' is a disjunction of `<' and `>'; the literals of both are false    *)
(* when the literal of the atom is.                                        *)
ChoiceClauses_Free(a, c, lit) == {{a, c, -lit}, {-a, -c}}
ChoiceClauses(a, c, lit) == {{a, c, -lit}, {-a, -c}, {lit, -a}, {lit, -c}}

ImpNe(b, lit, es, rhs, nl) ==
  LET a == b.last + 1
      c == b.last + 2
      d == WithClauses(WithLits(b, 2), ChoiceClauses(a, c, lit))
  IN  ImpGt(ImpLt(d, a, es, rhs, nl), c, es, rhs, nl)

StrictLe(b, lit, es, rhs, nl) ==
  IF Len(es) = 1 THEN Add(b, lit, es, rhs, TRUE, nl)
  ELSE ImpGt(ImpLe(b, lit, es, rhs, nl), -lit, es, rhs, nl)
StrictGe(b, lit, es, rhs, nl) == StrictLe(b, lit, Negated(es), -rhs, nl)
StrictLt(b, lit, es, rhs, nl) == StrictLe(b, lit, es, rhs - 1, nl)
StrictGt(b, lit, es, rhs, nl) == StrictGe(b, lit, es, rhs + 1, nl)

(* A strict `=' is the conjunction of `<=' and `>='.                       *)
BothClauses(a, c, lit) == {{-lit, a}, {-lit, c}, {-a, -c, lit}}

StrictEq(b, lit, es, rhs, nl) ==
  LET fact == lit = TrueLit
      a == IF fact THEN TrueLit ELSE b.last + 1
      c == IF fact THEN TrueLit ELSE b.last + 2
      d == WithClauses(IF fact THEN b ELSE WithLits(b, 2), BothClauses(a, c, lit))
  IN  StrictGe(StrictLe(d, a, es, rhs, nl), c, es, rhs, nl)
StrictNe(b, lit, es, rhs, nl) == StrictEq(b, -lit, es, rhs, nl)

Normalized(b, lit, c, op, strict, nl) ==
  CASE op = "<=" -> IF strict THEN StrictLe(b, lit, c.elems, c.rhs, nl) ELSE ImpLe(b, lit, c.elems, c.rhs, nl)
    [] op = ">=" -> IF strict THEN StrictGe(b, lit, c.elems, c.rhs, nl) ELSE ImpGe(b, lit, c.elems, c.rhs, nl)
    [] op = "<"  -> IF strict THEN StrictLt(b, lit, c.elems, c.rhs, nl) ELSE ImpLt(b, lit, c.elems, c.rhs, nl)
    [] op = ">"  -> IF strict THEN StrictGt(b, lit, c.elems, c.rhs, nl) ELSE ImpGt(b, lit, c.elems, c.rhs, nl)
    [] op = "="  -> IF strict THEN StrictEq(b, lit, c.elems, c.rhs, nl) ELSE ImpEq(b, lit, c.elems, c.rhs, nl)
    [] op = "!=" -> IF strict THEN StrictNe(b, lit, c.elems, c.rhs, nl) ELSE ImpNe(b, lit, c.elems, c.rhs, nl)

-----------------------------------------------------------------------------
(* ConstraintBuilder::add_distinct and add_disjoint.  Two elements are     *)
(* expressed with sums, more with a constraint of their own.               *)

(* parse_distinct keeps a term as its sum and its constant.                *)
DistinctElem(t) ==
  LET s == Simplify(Elems(t)) IN [elems |-> s.elems, fixed |-> -s.rhs]

(* `i # j' as `i - j < 0' or `j - i < 0'; a fact needs one literal only.   *)
DistinctPair(b, lit, i, j) ==
  LET s    == Simplify(i.elems \o Negated(j.elems))
      rhs  == j.fixed - i.fixed + s.rhs
      fact == lit = TrueLit
      a    == b.last + 1
      c    == IF fact THEN -a ELSE b.last + 2
      d    == IF fact THEN WithLits(b, 1)
              ELSE WithClauses(WithLits(b, 2), ChoiceClauses(a, c, lit))
  IN  IF s.elems = <<>>
      THEN IF rhs = 0 THEN WithClauses(b, {{-lit}}) ELSE b
      ELSE AddLinear(AddLinear(d, a, s.elems, rhs - 1, FALSE),
                     c, Negated(s.elems), -rhs - 1, FALSE)

AddDistinct(b, lit, es) ==
  IF IsFalseLit(lit) THEN b
  ELSE IF Len(es) > 2
       THEN [b EXCEPT !.distincts = @ \cup {[lit |-> lit, elems |-> es]}]
  ELSE IF Len(es) = 2 THEN DistinctPair(b, lit, es[1], es[2])
  ELSE b

(* translate_disjoint_: the literal of `i - j <= rhs' (0 if it needs one). *)
Comparison(i, j, rhs) ==
  LET s == Simplify(<<Mono(1, <<i>>), Mono(-1, <<j>>)>>)
      r == rhs + s.rhs
  IN  [elems |-> s.elems, rhs |-> r,
       lit |-> IF s.elems # <<>> THEN 0 ELSE IF r >= 0 THEN TrueLit ELSE -TrueLit]

WithComparison(b, c) ==
  IF c.lit # 0 THEN b ELSE AddLinear(WithLits(b, 1), b.last + 1, c.elems, c.rhs, TRUE)
LitOf(b, c) == IF c.lit # 0 THEN c.lit ELSE b.last + 1

(* The first rectangle must not start within the second one.               *)
Width(e) == e.co - 1
NotWithin(b, lit, i, j) ==
  LET above == Comparison(j.var, i.var, 0)
      below == Comparison(i.var, j.var, Width(j))
      mid   == WithComparison(b, above)
  IN  IF IsFalseLit(above.lit) \/ IsFalseLit(below.lit) THEN b
      ELSE WithClauses(WithComparison(mid, below),
                       {{-lit, -LitOf(b, above), -LitOf(mid, below)}})

AddDisjoint(b, lit, es) ==
  IF IsFalseLit(lit) THEN b
  ELSE IF Len(es) > 2
       THEN [b EXCEPT !.disjoints = @ \cup {[lit |-> lit, elems |-> es]}]
  ELSE IF Len(es) = 2
       THEN NotWithin(NotWithin(b, lit, es[1], es[2]), lit, es[2], es[1])
  ELSE b

-----------------------------------------------------------------------------
(* The handlers of `parse', one per kind of theory atom.                   *)

Parsed(a, b) == /\ parsed' = Append(parsed, a)
                /\ builder' = b
                /\ UNCHANGED <<program, rejected>>
Rejected(a) == /\ rejected' = TRUE
               /\ parsed' = Append(parsed, a)
               /\ UNCHANGED <<program, builder>>

\* The next atom, if it is of the given kind.
Candidates(kind) ==
  {program[i] : i \in {n \in DOMAIN program :
     ~rejected /\ n = Len(parsed) + 1 /\ program[n].kind = kind}}

ParseConstraint(a, nl) ==
  LET b == Normalized(builder, a.lit, Reduced(Simplify(Sorted(AtomElems(a)))), a.op, a.strict, nl)
  IN  IF b.bad THEN Rejected(a) ELSE Parsed(a, b)

ParseSum ==
  \E a \in Candidates("sum") :
    IF IsLinear(AtomElems(a)) THEN ParseConstraint(a, FALSE) ELSE Rejected(a)

ParseDiff ==
  \E a \in Candidates("diff") :
    IF IsDifference(a) THEN ParseConstraint(a, FALSE) ELSE Rejected(a)

ParseNonlinear == \E a \in Candidates("nsum") : ParseConstraint(a, TRUE)

ParseDistinct ==
  \E a \in Candidates("distinct") :
    Parsed(a, AddDistinct(builder, a.lit, [i \in DOMAIN a.terms |-> DistinctElem(a.terms[i])]))

HasExtent(e) == e.co > 0

ParseDisjoint ==
  \E a \in Candidates("disjoint") :
    Parsed(a, AddDisjoint(builder, a.lit, SelectSeq(a.rects, HasExtent)))

(* Ranges without elements are left out, and the guard is the variable.    *)
RangeOf(e) == LET r == e[2] + 1 IN IF e[1] < r THEN e[1]..(r - 1) ELSE {}
DomainOf(a) == UNION {RangeOf(a.ranges[i]) : i \in DOMAIN a.ranges}

ParseDom ==
  \E a \in Candidates("dom") :
    Parsed(a, IF IsFalseLit(a.lit) THEN builder
              ELSE [builder EXCEPT !.doms = @ \cup {[lit |-> a.lit, var |-> a.var, values |-> DomainOf(a)]}])

Init == program \in Programs /\ parsed = <<>> /\ builder = EmptyBuilder /\ rejected = FALSE

Next == ParseSum \/ ParseDiff \/ ParseNonlinear \/ ParseDistinct \/ ParseDisjoint \/ ParseDom

Spec == Init /\ [][Next]_vars

-----------------------------------------------------------------------------
(* What the atoms mean, from their terms, and what the builder's clauses   *)
(* and constraints admit.                                                  *)

Assignments == [Vars -> Values]
LitTruth(T, l) == IF l < 0 THEN ~T[-l] ELSE T[l]

RECURSIVE ValueOf(_, _)
ValueOf(t, s) ==
  CASE t[1] = "num" -> t[2]
    [] t[1] = "var" -> s[t[2]]
    [] t[1] = "+" -> ValueOf(t[2], s) + ValueOf(t[3], s)
    [] t[1] = "-" -> ValueOf(t[2], s) - ValueOf(t[3], s)
    [] t[1] = "neg" -> -ValueOf(t[2], s)
    [] t[1] = "*" -> ValueOf(t[2], s) * ValueOf(t[3], s)

Relates(op, l, r) ==
  CASE op = "<=" -> l <= r [] op = ">=" -> l >= r [] op = "<" -> l < r
    [] op = ">" -> l > r [] op = "=" -> l = r [] op = "!=" -> l # r

Meaning(a, s) ==
  LET TermSum(n, t) == n + ValueOf(t, s) IN
  CASE a.kind = "distinct" ->
         \A i, j \in DOMAIN a.terms : i < j => ValueOf(a.terms[i], s) # ValueOf(a.terms[j], s)
    [] a.kind = "disjoint" ->
         \A i, j \in DOMAIN a.rects : i < j =>
           \A n \in 0 .. a.rects[i].co - 1, m \in 0 .. a.rects[j].co - 1 :
             s[a.rects[i].var] + n # s[a.rects[j].var] + m
    [] a.kind = "dom" -> \E i \in DOMAIN a.ranges : a.ranges[i][1] <= s[a.var] /\ s[a.var] <= a.ranges[i][2]
    [] OTHER -> Relates(a.op, FoldLeft(TermSum, 0, a.terms), ValueOf(a.rhs, s))

AtomHolds(a, s, T) ==
  /\ LitTruth(T, a.lit) => Meaning(a, s)
  /\ a.strict => (Meaning(a, s) => LitTruth(T, a.lit))

BuilderHolds(b, s, T) ==
  /\ \A c \in b.clauses : \E l \in c : LitTruth(T, l)
  /\ \A c \in b.cons :
       LET holds == ElemsValue(c.elems, s) <= c.rhs
       IN  /\ LitTruth(T, c.lit) => holds
           /\ c.strict => (holds => LitTruth(T, c.lit))
  /\ \A d \in b.distincts : LitTruth(T, d.lit) =>
       \A i, j \in DOMAIN d.elems : i < j =>
         ElemsValue(d.elems[i].elems, s) + d.elems[i].fixed
           # ElemsValue(d.elems[j].elems, s) + d.elems[j].fixed
  /\ \A d \in b.disjoints : LitTruth(T, d.lit) =>
       \A i, j \in DOMAIN d.elems : i < j =>
         LET x == s[d.elems[i].var]
             y == s[d.elems[j].var]
         IN  x + d.elems[i].co <= y \/ y + d.elems[j].co <= x
  /\ \A d \in b.doms : LitTruth(T, d.lit) => s[d.var] \in d.values

(* Truth values of the literals of atoms, and their extensions to the      *)
(* literals the builder added.                                             *)
AtomTruths == {T \in [1 .. AtomLits -> BOOLEAN] : T[TrueLit]}
Extensions(s, T) ==
  {E \in [1 .. builder.last -> BOOLEAN] :
     (\A l \in 1 .. AtomLits : E[l] = T[l]) /\ BuilderHolds(builder, s, E)}

-----------------------------------------------------------------------------
(* The constraints and clauses built for the atoms admit an assignment     *)
(* exactly if the atoms do: splitting a relation, dividing by a common     *)
(* divisor, moving constants and adding literals loses no solution and     *)
(* adds none.                                                              *)
SolutionsPreserved ==
  ~rejected =>
    \A s \in Assignments, T \in AtomTruths :
      (\A i \in DOMAIN parsed : AtomHolds(parsed[i], s, T)) <=> Extensions(s, T) # {}

(* The literals the builder adds are determined by the assignment, so that *)
(* clasp does not enumerate an assignment twice.                           *)
SolutionsUnique ==
  ~rejected =>
    \A s \in Assignments, T \in AtomTruths : Cardinality(Extensions(s, T)) <= 1
=============================================================================
