------------------------------ MODULE MCParsing ------------------------------
\* Three parts of parsing.cc, one of which is chosen by the first state: the
\* arithmetic of terms with small integers (extended), the normalisation of
\* atoms over two variables, and the rewriting of rules before grounding.
EXTENDS TermArithmetic

CONSTANTS AtomPrograms,  \* the programs to normalise
          Parts          \* the parts to choose from

VARIABLES part

MCNumbers == {-8, -3, -1, 0, 1, 2, 3, 7}

-----------------------------------------------------------------------------
(* Programs for Normalize.                                                 *)

VARIABLES program, parsed, builder, rejected

MCValues == -2 .. 2

N == INSTANCE Normalize WITH Vars <- {1, 2}, Values <- MCValues, Programs <- AtomPrograms, AtomLits <- 2

Num(n) == <<"num", n>>
Var(v) == <<"var", v>>
Plus(l, r) == <<"+", l, r>>
Minus(l, r) == <<"-", l, r>>
Neg(t) == <<"neg", t>>
Times(l, r) == <<"*", l, r>>

X == Var(1)
Y == Var(2)

Ops == {"<=", ">=", "<", ">", "=", "!="}
LitsOfAtoms == {1, -1, 2, -2}

Relation(kind, terms, op, right, lit, strict) ==
  [kind |-> kind, terms |-> terms, op |-> op, rhs |-> right, lit |-> lit, strict |-> strict]
Relations(kind, Ts, Os, Rs, Ls, Ss) ==
  {Relation(kind, t, op, r, l, st) : t \in Ts, op \in Os, r \in Rs, l \in Ls, st \in Ss}
Distinct(ts, l) == [kind |-> "distinct", terms |-> ts, lit |-> l, strict |-> FALSE]
Rect(w, v) == [co |-> w, var |-> v]
Disjoint(rs, l) == [kind |-> "disjoint", rects |-> rs, lit |-> l, strict |-> FALSE]

(* Sums: repeated and cancelling variables, constants on either side,      *)
(* common divisors, products with constants, and an illegal product.       *)
SumTerms ==
  { << X >>, << Neg(X) >>, << X, Y >>, << Times(Num(2), X) >>,
    << Plus(X, Num(1)), X >>, << Minus(X, X) >>,
    << Minus(X, Plus(Y, Num(1))) >>,
    << Times(Plus(X, Num(1)), Num(2)), Times(Num(-4), Y) >>, << Times(X, Y) >> }
SumAtoms == Relations("sum", SumTerms, Ops, {Num(0), Num(-1), Num(2), Y}, LitsOfAtoms, BOOLEAN)

DiffAtoms ==
  Relations("diff", { << Minus(X, Y) >>, << Minus(X, Num(1)) >>, << X >> }, Ops,
            {Num(0), Num(1)}, LitsOfAtoms, BOOLEAN)

(* Products: only relations of a single product that imply it or sums with *)
(* a linear term after it.                                                 *)
ProductTerms == { << Times(X, Y), X >>, << Times(Plus(X, Num(1)), Y) >>,
                  << Times(X, X), Neg(Y) >>, << Times(Times(X, Y), X) >> }
NonlinearAtoms ==
  Relations("nsum", ProductTerms, Ops, {Num(0), Num(1)}, {1, 2}, BOOLEAN)
    \cup Relations("nsum", { << Times(X, Y) >> }, Ops, {Num(0), Num(1)}, {1, 2}, {FALSE})
    \cup Relations("nsum", { << X >>, << Minus(X, X) >> }, Ops, {Num(0), Num(1)}, {1, 2}, BOOLEAN)

DistinctAtoms ==
  {Distinct(ts, l) : l \in LitsOfAtoms,
     ts \in { << X >>, << X, Y >>, << X, Plus(X, Num(1)) >>, << X, X >>, << X, Num(1) >>,
              << Times(Num(2), X), Plus(Y, Num(1)) >>, << Num(1), Num(1) >>,
              << Num(0), Num(1) >>, << X, Y, Num(0) >>, << Plus(X, Y), X, Minus(Y, X) >> }}
DisjointAtoms ==
  {Disjoint(rs, l) : l \in LitsOfAtoms,
     rs \in { << Rect(1, 1), Rect(1, 2) >>, << Rect(2, 1), Rect(1, 2) >>,
              << Rect(2, 1), Rect(2, 2) >>, << Rect(1, 1), Rect(2, 1) >>,
              << Rect(0, 1), Rect(1, 1) >>, << Rect(-1, 2), Rect(2, 1), Rect(3, 2) >>,
              << Rect(1, 1), Rect(2, 2), Rect(1, 2) >> }}

DomAtoms ==
  {[kind |-> "dom", ranges |-> rs, var |-> 1, lit |-> l, strict |-> FALSE] : l \in LitsOfAtoms,
     rs \in { << >>, << <<0, 1>> >>, << <<1, 0>> >>, << <<-2, -1>>, <<1, 1>> >>, << <<-1, 1>>, <<2, 0>>, <<0, 2>> >> }}

OneAtom == SumAtoms \cup DiffAtoms \cup NonlinearAtoms \cup DistinctAtoms \cup DisjointAtoms \cup DomAtoms

(* A few atoms that need literals of their own, to be parsed together.     *)
PairAtoms ==
  Relations("sum", { << X >>, << X, Y >> }, {"=", "!=", "<"}, {Num(1)}, {2, -2}, BOOLEAN)
    \cup {Distinct(<< X, Y >>, 2), Distinct(<< X, Plus(Y, Num(1)) >>, 1),
          Disjoint(<< Rect(1, 1), Rect(2, 2) >>, -2)}

(* Products without a linear term in rule bodies.                          *)
StrictAtoms == Relations("nsum", { << Times(X, Y) >> }, {"<=", "="}, {Num(1)}, {2}, {TRUE})

MCPrograms == {<< a >> : a \in OneAtom} \cup {<< a, b >> : a, b \in PairAtoms}
StrictPrograms == {<< a >> : a \in StrictAtoms}


-----------------------------------------------------------------------------
(* Statements for Rewrite. The anonymous variable is 9.                    *)

VARIABLES statement, rule, place, pos, in_literal

TermVar(v) == <<"var", v>>
Element(term, cond) == [terms |-> <<term>>, cond |-> cond]
XOnly == <<TermVar(1)>>
XAndY == <<TermVar(1), TermVar(2)>>
TheoryAtom(term, op, elems) ==
  [type |-> "theory", term |-> term, op |-> op, elems |-> elems, tag |-> ""]
Literal(sign, atom) == [type |-> "literal", sign |-> sign, atom |-> atom]
Bool(b) == [type |-> "bool", value |-> b]
Plain == [type |-> "atom"]
Conditional == [type |-> "conditional"]
Signs == {"none", "not", "notnot"}

(* Elements with repeated, missing and anonymous variables, and a tuple    *)
(* that is an error.                                                       *)
SomeElements ==
  { <<>>, <<Element(XOnly, {1, 2})>>, <<Element(XOnly, {1, 9})>>, <<Element(XAndY, {1, 2})>>,
    <<Element(XOnly, {1}), Element(XOnly, {1, 2, 9})>>,
    <<Element(XOnly, {1, 2}), Element(<< <<"num", 1>> >>, {})>> }
Broken == [terms |-> <<XOnly, XOnly>>, cond |-> {1}]

BodyAtoms ==
  {TheoryAtom("sum", op, es) : op \in Ops, es \in SomeElements}
    \cup {TheoryAtom("nsum", "<", es) : es \in SomeElements}
    \cup {TheoryAtom("diff", "none", <<>>), TheoryAtom("diff", "<", <<Broken>>),
          TheoryAtom("diff", "<=", <<Element(XOnly, {1, 2})>>)}
Heads ==
  {Literal("none", Plain), Literal("none", Bool(FALSE)), Literal("notnot", Bool(FALSE)),
   Literal("not", Bool(FALSE)), Literal("not", Bool(TRUE)), Literal("none", Bool(TRUE)),
   TheoryAtom("sum", "<", <<Element(XOnly, {1, 2})>>), TheoryAtom("sum", "<", <<Broken>>),
   TheoryAtom("distinct", "none", <<Element(XOnly, {1, 2})>>)}
Bodies ==
  {<<>>} \cup {<<Literal(sg, a)>> : sg \in Signs, a \in BodyAtoms}
    \cup {<<Literal(sg, Plain), Literal("none", a)>> : sg \in Signs, a \in BodyAtoms}
    \cup {<<Conditional, Literal(sg, a), Literal("none", TheoryAtom("sum", "=", <<Element(XOnly, {1})>>))>> :
            sg \in Signs, a \in BodyAtoms}
MCStatements ==
  {[type |-> "rule", head |-> h, body |-> b] : h \in Heads, b \in Bodies}
    \cup {[type |-> "weak constraint", head |-> Literal("none", Bool(FALSE)), body |-> b] : b \in Bodies}

R == INSTANCE Rewrite WITH Statements <- MCStatements, Anonymous <- 9, pc <- place

-----------------------------------------------------------------------------
(* Parts that are not chosen stay in one of their initial states.          *)

normalizeVars == <<program, parsed, builder, rejected>>
rewriteVars == <<statement, rule, place, pos, in_literal>>

ParsingInit ==
  /\ part \in Parts
  /\ IF part = "arithmetic" THEN ArithmeticInit
     ELSE /\ pc = "evaluate" /\ len = 0 /\ acc = 0 /\ exact = 0
          /\ kept = <<>> /\ rhs = 0 /\ min = 0 /\ max = 0 /\ checked = 0
  /\ IF part = "normalize" THEN N!Init
     ELSE program = <<>> /\ parsed = <<>> /\ builder = N!EmptyBuilder /\ rejected = TRUE
  /\ IF part = "rewrite" THEN R!Init
     ELSE statement = <<>> /\ rule = <<>> /\ place = "rejected" /\ pos = 1 /\ in_literal = FALSE

ParsingNext ==
  \/ part = "arithmetic" /\ ArithmeticNext /\ UNCHANGED <<part, normalizeVars, rewriteVars>>
  \/ part = "normalize" /\ N!Next /\ UNCHANGED <<part, arithmeticVars, rewriteVars>>
  \/ part = "rewrite" /\ R!Next /\ UNCHANGED <<part, arithmeticVars, normalizeVars>>

ParsingSpec == ParsingInit /\ [][ParsingNext]_<<part, arithmeticVars, normalizeVars, rewriteVars>>

-----------------------------------------------------------------------------
\* The constraints built for atoms have their solutions.
SolutionsPreserved == N!SolutionsPreserved

\* Literals that the builder adds are determined by the values of the variables.
SolutionsUnique == N!SolutionsUnique

\* Rewritten rules rule out the same assignments.
MeaningPreserved == R!MeaningPreserved
=============================================================================
