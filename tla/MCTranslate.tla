----------------------------- MODULE MCTranslate -----------------------------
\* Translations: sums over two and three variables with small domains
\* (extended), or distinct constraints and objectives.
EXTENDS SumTranslate

VARIABLES task, stage, left, collected, weights, objective, given

taskVars == <<task, stage, left, collected, weights, objective, given>>

-----------------------------------------------------------------------------
(* Sums. Propagation has seen the constraint: it can still hold.           *)

Domains == {<<0, 0>>, <<0, 1>>, <<-1, 2>>, <<-2, 1>>}
Coefficients == {-3, -2, -1, 1, 2}

Instance(co, rhs, doms, fact) ==
  [co |-> co, rhs |-> rhs, lb |-> [v \in DOMAIN co |-> doms[v][1]],
   ub |-> [v \in DOMAIN co |-> doms[v][2]], fact |-> fact]

LowOf(c, d) == IF c > 0 THEN c * d[1] ELSE c * d[2]
CanHold2(co, rhs, ds) == LowOf(co[1], ds[1]) + LowOf(co[2], ds[2]) <= rhs
CanHold3(co, rhs, ds) == LowOf(co[1], ds[1]) + LowOf(co[2], ds[2]) + LowOf(co[3], ds[3]) <= rhs

TwoVars ==
  {Instance(co, rhs, ds, fact) : <<co, rhs, ds, fact>> \in
     {x \in ([1 .. 2 -> Coefficients] \X {-3, -1, 0, 2} \X [1 .. 2 -> Domains] \X BOOLEAN) :
        CanHold2(x[1], x[2], x[3])}}
ThreeVars ==
  {Instance(co, rhs, ds, fact) : <<co, rhs, ds, fact>> \in
     {x \in ([1 .. 3 -> {-2, 1, 2}] \X {-2, 0, 1} \X [1 .. 3 -> {<<0, 1>>, <<-1, 1>>}] \X {FALSE}) :
        CanHold3(x[1], x[2], x[3])}}
MCInstances == TwoVars \cup ThreeVars

-----------------------------------------------------------------------------
(* Distinct constraints with two or three of these elements over two       *)
(* variables: constants, single variables with factors and negated, sums.  *)

Element(co, fixed) == [co |-> co, fixed |-> fixed]
Elements == {Element(<<0, 0>>, 1), Element(<<1, 0>>, 0), Element(<<-2, 0>>, 3), Element(<<0, 3>>, -1),
             Element(<<1, 1>>, 0), Element(<<2, -1>>, 1)}
MoreElements == {Element(<<0, 0>>, 1), Element(<<1, 0>>, 0), Element(<<1, 1>>, 0), Element(<<2, -1>>, 1)}
Boxes == {[lb |-> <<0, 0>>, ub |-> <<2, 1>>], [lb |-> <<-1, 1>>, ub |-> <<1, 1>>]}

DistinctTask(box, elems, clit, max) ==
  [kind |-> "distinct", lb |-> box.lb, ub |-> box.ub, elems |-> elems, clit |-> clit, limit |-> max]
DistinctTasks ==
  {DistinctTask(b, e, c, 20) : b \in Boxes, e \in [1 .. 2 -> Elements], c \in {"true", "free", "false"}} \cup
  {DistinctTask(b, e, "free", 20) : b \in Boxes, e \in [1 .. 3 -> MoreElements]} \cup
  {DistinctTask(b, e, "free", 3) : b \in Boxes, e \in [1 .. 2 -> Elements]}

(* Objectives over three variables, one of which may be fixed.             *)
MinimizeTask(terms, adjust, max, always, lb, ub) ==
  [kind |-> "minimize", lb |-> lb, ub |-> ub, terms |-> terms, adjust |-> adjust,
   limit |-> max, always |-> always]
MinimizeTasks ==
  {MinimizeTask(t, a, n, f, <<-1, 0, 2>>, <<1, 3, 2>>) :
     t \in [1 .. 3 -> {-2, 0, 1}], a \in {-1, 0, 2}, n \in {0, 2, 4}, f \in BOOLEAN}

MCTasks == DistinctTasks \cup MinimizeTasks

\* A bound that some elements exceed: they are not translated.
MCMinVal == -4
MCMaxVal == 4

T == INSTANCE TermTranslate WITH pc <- stage, clauses <- collected,
       Tasks <- MCTasks, MinVal <- MCMinVal, MaxVal <- MCMaxVal

-----------------------------------------------------------------------------
NoTask == task = <<>> /\ stage = "none" /\ left = {} /\ collected = {}
          /\ weights = <<>> /\ objective = <<>> /\ given = <<>>
NoSum == inst = <<>> /\ limit = 0 /\ pc = "none" /\ todo = <<>> /\ estimate = 0
         /\ buffer = <<>> /\ clauses = {} /\ leaves = 0 /\ wlits = <<>>

TranslateInit == (Init /\ NoTask) \/ (T!Init /\ NoSum)
TranslateNext == \/ Next /\ UNCHANGED taskVars
                 \/ stage # "none" /\ T!Next /\ UNCHANGED vars
TranslateSpec == TranslateInit /\ [][TranslateNext]_<<vars, taskVars>>

-----------------------------------------------------------------------------
\* Clauses and weight constraints have the solutions of the constraint they
\* replace: sums, and distinct constraints with their auxiliary variables.
\* A translated objective has the same cost for every assignment.
TranslationsExact ==
  /\ stage = "none" => TranslationExact
  /\ pc = "none" => T!DistinctTranslated /\ T!CostTranslated

\* The search for clauses always finds a variable to branch on, and in the
\* end has added as many clauses as were estimated before.
SearchExact == stage = "none" => SearchGoesOn /\ EstimateExact

\* The option translate-opt as its documentation has it.
ObjectiveBelowLimit == pc = "none" => T!TranslatedBelowLimit
=============================================================================
