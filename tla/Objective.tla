----------------------------- MODULE Objective -----------------------------
(***************************************************************************)
(* The objective over several solve steps and threads: the builder extends *)
(* the minimize constraint in every step, threads search for assignments   *)
(* within the best bound they have integrated, and a model found by one    *)
(* tightens the bound, an atomic of the propagator, for all.               *)
(*                                                                         *)
(* A thread stands for a Solver with its search: which assignments it      *)
(* finds is up to clasp, only the constraint with the bound seen[t] is     *)
(* clingcon's (module SolverState).  The domain of models to find is all   *)
(* of them, as in an optimization; objectives translated to clasp are left *)
(* out.                                                                    *)
(***************************************************************************)
EXTENDS Terms, FiniteSets

CONSTANTS SearchThreads,
          Vars,      \* the variables of the objective
          Programs,  \* sequences of the solve steps' [factor, elems, solutions]
          NoBound    \* no_bound, larger than any cost

(* The elements of objectives are linear (minimize_elems_ is a CoVarVec).  *)
LinearElems == [co : Int, vars : {<<>>} \cup {<<v>> : v \in Vars}]
Statements == [factor : Int, elems : Seq(LinearElems), solutions : SUBSET [Vars -> Int]]
ObjectiveAssumption ==
  SearchThreads # {} /\ NoBound \in Int /\ Programs \subseteq Seq(Statements)

None == [elems |-> << >>, adjust |-> NoBound]

VARIABLES program,    \* the member of Programs, never changed
          step,       \* the number of the solve step
          solutions,  \* the assignments that satisfy the program of the step
          con,        \* the minimize constraint: elements and adjust
          bound,      \* Propagator::minimize_bound_
          lock,       \* the holders of the model lock
          pc,         \* thread: where it is in its search
          cand,       \* thread: the last total assignment
          seen,       \* thread: Solver::minimize_bound_, a bound on the sum
          stated,     \* all objective elements of the program so far
          shown    \* the models of this step with the costs shown for them

objectiveVars == <<program, step, solutions, con, bound, lock, pc, cand, seen, stated, shown>>
shared == <<program, step, solutions, con, stated>>

-----------------------------------------------------------------------------
(* prepare_minimize: new elements are merged with those of the constraint  *)
(* of the previous step, whose adjust is added as a constant.              *)
OldElems_Bug(old) == << >>
OldElems_NoConstant(old) == IF old = None THEN <<>> ELSE old.elems
OldElems(old) == IF old = None THEN <<>> ELSE old.elems \o << Mono(old.adjust, <<>>) >>

PrepareMinimize(old, new) ==
  LET elems == new \o OldElems(old)
      s     == Simplify(elems)
  IN  IF elems = <<>> THEN None ELSE [elems |-> s.elems, adjust |-> s.rhs]

SumOf(s) == ElemsValue(con.elems, s)

(* get_minimize_value.                                                     *)
Cost_Bug(s) == SumOf(s) + con.adjust
Cost(s) == SumOf(s) - con.adjust

(* Costs stay below no_bound: simplify throws if the extreme values of the *)
(* sum do not fit.                                                         *)
CostsFit(c, sols) ==
  \A s \in sols : LET sum == ElemsValue(c.elems, s)
                  IN  sum < NoBound /\ sum - c.adjust < NoBound

(* Propagator::check integrates the shared bound into the solver.          *)
Integrated(t) ==
  IF bound = NoBound \/ bound + con.adjust >= seen[t] THEN seen[t]
  ELSE bound + con.adjust

Done == \A t \in SearchThreads : pc[t] = "done"

ObjectiveInit ==
  /\ program \in Programs
  /\ step = 0 /\ solutions = {} /\ con = None /\ bound = NoBound /\ lock = {}
  /\ pc = [t \in SearchThreads |-> "done"]
  /\ cand = [t \in SearchThreads |-> <<>>]
  /\ seen = [t \in SearchThreads |-> NoBound]
  /\ stated = <<>> /\ shown = <<>>

(* init: minimize and maximize statements extend the objective, and the    *)
(* bounds of the last step are reset.                                      *)
BeginStep ==
  /\ Done /\ step < Len(program)
  /\ LET p == program[step + 1]
         new == Scaled(p.elems, p.factor)
     IN  /\ con' = PrepareMinimize(con, new)
         /\ con' # None /\ CostsFit(con', p.solutions)
         /\ stated' = stated \o new
         /\ solutions' = p.solutions
  /\ step' = step + 1
  /\ bound' = NoBound
  /\ seen' = [t \in SearchThreads |-> NoBound]
  /\ pc' = [t \in SearchThreads |-> "search"]
  /\ cand' = [t \in SearchThreads |-> <<>>]
  /\ shown' = <<>>
  /\ UNCHANGED <<program, lock>>

(* A check of a partial assignment integrates a bound set by a model.      *)
Check(t) ==
  /\ pc[t] = "search"
  /\ Integrated(t) # seen[t]
  /\ seen' = [seen EXCEPT ![t] = Integrated(t)]
  /\ UNCHANGED <<shared, bound, lock, pc, cand, shown>>

FindTotal(t) ==
  /\ pc[t] = "search"
  /\ \E s \in solutions : SumOf(s) <= seen[t] /\ cand' = [cand EXCEPT ![t] = s]
  /\ pc' = [pc EXCEPT ![t] = "total"]
  /\ UNCHANGED <<shared, bound, lock, seen, shown>>

(* With mode Both, the check of a total assignment is subject to the lock  *)
(* for models; it finds the bound of a model shown in the meantime.     *)
MayLock_Bug == TRUE
MayLock == lock = {}
CheckTotal(t) ==
  /\ pc[t] = "total" /\ MayLock
  /\ seen' = [seen EXCEPT ![t] = Integrated(t)]
  /\ IF SumOf(cand[t]) <= Integrated(t)
     THEN lock' = lock \cup {t} /\ pc' = [pc EXCEPT ![t] = "model"]
     ELSE pc' = [pc EXCEPT ![t] = "search"] /\ UNCHANGED lock
  /\ UNCHANGED <<shared, bound, cand, shown>>

(* on_model shows the cost, and the next model has to improve it.          *)
NextBound_Same(cost) == cost
NextBound(cost) == cost - 1
OnModel(t) ==
  /\ pc[t] = "model"
  /\ LET cost == Cost(cand[t])
     IN  /\ shown' = << [cost |-> cost, at |-> cand[t]] >>
         /\ bound' = IF cost <= bound THEN NextBound(cost) ELSE bound
  /\ lock' = lock \ {t}
  /\ pc' = [pc EXCEPT ![t] = "search"]
  /\ UNCHANGED <<shared, cand, seen>>

(* A thread without an assignment left ends the search of all threads.     *)
Exhausted(t) ==
  /\ pc[t] = "search" /\ lock = {}
  /\ \A s \in solutions : SumOf(s) > seen[t]
  /\ pc' = [u \in SearchThreads |-> "done"]
  /\ UNCHANGED <<shared, bound, lock, cand, seen, shown>>

Thread(t) == Check(t) \/ FindTotal(t) \/ CheckTotal(t) \/ OnModel(t) \/ Exhausted(t)

ObjectiveNext == BeginStep \/ \E t \in SearchThreads : Thread(t)

(* Threads keep searching until one of them is done.                       *)
Fairness == \A t \in SearchThreads : WF_objectiveVars(Thread(t))

ObjectiveSpec == ObjectiveInit /\ [][ObjectiveNext]_objectiveVars /\ Fairness

-----------------------------------------------------------------------------
(* The constants that step k states: their value where variables are zero. *)
ConstantOf(k) == ElemsValue(Scaled(program[k].elems, program[k].factor), [v \in Vars |-> 0])

(* The constants stated an odd (1) or an even (0) number of steps before n. *)
ConstantsBefore(n, parity) ==
  Sum(n, [k \in 1 .. n |-> IF (n - k) % 2 = parity THEN ConstantOf(k) ELSE 0])

(* The cost shown for a model is the value of all objective elements of    *)
(* the program, up to the signs of constants: adjust is a constant with    *)
(* the sign changed, and carried over as it is, so every further step      *)
(* changes the sign of the constants before it.                            *)
CostIsObjective ==
  shown # <<>> =>
    shown[1].cost = ElemsValue(stated, shown[1].at) - 2 * ConstantsBefore(step, 1)

(* Models are shown with strictly better costs: a model that was found     *)
(* within an outdated bound is rejected by the check under the lock.       *)
ModelsImprove ==
  [][\A t \in SearchThreads : pc[t] = "model" /\ pc'[t] = "search" /\ shown # <<>>
                         => shown'[1].cost < shown[1].cost]_objectiveVars

(* When the search of a step ends, the last model shown is optimal.        *)
OptimumFound ==
  Done /\ solutions # {} =>
    /\ shown # <<>>
    /\ \A s \in solutions : ElemsValue(stated, shown[1].at) <= ElemsValue(stated, s)

(* The search of a step ends: models are not found over and over again.    *)
SearchEnds == (step > 0) ~> Done
=============================================================================
