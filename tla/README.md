# clingcon in TLA+

clingcon extends the answer set solver clingo with constraints over integers.
It is a propagator inside clasp: clasp searches over literals and calls
clingcon whenever an order literal (`x <= k`) or the literal of a constraint
becomes true, when unit propagation is done, when levels are undone and when an
assignment is total. This directory models the propagator in `src/libclingcon`
as it is in this repository. clasp itself is the environment of the models.

## 1. Inventory

| part | state it keeps | operations | what makes it right |
|---|---|---|---|
| `Solver`: bounds and queue (`solver.cc`, `solver.hh`) | bounds and bound stacks of variables, frames (`Level`), `ldiff_`/`udiff_`, watches, `todo_` with flags, inactive marks, objective bound and level | `propagate`, `check`, `undo`, `check_full`, `update_minimize`, `mark_todo`, `mark_inactive` | backtracking takes back exactly what a level changed; no constraint that matters is left unpropagated |
| `Solver`: order literals | map from values to literals and back with neighbours, facts not integrated yet | `get_literal`, `update_literal`, `add_simple`, `add_dom`, `simplify`, `update_domain_`, `update_bounds`, `update`, `decide` | maps, neighbours, bounds and clasp's assignment agree |
| sum and minimize constraints (`constraints.cc`) | lower and upper sum, inactive level | `attach`, `update`, `undo`, `propagate`, `check_full`, `translate` | sums belong to the bounds; what is enforced follows; translations keep the solutions |
| distinct constraints | cached element bounds, dirty elements, todo lists | same interface | caches survive undo; clauses follow; equal values are detected |
| nonlinear constraints | inactive level | same interface | rounding, corners of products, inactive marks |
| disjoint constraints | bounds at the last visit, `force_update_` | same interface | Hall intervals are sound and none is missed by skipping |
| parsing and builder (`parsing.cc`, `propagator.cc`) | constraints under construction | `parse`, `simplify`, `normalize_constraint`, `ConstraintBuilder::add_*` | constraints have the solutions of the atoms |
| rewriting of programs (`parsing.cc`) | the rule being rewritten | `shift_rule`, `TheoryRewriter` | rules keep their meaning, summands are not lost |
| `Propagator` (`propagator.cc`) | one `Solver` per thread, the constraints, the shared objective bound, variables | `init`, `check`, `on_model`, `update_minimize` | models improve, the optimum is found, each thread has the states of the constraints |
| life cycle of constraints (`Solver`, `Propagator::init`) | lists of states of master and other threads | `add_constraint`, `translate`, `remove_constraints`, `copy_state`, `update` | no list keeps a state that is gone, no constraint is skipped |
| clause creators (`base.hh`) | buffered clauses, weight constraints, objective | `InitClauseCreator::commit`, `ControlClauseCreator` | what is committed means the constraint |
| utilities (`util.hh`, `base.hh`) | interval sets | `IntervalSet`, `floordiv`, `ceildiv`, `safe_add` and its like | sets stay canonical, nothing overflows |
| C/C++ interface (`clingcon.cc`) | deferred options, configurations and statistics per thread, an iteration | `clingcon_configure`, `clingcon_register`, `clingcon_on_statistics`, `clingcon_assignment_*` | options reach their threads, statistics add up |
| Python interface, application | - | forward options and callbacks | not modelled |

**Interaction.** clasp calls `Propagator`, which forwards to the `Solver` of the
thread. `propagate` changes bounds and gathers the differences; `check` passes
them to the constraint states (`update`), which ask to be put into the todo
list, and then calls `propagate` of each listed state; these add clauses
through a `ControlClauseCreator`, which lets clasp propagate and may fail.
`undo` restores bounds and tells the states (`undo`). Threads share only the
objective bound.

**What is hard.** The order of clasp's callbacks is not clingcon's to choose:
levels are undone on which `propagate` or `check` was never called, a check is
cut short by a failing clause in the middle of the todo list, literals become
true in any order, other threads move the objective at any time. State of one
level must not leak into another. The list `hazards` in `PROJECT.json` names
each of these places with the properties that cover it.

## 2. Modules

| module | models | proofs |
|---|---|---|
| `SolverState` | `Solver` during search with its sum and minimize constraints | `SolverState_proofs` |
| `BoundTrail` | abstract: one pair of bounds per decision level; `SolverState` refines it | `SolverState_proofs` |
| `Sums` | weighted sums, `floordiv`, `ceildiv`, truncating division | `Sums_proofs` |
| `ConstraintHost` | the calls one constraint state gets from its solver, shared by the next three | `ConstraintTypes_proofs` |
| `Distinct`, `Nonlinear`, `Disjoint` | the other constraint types: each conjoins its own state with the actions of `ConstraintHost` | `ConstraintTypes_proofs` |
| `ConstraintTypes` | a solver with a constraint of any of these types, and the properties they share | `ConstraintTypes_proofs` |
| `OrderLiterals` | order literals of one variable, simplification, steps, heuristic | `OrderLiterals_proofs`, `OrderSolutions_proofs` |
| `LifeCycle` | the lists of constraints and states over solve steps and threads | `LifeCycle_proofs` |
| `SumTranslate` | translation of a sum to clauses or a weight constraint | |
| `TermTranslate` | translation of distinct constraints and objectives, with the clause creator | |
| `CheckedArith`, `TermArithmetic` | checked arithmetic; terms and sums over integers of a fixed width | `Support_proofs` |
| `Terms`, `Normalize` | theory terms to sums, and relations to constraints, literals and clauses | |
| `Rewrite` | shifting and rewriting of rules before grounding | |
| `Objective` | objective over solve steps and threads | `Objective_proofs` |
| `IntervalSet` | `IntervalSet`, with one action per iteration of the loop of `add` | `Support_proofs` |
| `TheoryInterface` | options, registration, statistics and iteration of the C interface | `Support_proofs` |
| `ThreadConfig` | abstract: a value per thread and option; `TheoryInterface` refines it | `Support_proofs` |

`MC*` modules give the constants of the instances. `ConstraintTypes` is one
system whose constraint is of the type in its `start`, so that one run and one
theorem can speak of all three types. Some `MC` modules hold several
independent parts and choose one in the first state: `MCParsing` arithmetic,
normalisation and rewriting, `MCTranslate` the two translations, `MCSupport`
interval sets, objectives and the interface. Their properties then speak of each part they apply to, under
the name they have in the modules or a common one.

Definitions carry the names of the source where they can; the map in
`PROJECT.json` names the lines of each. An operator with a suffix such as
`_Bug` is a plausible mistake in the operator after it, used by no definition;
it shows that a property notices.

### SolverState

State: `lower`/`upper` with their stacks (`VarState`); `levels`, where each
frame owns its segments of the undo, inactive and removed lists (in the code:
offsets into shared vectors); `ldiff`, `udiff` with their lists; `watches`;
`csLower`, `csUpper`, `inactiveLevel` of the constraint states; `todo` and the
flags `marked`; `minBound`, `minLevel`, `best` for the objective.

| action | code |
|---|---|
| `PropagateLiteral`, `PropagateCons` | `Solver::propagate` for one literal: `push_level_`, `update_lower_`/`update_upper_`, `Level::update_*`, `mark_todo` |
| `CheckStart` | `Propagator::check` and `Solver::check` up to the todo list: integrate the objective bound, return early, `update_constraints_` |
| `CheckItem` | one state of the todo list: `SumConstraintStateImpl::propagate` with its clauses |
| `CheckEnd` | the list is done |
| `Undo` | clasp goes back one level, `Solver::undo` if it has a frame |
| `OnModel`, `OtherThread` | `on_model` here and in another thread |
| `Decide`, `UnitPropagate` | clasp |

Abstractions: order literals are values (their maps are `OrderLiterals`); a
clause is its unit literal, checked by `ConsequencesEntailed` to follow from
the constraint within the bounds, so how `calculate_reason_` weakens reasons is
left out; `add_clause` may fail above level 0 although the clause is not in
conflict, because clasp backjumps or runs into other clauses.

### ConstraintHost and the constraint types

The host is what a state sees of the bookkeeping proved about in `SolverState`:
a trail of bounds, what it was told last (`flushed`), its literal, inactive
mark and todo flag. A call of `propagate` yields a set of clauses; `AddClauses`
and `ClauseFails` decide what clasp makes of them. Clauses are given to clasp
as learnt clauses, so the model lets clasp forget them when a level is undone,
and conflicts and undo may come between any two calls.

`start` is what the constraint is and what it is attached to: its type, the
bounds of the variables, the truth of its literal, and what else the type needs.
`NumVars` is the number of variables for all types, indices of intervals are
variables too. `Distinct` keeps the three lists and the rule that only elements
not listed themselves are compared. `Nonlinear` keeps nothing between calls. `Disjoint`
models both runs of the algorithm for every sorting of equal ends, with
`Inserted`, `HallReason` and `Leave` over positions, and the predicted bounds that
remain when a clause fails. After the run for left ends the recorded bounds are
current, so the run for right ends only happens with `force_update_`.
`translate` of nonlinear and disjoint constraints does nothing in the code.

### OrderLiterals

One variable with `Lo..Hi`. `program` holds what is added before a step and the
bounds of the exploration; it never changes. Actions: `add_simple`, `add_dom`,
`update_bounds` before `simplify`; `simplify` with facts integrated by
`update_domain_`; `propagate`, `check`, literals introduced by constraints for
their clauses (`Tighten`, `Introduce`, `IntroduceReason`), `decide`, `undo`,
and `update` between steps, after which clasp reuses the atoms. Atoms are
numbers as in clasp, a new one is one more than those there are, and
`program.atoms` bounds them. Loops that change the map (`DomSteps`,
`RemoveLocals`, `IntegrateFacts`) are functions from the number of iterations to
what has become of the map.

### LifeCycle

Pointers to states are what can go wrong here, so a state is a record of its
owner, its constraint and the step it was allocated in. Each step runs `init`
(`RemoveMinimize`, `ParseConstraint`, `ParseObjective`), `simplify` of the
master, `AddMinimize`, one `TranslateItem` per iteration of the loop in
`Solver::translate`, `TranslateEnd` with `remove_constraints`, and `Threads`
with `copy_state`. Then each solver searches (`Notice`, `Check`, `Decide`,
`Undo`) until it is back on level 0, and `NextStep` ends the step with
`on_statistics`. A propagation is only a choice between failing, marking a
constraint inactive and doing nothing: bounds and sums are the subject of
`SolverState`. The threads search one after the other, as they share nothing
here. A thread finishes a check before the step ends: clasp propagates the top
level of every solver before it searches.

### Normalize, Rewrite, TermArithmetic and Objective

`Normalize` parses one atom per step through `simplify`, division by the gcd,
`normalize_constraint` and the builder; its properties compare the result with
the meaning of the atoms by enumerating assignments. `Rewrite` takes rules
through `shift_rule` and `TheoryRewriter`; meaning is that of the rules for
every assignment. `TermArithmetic` evaluates terms operator by operator with
the guards of `CheckedArith` and keeps the exact value beside it; a sum is read,
simplified and passed through `check_valid`. The loop of `simplify` is a function
of the number of rounds (`Visit`, in `Terms`), so that it can be proved about;
for linear sums it does not sort, `Normalize` sorts the variables of products
before. `Objective` keeps
`prepare_minimize` over solve steps, the model lock, the bound shared by
threads and what each thread has integrated. Which of clasp and the propagator
minimizes is in `LifeCycle`, the translation in `TermTranslate`.

### IntervalSet, SumTranslate and TermTranslate

`IntervalSet` keeps the `std::map` as a set of pairs and the iterator of the
merging loop as a cursor. `SumTranslate` models the estimate, the search with
its explicit stack and the single clause buffer shared by all branches, and the
weight constraint. `TermTranslate` has a fresh literal per element and value,
the weight constraints over them, and the buffers of `InitClauseCreator`, whose
`commit` may fail in between. The limit on the number of clauses of all
constraints together, the mode that only uses existing literals, and the value
range of weight constraints are left out.

### TheoryInterface

One or more theories in a process, each with the options collected from the
command line, the configurations and statistics of its solvers, which grow with
the threads, and an iteration over the assignment. The static variable with
the callbacks for clingo is shared by the theories. `counted` and `visited`
record what happened, for the properties.

## 3. Runs

All runs set `CHECK_DEADLOCK FALSE`: the systems do stop (unsatisfiable, no
literal left to decide within the bounds, parsing or translation done).

| run | instance and bounds | what it shows |
|---|---|---|
| `sat` | fact `x-2y<=1` and `-x+y<=-1` with a literal, x in 0..3, y in 0..1, 3 levels | bookkeeping of bounds, sums, watches and lists; clauses follow; refinement of `BoundTrail` |
| `min` | objective `x-y`, a constraint with a literal, bounds from other threads, 2 levels | the bound is never lost by backtracking; unsat means no better solution; propagation ends |
| `constraint_types` | intervals of lengths 2, 1, 1 in four positions, as a fact and with a free literal, 2 levels; `2xy+3z<=1`, `2xx+3z<=4` with negative values, 2 levels; elements x, 2-y, x+y+z-1 with x in 0..2, y in 0..1 and z = 0, or x = y = 1 and z in -1..1, so that two elements are equal from the start, 2 levels | clauses follow (`ClausesEntailed`); models satisfy the constraint (`FullCheckSucceeds`, except for elements equal from the start); caches and inactive marks are right; nothing is missed (`BoundsSupported`) |
| `order` | one variable 0..3, four programs (shared literals; two levels with MaxChain; facts, domains and foreign bounds; two steps) | maps agree, literals and bounds follow each other (`BoundsMatchLiterals`), decisions are free, solutions respect what was added |
| `life_cycle` | two steps, one or two threads, two levels, one constraint added per step and two in all, at most two todo items, counters modulo 8 | lists have exactly the states of the constraints (`StatesMatchConstraints`), every constraint is propagated, the objective has one owner |
| `parsing` | words of four and five bits, three variables, four operators or elements; 3125 programs of single atoms of all kinds and pairs that need new literals, values -2..2; rules with theory atoms in head and body | evaluation is exact, accepted sums never overflow; solutions are preserved, once each; rewriting keeps the meaning |
| `translate` | all sums of two variables with coefficients -3..2, of three with smaller ones; distinct constraints of two or three elements; objectives with fixed variables; around the limits | solutions and costs (`TranslationsExact`), estimate and search for clauses (`SearchExact`) |
| `support` | eight interval ends in any sequence; two threads, one step with constants, two without, or three with constants in each; one theory, two threads, three calls, three variables | contents and queries; costs, strict improvement, optimum, end of search; refinement of `ThreadConfig`, statistics, iteration |
| `nonlinear_ceil`, `normalize_strict`, `translate_never`, `second_theory` | | disagreements, section 6 |

Why the bounds are enough: a level that is undone, one below it that is kept
and one that is redone need two levels; removing a watch on another level than
the one of the inactive mark and undoing both needs three (`sat`). Two
variables with coefficients of both signs reach all four rounding cases. Hall
intervals need a set of two and one that leaves; blocks of equal ends need
three intervals. Three values between the bounds give an order literal with two
neighbours that can both go away. Translation needs depth three for a buffer
position shared by two branches. What a step leaves behind meets the next one,
so two steps are needed for the life cycle; two constraints let a translated
one be removed beside one that is kept, and a distinct constraint be replaced
by new sums. Words of four bits have all boundary cases of the checked
operations, in a second word one bit wider as sums are wider than values.

`Normalize` takes sums with a single product before at most one linear term,
and single products only as implications: what the code does with others is in
section 6. `Nonlinear` takes positive coefficients of `z` for the same reason.
`BoundsMatchLiterals` leaves out free literals beyond the bounds of level 0, and
`DecisionIsFree` choices of clasp for such values (stale neighbours, section 6);
full checks and Hall intervals of `Disjoint` are stated for constraints that are
facts. `ConflictDetected` excepts pairs of elements with equal constant values at
attach (`AttachedEqual`), and `CostIsObjective` says how signs of constants change;
both cases are in the instances. `Objective` leaves out sums that reach `no_bound`
(`CostsFit`, `simplify` throws). `LifeCycle` marks at most one constraint as
inactive in a check, and at the start of a step `OrderLiterals` delivers all true
literals again, as clasp may.

**Fairness.** `FairSpec` of `SolverState` gives weak fairness to delivering
literals, to the start of `check`, to the items of the todo list and its end:
clasp's propagation loop calls these without anything in between until there
is a fixpoint or a conflict. Nothing is assumed of decisions, undo, models and
other threads. `Objective` gives weak fairness to each thread: its search goes
on until it finds an assignment or knows that there is none.

## 4. Proofs

Checked by TLAPS for all constants that satisfy the named assumptions
(any number of variables, levels and constraints, any coefficients).

**SolverState** (`SolverState_proofs`). `TypeCorrect`, `UndoFindsItsBounds`
(`FramesMatchStacks`), `TodoListExact`, `PendingListExact` follow from
`Invariance`: `Spec => []IInv`. `FramesMatchStacks` is not inductive alone.
Popping a bound stack only gives the bound of the frame if the entries of a
stack and the frames that list the variable correspond one to one in order
(`StacksOK`, lemmas like `StackSave` and `StackPop` about appending and removing a
frame with a stack entry). `PendingListed` needs to know that changes only
tighten, so that a sum of differences is zero only if there was none, and that
pending changes belong to the top frame (`PendingOnTop`), so that undo clears
all of them. `IInv` conjoins these with the types and with the flags of the todo
list. There is one lemma per action (`PropagateLiteralInv`, `CheckStartInv`,
`CheckItemInv`, `UndoInv`, ...), on lemmas for the parts actions share.
Assumptions: those of `SolverState` on its constants.

**IntervalSet** (`Support_proofs`). `StaysCanonical` and `StandsForAdded`
follow from `IntervalInvariance`. Between calls the set is canonical, but
in the middle of `add` it is so only together with the cursor: the invariant
keeps that all intervals before the cursor end before the new one, and that the
values of the map and of the interval being merged are those added so far.
`QueriesAreExact` is `QueriesExact`: both queries look only at the last interval
that starts at or before (before the end of) their argument and answer for the
whole set. That is right because such an interval exists if any does, which needs
the finiteness of the map (`LastExists`), and the intervals before it end before
it (`LastReaches`).

**Sums** (`Sums_proofs`): the recursive function of `Sums` exists and sums are
additive, the fact behind updating sums by differences; they are monotone, and
exchanging one term of a smaller sum keeps it below a larger one (`SumOneTerm`);
`floordiv` of a positive by a negative number rounds away from zero.

**Refinement** (`SolverState_proofs`). `BoundsImplementTrail` is the
refinement of `BoundTrail`, `ImplementsTrail`. The stacks are shared by all
levels and have entries only where a bound changed, while the trail keeps a copy
per level. The bound a variable had on a level is the value of the first entry
saved above it (`At`), or the current bound if there is none. The lemmas
`AtSave`, `AtRestore` and `AtUpdate` say what pushing and popping an entry does
to it; undo needs `StackLast`, that the entry popped belongs to the frame.

**Sums of the constraints** (`SolverState_proofs`). `SumsAreOfBounds` is
`SumsMatchBounds`: a constraint that is not inactive has the sums of the bounds it
was told. It is not inductive: an inactive constraint loses its watches and is no
longer told about bounds, and has to be right again when undo makes it active.
`SInv` adds to `IInv` where a mark is kept (`MarksInv`), that a missing watch was
removed by a frame above the level of the mark (`WatchesInv`), that a frame has
reported nothing for a variable an inactive constraint still watches, and that
what a frame reported has the sign of tightening (`GainsInv`), and the sums of
inactive constraints too: those of the bounds of the level they became inactive
on (`SumsInv`), read off the stacks with `At` of the refinement. `Grows` collects
what all steps share that tighten bounds without reporting; `FlushSums` and
`UndoSums` are the two steps where sums change. They rest on `SumAdd`.

**Fixpoints** (last part of `SolverState_proofs`). `InactiveIsJustified`,
`FixpointsHaveNoViolation` and `FullChecksPass` follow from
`FixpointInvariance`. None of them is inductive: undo makes constraints active
again and drops the todo list without looking at any constraint, so what holds
on a level must be known of every level below it. `FInv` adds to `SInv` that
bounds get tighter from level to level (`BoundsInv`, from the refinement of the
trail), that every level below the current one was left at a fixpoint
(`LevelsInv`: a constraint has a literal that was false there, or its lower sum
over the bounds of that level is within its right side), that a mark has a
reason on the level it belongs to (`InactiveInv`; right after a conflict it need
not, but then its level is undone next), that active constraints outside the
todo list hold (`CurrentInv`), and for the objective, that its bound is known
from the level on on which it was integrated (`Since`, `BoundInv`). Undo then
finds what it needs in `LevelsInv` for the level it returns to, because the sums
are again those of its bounds (`SumsExactAfter`). Where the level of the topmost
frame is lower than the decision level nothing but the minimize constraint is to
be propagated (`TodoInv`), hence nothing is marked on a level without a frame.

`PropagationIsSound` is `ConsequencesEntailed`: the sums a constraint keeps
enclose those of the current bounds also while it is inactive or changes are
pending (`SumsEnclose`), so the slack is no smaller than the room a variable has
(`RoomOfVariable`), and `FloorOfNegative` gives the rounding. `UnsatIsCorrect`
adds the solutions that beat the best bound to the invariant: they are within the
bounds of the top level and satisfy the literals queued there (`SolutionsInv`),
and only facts are true there (`FactsInv`).

**LifeCycle** (`LifeCycle_proofs`). `StatesAlwaysMatch`
(`StatesMatchConstraints`), `AllPropagated` (`EveryConstraintPropagated`) and
`ObjectiveStaysWhole` (`ObjectiveUndivided`) follow from `LifeCycleInvariance`, for
any number of threads, levels, steps and constraints and any modulus of the
counters. The properties speak of a solver between calls; what makes them
inductive is what a solver knows in the middle of a search. The argument has two
layers. `WellFormed` says of one solver that its lists refer to its own states
(`Refers`), that the offsets of the levels grow (`OffsetsOrdered`), that a marked
state is in the part of the inactive list that belongs to the level of its mark
(`MarkedListed`), that behind the offset of a level there is nothing but what was
marked there, once (`BehindMarked`, `BehindUnique`), and that a watch is only
missing while the constraint is marked since a level below the one on which the
watch was removed (`RemovedMarked`). Each operation of `Solver` and `Level` (adding, copying,
marking, undoing, removing states) keeps it, in a lemma of its own; the hard ones
are `undo`, which cuts both lists and renews the flags, and removing the states of
translated constraints from all lists at once, where the recursive function
`Remaining` must keep the order and the offsets must follow. `IInv` then adds the
set-up around the solvers: which constraints have a state in which phase
(`ExactInv`, `StatesInv`), what is waiting in the todo list or was propagated
(`ListInv`, `SeenInv`), how far the loop of `translate` has come (`TranslateInv`),
what the statistics have counted (`CountInv`) and who has the objective
(`ObjectiveInv`). TLC checked `IInv` on the instance of `life_cycle` before it was
proved.

**OrderLiterals** (`OrderLiterals_proofs`). `MapsAlwaysConsistent`
(`MapsConsistent`), `BoundsAlwaysMatch` (`BoundsMatchLiterals`) and
`DecisionsAreFree` (`DecisionIsFree`) follow from `OrderInvariance`, for any range
of values, any number of atoms, and any constraints, domains and bounds of other
threads that satisfy `ProgramsAssumption`. None of the three is inductive. A
step adds a literal, gives it a value or takes it away, and the neighbours
clingcon follows are those stored when the literal was added, so the stored links
must be known to be the links of the map in every state. `MapOk` says this of a
map of which some facts are integrated already: entries and values belong to each
other, each entry has the literals of the values next to its own
(`EntriesLinked`), and the facts listed are those in the map (`FactsListed`). The
lemma behind all changes is `RelinkIs`: `Relink` changes the links of the
two entries next to a value and no others; from it follow `AddOrderLitOk`,
`AddFactOk`, `UnsetFactOk`, `SimplifiedAsOk` and the removal of literals between
steps. The three loops are treated by an argument about the first iteration that
goes wrong (`CountUp`).

The bounds need more. Undo restores the bounds of a level and drops the
queue, while literals that were added since on a higher level stay in the map. So
the invariant speaks of every level above 0 (`LevelsOk`): its bounds come from
literals that are true or false on it (`BoundsIn`), a literal that is true or
false on it is within its bounds, or on the top level still in the queue
(`LevelsIn`), and beyond a true or false literal there are only such
literals, unless one between them is still in the queue (`ClosedIn`). The last
part is what makes following the neighbours enough: propagation stops at the
first neighbour that has its value, and what is beyond has been or will be done.
A literal added late has to fit in there (`Fitting`, `LevelsInsert`);
`FreeFits`, `FalseFits` and `TrueFits` show that a free literal between
the bounds fits, and that one which is true or false at once, introduced for a
weaker reason, does because the literal next to it was assigned on the current
level (the condition in `calculate_reason_`).
`LevelsDequeue`, `LevelsPush` and `LevelsPop` are the steps of propagation,
decision and undo. On level 0 facts do not go through the queue, so there only
`TopInv` is known, that a literal of the map with a value has still to be
simplified; with `TrailInv`, `AssignInv` and `PhaseInv` (the phases of a step, the
assignment, no facts above level 0) this is `IInv`. TLC checked it on the instance
of `order` before it was proved.

**Solutions of order literals** (`OrderSolutions_proofs`). `AddedAlwaysHold`
(`AddedHold`) says that what was passed to `add_simple` and `add_dom` holds at every
solution. It spans the whole life of a clause: the call writes it with literals that
stand for values at that time, and at a solution, possibly steps later, these
literals may be gone from the map, the clause may have become a unit or been
dropped as satisfied, and the bounds may have moved. So the invariant does not
speak of the map but of what a constraint relies on, the `World`: a literal stands
for `x <= v` (`Means`) if the map says so, or if it is decided for good and so is
`x <= v`, by a fact in the map or by the bounds of level 0; a clause is
`Enforced` if one of its literals is true for good or in a unit, or a clause of clasp
is part of it. `KeptInv` says that every added constraint still has such
clauses. Each operation that adds one establishes this (`AddSimpleAdds`,
`AddDomAdds`, through the clause creator, the reuse of a literal and the chain of
clauses of a domain), and no step loses it: `Onward` relates the worlds before and
after, is transitive, and is shown for every action. What matters in it is that
`simplify` replaces a literal by a fact only when clasp has decided it on
level 0, that integrating a fact drops the literals behind it only when the bounds
decide them (`Taken`), and that between steps only literals of atoms are removed that
came after the last static one, which no clause has (`RemoveLocalsLits`).
`ClosedInv` adds that static clauses are propagated when `check` ends. At a solution
`BoundsMatchLiterals` and the clauses then give the constraint. The theorem
assumes `KindsApart`: no record is a constraint and a domain at once, and domains
are not empty (section 6); `MCOrderLiterals` lets TLC check that the instance
satisfies it. TLC checked the invariant on the instance of `order` before it was
proved.

**Arithmetic** (`Support_proofs`). For words of
any width, the guards of the checked operations hold exactly if the result
fits; for `safe_mul` (`MulExact`) this is a statement on quotients of the limits
of the word. `EvaluationIsExact` follows. For `AcceptedSumsNeverOverflow` the
invariant relates the bounds `check_valid` accumulates to the greatest absolute
value a sum can reach (`ReachGrows`), which bounds every partial sum
(`PartialWithin`), whatever the variables are.

**The solver's side of a constraint** (`ConstraintTypes_proofs`). Whatever the
type, bounds get tighter with the levels and leave a value (`TrailOK`), and what
the constraint was told lies between the bounds of the level below and the
current ones (`FlushOK`); with the types of the state this is `HostInv`. The
three types below rest on it.

**Nonlinear and distinct constraints** (`ConstraintTypes_proofs`).
`ClausesFollow` (`ClausesEntailed`), `InactiveMarksJustified`, `CachesRight`
(`CachesConsistent`), `BoundsAreSupported` (`BoundsSupported`) and
`FullCheckNeverFails` (`FullCheckSucceeds`) hold for constraints of all three
types, for any numbers of variables and elements, bounds and coefficients;
`TypesInvariance` is their inductive invariant. The extremes of a product over
bounds are at corners, so clauses with the reasons of the corners follow. A
fixpoint after undo has supported bounds although nothing was propagated on the
way back, because each level was left with supported bounds: the invariant says
so of all levels of the trail, as it does for inactive marks. For
distinct constraints it relates the cached bounds to those the constraint was
told of, except for the elements in the lists, and says that elements assigned
in the bounds of a level left behind differ (`ApartOK`). Elements with the same
constant value when the constraint is attached are never compared by the code
(section 6), so `ConflictDetected` excepts these pairs (`AttachedEqual`) and no
others, in constraints that contain such a pair too. One assumption is not those of the modules:
`NoCeiling`, of `ClausesFollow`: coefficients of the linear term are not negative,
since the run `nonlinear_ceil` is a counterexample otherwise.

**Disjoint constraints: clauses follow** (part of `ClausesFollow`). Disjoint
intervals within a range are together no longer than the range (`Packing`), by
induction over positions. What `Inserted` adds up for a position is at most the
lengths of the intervals of its partition that begin there or later
(`FilledBound`), so an overfull range has more length than room (`HallFits`), and
an interval in a full range has to leave it (`HallLeaves`). Any order of equal
ends will do, and so will anything that is remembered.

**Disjoint constraints: nothing is missed** (part of `BoundsAreSupported` and
`FullCheckNeverFails`, for constraints that are facts). The converse is harder:
the search for overfull positions returns early, partitions are skipped, and an
interval may begin in a range filled by intervals of several partitions.
If no clause was conflicting, what was added up in a visited partition is exact
(`FilledExact`), so its intervals fit (`LiveBlock`, `BlockFits`), and so do
intervals of several partitions, since one begins after those before it end
(`PositionsFit`). An interval in a full range (`Violated`) then is in one filled
within its own partition: those of earlier partitions end before it begins and
those of later ones begin after it ends (`RangeRaises`), and the last position of
that range has a clause for it (`BlockRaises`, `Raises`). Partitions that are
skipped have the bounds remembered, so for these it must be known what the last
visit left behind. That is `FactInv`: nothing was overfull in the bounds
remembered, and an interval in a full range there has moved in the bounds the
constraint was told, or has been moved by a literal that is pending or passed on
already (`Recorded`). The latter may be lost by undo; then the bounds
told must be different from those of the level below (`Settled`), so that `undo`
is called for one of them and forces an update. On level 0, where nothing is
undone, and above it, where a fact is propagated only after a change, this is
the case; for a free literal it is not, which is the lost request for an update of
section 6. Levels left behind have no interval in a full range at all
(`Clean`), so there is nothing to do when they are returned to. TLC
checked `FactInv` on small instances before it was proved.

**TheoryInterface** (`Support_proofs`). `StatisticsCorrect`: lists of
different lengths are added element by element, so the invariant gives each list
a value for every thread (`ValueAt`) and accumulation is shown to add them.
`IterationComplete`: the variables visited are those with a name behind the
index, in order (`VisitedBehind`).
`OptionsAsPromised` is the refinement of `ThreadConfig`
(`ImplementsThreadConfig`), for any theories, targets, values and number of
threads; the values before options are given must be a value for each target
(`InterfaceAssumption`). The invariant (`OptionsInv`) says that only finitely many
options are collected, each for a target and a thread or all of them. `ConfigOf`
is what a thread has or will have once it is started: extending a list changes
it for no thread (`ExtendedConfig`), and the two functions that set a value
change it for exactly the threads meant (`SetForAll`, `SetForThread`). A round of
`clingcon_validate_options` is a fold, and two folds that make the same steps agree
on finite sets (`SameFold`, by the number of options); so its result is given by
a definition without an order (`FirstRound`, `SecondRound`), where the length of the
list is what the last thread with an option needs (`Reached`). Together
(`DeferredApplied`) this is the precedence promised.

**Objective** (`Objective_proofs`). `OptimaAreFound` (`OptimumFound`),
`ShownModelsImprove` (`ModelsImprove`) and `CostsAreObjectives`
(`CostIsObjective`) follow from `ObjectiveInvariance`, for any threads and
variables, any linear statements over any number of steps, and any solutions
(`ObjectiveAssumption`). The data part follows the loop of `simplify` round by
round: the value of the combined elements less the right hand side is the value
of the elements read (`VisitValue`, `SimplifyValue`), which needs that no
variable occurs twice among the combined ones (`Once`); functions by recursion
over the rounds exist by `IterationExists`, and induction up to a number is about
a set of numbers (`UpTo`), not about a formula. So the sum is the objective stated
so far up to a constant (`UpToConstants`), which is all optimality needs: it is
proved with constants in any step. The cost shown is followed exactly
(`CostsExact`): `adjust` is what the constants of all steps are worth with
alternating signs (section 6), so the cost is the objective less twice the
constants stated an odd number of steps before, and the step that begins turns
odd distances into even ones (`ConstantsShift`). The value of a sum without
constants is zero where all variables are (`ValueAtZero`), which is how `adjust`
is known. The search part (`SearchInv`): the
shared bound is one below the cost of the model shown (`BoundOfShown`), no thread
is ahead of it (`BoundsFollow`), and a model that passed the check improves it
until it is shown, because only the holder of the lock moves the bound
(`LockHeld`). A thread without an assignment left has a bound that is not below
the shared one, so nothing is left for any thread (`EndsTogether`). TLC checked
`SearchInv` and `CostsExact` on the instance of `support` before they were proved,
and evaluates the assumption on every run of `MCSupport`.

Only model-checked:

- everything temporal (`PropagationTerminates`, `SearchEnds`: liveness and ENABLED
  are beyond TLAPS);
- `Normalize`, `Rewrite`, `SumTranslate` and `TermTranslate`: what they compute is
  defined by recursion over terms and search trees, and to show it right for all
  inputs needs induction over data.

## 5. Not modelled

- Reasons: how `calculate_reason_` weakens them is abstracted to the clause
  being entailed. The choice between variables by the heuristic, and
  statistics of the search.
- Overflow outside of parsing: bounds and sums of accepted constraints fit
  (`AcceptedSumsFit`), and the other models use integers; products of nonlinear
  constraints use the third party wide integers.
- The composition of `LifeCycle` with `SolverState`: `remove_constraints` clears
  the flags and inactive marks of kept constraints too (`solver.cc:204-219`).
  `LifeCycle` has this and shows that no constraint is silenced by it.
- Reading of `&show` signatures and of names of variables, the conversion of
  details of the AST, `midpoint`, `UniqueVector`, callbacks that only forward.
- The application and the Python module: they hand options and callbacks on to
  the C interface and keep no state of their own.

## 6. Disagreements met

Four are kept as runs: `nonlinear_ceil` (`ceildiv` rounds away from zero for
operands of different signs, `util.hh:91`), `normalize_strict` (a strict
product without a linear term gets both directions for the same literal,
`propagator.cc:86`), `translate_never` (one literal per variable too few is
counted for an objective, so that the limit 0 does not mean never,
`constraints.cc:737`) and `second_theory` (the static callbacks of the first
theory are used for later ones, `clingcon.cc:350`). The others showed up when
the modules were first checked; each can be seen with the instance given.

- **Upper bounds keep a violating value (`constraints.cc:215`).** For positive coefficients `propagate` skips the order literal if the first violating value equals the upper bound (`value_r >= upper_bound`), so that this value stays possible at a fixpoint; the comment at `constraints.cc:140-143` says that "order values are then propagated in such a way that the slack is non-negative", and for negative coefficients the test is strict. Only propagation is weaker. Instance: `sat` with two levels, and the invariant that no variable alone can still violate a constraint that must hold.
- **Elements assigned from the start (`constraints.cc:817`).** Only `update` puts elements of a distinct constraint in the lists. Two elements with equal constant values are never compared, although the comment at `constraints.cc:1132-1133` says "it guarantees conflict detection". Instance: `constraint_types`, and `ConflictDetected` without the exception for `AttachedEqual`; `check_full` would throw.
- **Direction of changes (`constraints.cc:1226`).** `mark_todo_` chooses the list by the sign of the coefficient alone: an element whose upper bound decreased is put where only its lower bound is compared, so that the examples at `constraints.cc:1137-1140` are not propagated in every order. Instance: `Distinct` over x and y; y = 1, then x <= 1.
- **The literal of nonlinear constraints (`constraints.cc:1455`).** `propagate` neither tests the literal of the constraint nor adds its negation to clauses, and `Solver::check` calls it whenever the literal is not false. Clauses of a constraint that may not hold are enforced, although constraints are implications (`tests/parsing.cc:315`). Instance: `Nonlinear` with `2xx+3z<=4`: a clause that is no tautology is added while the literal is free.
- **Lost request for an update (`constraints.cc:1838`).** `propagate` of a disjoint constraint resets `force_update_` first, and only `undo`, called for changed bounds of its variables, sets it again. If a clause fails on a level that changed none of them (the literal of the constraint became true there), recorded bounds are stale, and overlapping intervals can survive to a total assignment, where `check_full` throws. Needs a literal that is not a fact, and clasp to forget the clause of the earlier conflict. Instance: `Disjoint`, start `Open`, and `FactsFullCheck` for every true literal.
- **Stale neighbour of a fact (`solver.cc:808`).** A fact remembers its neighbour at the time it was added; a literal added in between before `check` is passed over and stays free although the bounds decide it. MaxChain then finds no literal, against the assertion at `solver.cc:922`. Instance: facts `x<=2`, `x<=0`, then `x<=1 <-> a`, and `DecisionIsFree` without its exception for values outside the bounds of level 0. Solutions stay correct.
- **Empty domains (`solver.cc:1038`).** The loops of `add_dom` run over intervals; an empty domain (`&dom { 3..1 } = x`) adds no clause. Instance: `OrderLiterals` with an empty domain and `AddedHold`.
- **Order of nonlinear terms (`parsing.cc:481`).** The test for a second product looks at the coefficient of the linear term: `&nsum { z; x*y } <= 5` is rejected, and of `&nsum { x*y; y*z } <= 5` one product is lost, although the message says "nonlinear sums can have at most one nonlinear term". Instance: `Normalize` with these atoms.
- **Constants of objectives (`propagator.cc:255`).** `adjust` is the negated constant, but `prepare_minimize` adds it back unchanged, so the constant changes its sign in every further step, against "copy values of old minimize constraint" (`propagator.cc:250`). Instance: `support` (`ThreeSteps`), where `CostIsObjective` fails without the constants it subtracts. Optimal assignments are the same (`OptimaAreFound`); the cost shown is off by twice the constants stated an odd number of steps before.
- **Smaller remarks.** The comment at `solver.cc:647-648` (propagation during `simplify` "will not introduce any order literals other than true or false") does not hold for nonlinear constraints, which call `get_literal`; harmless. After `remove_constraints` the todo list can contain a constraint twice, as flags of listed constraints are cleared; this costs one propagation. The counter of constraints of one step can become negative (it is unsigned) when more are removed than added; accumulated values are right again (`ConstraintsCounted`). `clingcon_assignment_next` stops at indices without a value too, against "Move to the next index that has a value" (`clingcon.h:155`); users ask for the value, and no variable is missed (`AssignmentComplete`). The estimate of clauses takes intervals as half open. `safe_pow` rejects 0 as a base. `clingcon_configure` does not compare `min-int` with `max-int`, which only happens in `validate_options`.

## 7. Plan

Done: the search state with its proofs and refinement, the other constraint
types and order literals, the way from atoms to constraints and back to clasp,
the life cycle over steps and threads, arithmetic and the C interface with
their proofs. Left:

1. proofs: the safety of `SolverState`, `LifeCycle`, `OrderLiterals`, `IntervalSet`,
   `Objective` and the constraint types is proved; the normalisation of atoms over
   the lemmas about `simplify` is next;
2. the composition of `LifeCycle` with `SolverState`, and of several variables
   of `OrderLiterals` with the heuristic's choice between them;
3. abstract specifications: an optimizer for `Objective`, a solution set for
   the translation that both clauses and weights implement.
