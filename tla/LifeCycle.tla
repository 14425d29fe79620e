------------------------------ MODULE LifeCycle ------------------------------
(***************************************************************************)
(* The life of constraints and their states over solve steps and threads:  *)
(* Propagator::init adds constraints to the first solver (the master),     *)
(* propagates them, translates some to clasp, and copies the states of the *)
(* others to the solvers of the other threads. Then every thread searches. *)
(* The next step starts from what the search and the translation left.     *)
(*                                                                         *)
(* Lists refer to states by pointers. A state is the record of its owner,  *)
(* its constraint and the step in which it was allocated, so that a        *)
(* pointer to a freed state or to one of another solver is told apart.     *)
(* Bounds and sums are the subject of SolverState; here a propagation      *)
(* fails or not and marks a constraint as inactive or not.                 *)
(***************************************************************************)
EXTENDS Integers, Sequences, FiniteSets

CONSTANTS
    MaxSteps, MaxThreads, MaxLevel,  \* bounds: solve steps, threads, decision levels
    MaxAdded,                        \* bound: constraints added per step
    MaxConstraints,                  \* bound: constraints apart from the objective
    MaxTodo,                         \* bound: todo items
    Word                             \* 2^64: statistics are counted modulo Word

ASSUME LifeCycleAssumption ==
    {MaxSteps, MaxThreads, Word} \subseteq Nat \ {0} /\ {MaxLevel, MaxAdded, MaxConstraints, MaxTodo} \subseteq Nat

None == 0

VARIABLES
    step, pc,
    constraints,         \* constraints_, in order
    kind,                \* the kinds of all constraints allocated so far
    minimize,            \* minimize_
    held,                \* the minimize constraint owned by the builder
    translateMinimize,   \* translate_minimize_ of the master
    idx, jdx,            \* the loop of translate
    solvers,             \* solvers_
    turn,                \* the solver that searches
    status,              \* of its search: "fresh", "checked" or "conflict"
    numStep, numAccu,    \* num_constraints of stats_step_ and stats_accu_
    posted, inClasp, inMinimize,  \* the steps whose objective was read, was given to clasp,
                                  \* and is in the minimize constraint
    seen                 \* the constraints each solver, or the master before, propagated

initVars  == <<constraints, kind, minimize, held, translateMinimize, idx, jdx>>
statVars  == <<numStep, numAccu>>
ghostVars == <<posted, inClasp, inMinimize>>
vars == <<step, pc, initVars, solvers, turn, status, statVars, ghostVars, seen>>

Elements(seq) == {seq[n] : n \in DOMAIN seq}
WithoutFirst(seq, x) ==
    LET n == CHOOSE k \in DOMAIN seq : seq[k] = x /\ \A j \in 1..(k - 1) : seq[j] # x IN
    SubSeq(seq, 1, n - 1) \o SubSeq(seq, n + 1, Len(seq))

-----------------------------------------------------------------------------
(* Solver and Level                                                        *)

State(t, c) == [thread |-> t, cons |-> c, since |-> step]

\* states: c2cs_, lits: lit2cs_, mark: the inactive levels, levels: the
\* offsets of the levels above 0.
NoStates == [states |-> {}, lits |-> {}, watches |-> {}, removed |-> <<>>,
             todo |-> <<>>, flagged |-> {}, inactive |-> <<>>, mark |-> <<>>, levels |-> <<>>]

LevelOf(s) == Len(s.levels)
Removable(c) == kind[c] # "minimize"

MarkTodo(s, st) ==
    IF s.mark[st] = 0 /\ st \notin s.flagged
    THEN [s EXCEPT !.todo = Append(@, st), !.flagged = @ \union {st}]
    ELSE s

\* add_constraint, for a constraint without a state.
WithState(s, st) ==
    MarkTodo([s EXCEPT !.states = @ \union {st}, !.lits = @ \union {st},
                       !.watches = @ \union {st},
                       !.mark = [x \in s.states \union {st} |-> IF x = st THEN 0 ELSE @[x]]], st)

Freed(s, gone) ==
    [s EXCEPT !.states = @ \ gone, !.lits = @ \ gone, !.watches = @ \ gone,
              !.flagged = @ \ gone, !.mark = [x \in s.states \ gone |-> @[x]]]

\* Solver::remove_constraint and Level::remove_constraint
WithoutState(s, st) ==
    Freed([s EXCEPT !.inactive = IF s.mark[st] > 0 THEN WithoutFirst(@, st) ELSE @,
                    !.todo = IF st \in s.flagged THEN WithoutFirst(@, st) ELSE @], {st})

\* std::remove_if: the entries that stay, in order.
Remaining(list, gone) ==
    LET kept[n \in 0..Len(list)] ==
            IF n = 0 THEN <<>>
            ELSE IF list[n] \in gone THEN kept[n - 1]
            ELSE Append(kept[n - 1], list[n])
    IN  kept[Len(list)]

\* Level::remove_constraints: the predicate that selects the states clears
\* the marks and flags of all states in the lists.
WithoutStates(s, gone) ==
    Freed([s EXCEPT !.inactive = Remaining(@, gone),
                    !.mark = [x \in s.states |-> IF x \in Elements(s.inactive) THEN 0 ELSE @[x]],
                    !.todo = Remaining(@, gone),
                    !.flagged = @ \ Elements(s.todo)], gone)

\* copy_state: the lists refer to the states of the copy.
Own(t, st) == [st EXCEPT !.thread = t, !.since = step]
OwnList_Bug(t, list) == list
OwnList(t, list) == [n \in DOMAIN list |-> Own(t, list[n])]
TodoOfCopy_Bug(t, list) == <<>>
TodoOfCopy(t, list) == OwnList(t, list)

CopyTo(t, s) ==
    LET OwnSet(S) == {Own(t, st) : st \in S}
        From(st) == CHOOSE x \in s.states : Own(t, x) = st IN
    [s EXCEPT !.states = OwnSet(@), !.lits = OwnSet(s.states), !.watches = OwnSet(@),
              !.removed = OwnList(t, @), !.inactive = OwnList(t, @), !.todo = TodoOfCopy(t, @),
              !.flagged = OwnSet(@), !.mark = [st \in OwnSet(s.states) |-> @[From(st)]]]

\* The states propagated by check if the n-th one fails or, for n one
\* greater than their number, none does.
Processed(s, n) == {s.todo[k] : k \in 1..n \intersect DOMAIN s.todo}

MarkInactive(s, st) ==
    [s EXCEPT !.inactive = Append(@, st), !.mark[st] = LevelOf(s) + 1]

\* check: all flags are cleared and the list as well; at most one of the
\* constraints that were processed is marked inactive.
CheckedStates(s, n) ==
    LET done == [s EXCEPT !.flagged = @ \ Elements(s.todo), !.todo = <<>>] IN
    {done} \union {MarkInactive(done, st) :
                     st \in {x \in Processed(s, n) : Removable(x.cons) /\ s.mark[x] = 0}}

\* update_constraints_ for one watch, if update returns true.
Updated(s, st) ==
    IF s.mark[st] > 0 /\ s.mark[st] <= LevelOf(s)
    THEN [s EXCEPT !.watches = @ \ {st}, !.removed = Append(@, st)]
    ELSE MarkTodo(s, st)

Pushed(s) == [s EXCEPT !.levels = Append(@, [inactive |-> Len(s.inactive), removed |-> Len(s.removed)])]

\* Level::undo: what the lists hold behind the offsets of the level is active
\* and watched again.
Behind(list, n) == {list[k] : k \in {j \in DOMAIN list : j > n}}
Offsets(s) == s.levels[Len(s.levels)]
WatchesAfterUndo(s) == s.watches \union Behind(s.removed, Offsets(s).removed)
FlagsAfterUndo(s) == s.flagged \ Elements(s.todo)

Undone(s) ==
    LET active == Behind(s.inactive, Offsets(s).inactive) IN
    [s EXCEPT !.levels = SubSeq(@, 1, Len(@) - 1),
              !.inactive = SubSeq(@, 1, Offsets(s).inactive),
              !.mark = [st \in s.states |-> IF st \in active THEN 0 ELSE @[st]],
              !.watches = WatchesAfterUndo(s),
              !.removed = SubSeq(@, 1, Offsets(s).removed),
              !.flagged = FlagsAfterUndo(s), !.todo = <<>>]

-----------------------------------------------------------------------------
(* Propagator::init                                                        *)

Init ==
    /\ step = 1 /\ pc = "init"
    /\ constraints = <<>> /\ kind = <<>>
    /\ minimize = None /\ held = None /\ translateMinimize = FALSE
    /\ idx = 1 /\ jdx = 1
    /\ solvers = <<NoStates>> /\ turn = 1 /\ status = "fresh"
    /\ numStep = 0 /\ numAccu = 0
    /\ posted = {} /\ inClasp = {} /\ inMinimize = {}
    /\ seen = <<{}>>

StateOf(t, c) == CHOOSE st \in solvers[t].states : st.cons = c

RemoveMinimize ==
    /\ pc = "init" /\ pc' = "parse"
    /\ IF minimize = None THEN UNCHANGED <<initVars, solvers, numStep>>
       ELSE /\ numStep' = (numStep - 1) % Word
            /\ solvers' = [t \in DOMAIN solvers |-> WithoutState(solvers[t], StateOf(t, minimize))]
            /\ constraints' = WithoutFirst(constraints, minimize)
            /\ held' = minimize /\ minimize' = None
            /\ UNCHANGED <<kind, translateMinimize, idx, jdx>>
    /\ UNCHANGED <<step, turn, status, numAccu, ghostVars, seen>>

Master(s) == [solvers EXCEPT ![1] = s]

\* Propagator::add_constraint for a new constraint of kind k.
Adds(k) ==
    LET c == Len(kind) + 1 IN
    /\ kind' = Append(kind, k)
    /\ constraints' = Append(constraints, c)
    /\ solvers' = Master(WithState(solvers[1], State(1, c)))
    /\ numStep' = (numStep + 1) % Word

AddedInStep == Cardinality({st \in solvers[1].states : st.since = step})

ParseConstraint ==
    /\ pc = "parse" /\ AddedInStep < MaxAdded /\ Len(constraints) < MaxConstraints
    /\ \E k \in {"sum", "distinct"} : Adds(k)
    /\ UNCHANGED <<step, pc, minimize, held, translateMinimize, idx, jdx, turn, status, numAccu,
                   ghostVars, seen>>

ParseObjective ==
    /\ pc = "parse" /\ step \notin posted
    /\ posted' = posted \union {step} /\ inMinimize' = inMinimize \union {step}
    /\ UNCHANGED <<step, pc, initVars, solvers, turn, status, statVars, inClasp, seen>>

ParseEnd ==
    /\ pc = "parse" /\ pc' = "simplify"
    /\ UNCHANGED <<step, initVars, solvers, turn, status, statVars, ghostVars, seen>>

\* Solver::simplify: the master propagates until nothing is left to do.
Simplify ==
    /\ pc = "simplify"
    /\ \/ /\ \E st \in solvers[1].watches : solvers' = Master(Updated(solvers[1], st))
          /\ UNCHANGED <<pc, seen>>
       \/ /\ solvers[1].todo # <<>>
          /\ \E n \in 1..(Len(solvers[1].todo) + 1) :
               /\ \E s \in CheckedStates(solvers[1], n) : solvers' = Master(s)
               /\ seen' = [seen EXCEPT ![1] = @ \union {st.cons : st \in Processed(solvers[1], n)}]
               /\ pc' = IF n \in DOMAIN solvers[1].todo THEN "unsat" ELSE pc
       \/ /\ solvers[1].todo = <<>>
          /\ pc' = "minimize"
          /\ UNCHANGED <<solvers, seen>>
    /\ UNCHANGED <<step, initVars, turn, status, statVars, ghostVars>>

\* prepare_minimize and add_minimize_: a new constraint with the old terms.
AddMinimize ==
    /\ pc = "minimize" /\ pc' = "translate"
    /\ IF inMinimize = {} THEN UNCHANGED <<constraints, kind, minimize, solvers, numStep>>
       ELSE Adds("minimize") /\ minimize' = Len(kind) + 1
    /\ held' = None /\ idx' = 1 /\ jdx' = 1
    /\ UNCHANGED <<step, translateMinimize, turn, status, numAccu, ghostVars, seen>>

\* One iteration of Solver::translate. A constraint is kept, or translated
\* and removed; distinct constraints add two sums per auxiliary variable,
\* whose states are created when it is their turn.
Swapped(seq, m, n) == [seq EXCEPT ![m] = seq[n], ![n] = seq[m]]

Keep ==
    /\ constraints' = Swapped(constraints, idx, jdx)
    /\ jdx' = jdx + 1
    /\ UNCHANGED <<kind, translateMinimize, inClasp, inMinimize>>

MustTranslate_Bug == FALSE
MustTranslate == translateMinimize

Give ==
    /\ jdx' = jdx
    /\ IF kind[constraints[idx]] = "minimize"
       THEN /\ translateMinimize' = TRUE
            /\ inClasp' = inClasp \union inMinimize /\ inMinimize' = {}
            /\ UNCHANGED <<kind, constraints>>
       ELSE /\ \E n \in IF kind[constraints[idx]] = "distinct" THEN {0, 2} ELSE {0} :
                 /\ Len(SelectSeq(constraints, Removable)) + n - 1 <= MaxConstraints
                 /\ kind' = kind \o [k \in 1..n |-> "sum"]
                 /\ constraints' = constraints \o [k \in 1..n |-> Len(kind) + k]
            /\ UNCHANGED <<translateMinimize, inClasp, inMinimize>>

HasState(c) == \E st \in solvers[1].states : st.cons = c
CountAdded == IF HasState(constraints[idx]) THEN 0 ELSE 1

TranslateItem ==
    /\ pc = "translate" /\ idx <= Len(constraints)
    /\ LET c == constraints[idx] IN
       /\ solvers' = IF HasState(c) THEN solvers ELSE Master(WithState(solvers[1], State(1, c)))
       /\ \/ /\ kind[c] = "minimize" => ~MustTranslate
             /\ Keep
             /\ numStep' = (numStep + CountAdded) % Word
          \/ /\ Give
             /\ numStep' = (numStep + CountAdded - 1) % Word
    /\ idx' = idx + 1
    /\ UNCHANGED <<step, pc, minimize, held, turn, status, numAccu, posted, seen>>

\* The constraints behind jdx are removed; an objective that was translated
\* is not a constraint any more.
TranslateEnd ==
    /\ pc = "translate" /\ idx > Len(constraints)
    /\ LET gone == {constraints[n] : n \in jdx..Len(constraints)} IN
       /\ constraints' = SubSeq(constraints, 1, jdx - 1)
       /\ solvers' = IF gone = {} THEN solvers
                     ELSE Master(WithoutStates(solvers[1], {st \in solvers[1].states : st.cons \in gone}))
    /\ minimize' = IF translateMinimize THEN None ELSE minimize
    /\ pc' \in {"threads", "unsat"}
    /\ UNCHANGED <<step, kind, held, translateMinimize, idx, jdx, turn, status, statVars, ghostVars, seen>>

Threads ==
    /\ pc = "threads" /\ pc' = "search"
    /\ \E n \in 1..MaxThreads :
         /\ solvers' = [t \in 1..n |-> IF t = 1 THEN solvers[1] ELSE CopyTo(t, solvers[1])]
         /\ seen' = [t \in 1..n |-> seen[1]]
    /\ turn' = 1 /\ status' = "fresh"
    /\ UNCHANGED <<step, initVars, statVars, ghostVars>>

-----------------------------------------------------------------------------
(* Search. The solvers share nothing modelled here, so that they search    *)
(* one after the other.                                                    *)

Current == solvers[turn]
SearchVars == <<step, initVars, statVars, ghostVars, turn>>

\* A bound changes, the literal of a constraint becomes true, or the bound
\* of the objective is read.
Notice ==
    /\ pc = "search" /\ status # "conflict" /\ Len(Current.todo) < MaxTodo
    /\ \/ \E st \in Current.watches : solvers' = [solvers EXCEPT ![turn] = Updated(@, st)]
       \/ \E st \in Current.lits : solvers' = [solvers EXCEPT ![turn] = MarkTodo(@, st)]
    /\ UNCHANGED <<SearchVars, pc, status, seen>>

Check ==
    /\ pc = "search" /\ status # "conflict"
    /\ \E n \in 1..(Len(Current.todo) + 1) :
         /\ \E s \in CheckedStates(Current, n) : solvers' = [solvers EXCEPT ![turn] = s]
         /\ seen' = [seen EXCEPT ![turn] = @ \union {st.cons : st \in Processed(Current, n)}]
         /\ IF n \in DOMAIN Current.todo
            THEN /\ status' = "conflict"
                 /\ pc' = IF LevelOf(Current) = 0 THEN "unsat" ELSE pc
            ELSE status' = "checked" /\ UNCHANGED pc
    /\ UNCHANGED SearchVars

\* clasp decides when propagation is at a fixpoint.
Decide ==
    /\ pc = "search" /\ status = "checked" /\ Current.todo = <<>>
    /\ LevelOf(Current) < MaxLevel
    /\ solvers' = [solvers EXCEPT ![turn] = Pushed(@)]
    /\ UNCHANGED <<SearchVars, pc, status, seen>>

Undo ==
    /\ pc = "search" /\ LevelOf(Current) > 0
    /\ solvers' = [solvers EXCEPT ![turn] = Undone(@)]
    /\ status' = "checked"
    /\ UNCHANGED <<SearchVars, pc, seen>>

\* A solver stops on level 0 at any time after its first check.
Stop ==
    /\ pc = "search" /\ status = "checked" /\ LevelOf(Current) = 0

NextThread ==
    /\ Stop /\ turn < Len(solvers)
    /\ turn' = turn + 1 /\ status' = "fresh"
    /\ UNCHANGED <<step, pc, initVars, solvers, statVars, ghostVars, seen>>

\* on_statistics ends the step.
NextStep ==
    /\ Stop /\ turn = Len(solvers) /\ step < MaxSteps
    /\ numAccu' = (numAccu + numStep) % Word /\ numStep' = 0
    /\ step' = step + 1 /\ pc' = "init"
    /\ UNCHANGED <<initVars, solvers, turn, status, ghostVars, seen>>

Next ==
    \/ RemoveMinimize \/ ParseConstraint \/ ParseObjective \/ ParseEnd \/ Simplify
    \/ AddMinimize \/ TranslateItem \/ TranslateEnd \/ Threads
    \/ Notice \/ Check \/ Decide \/ Undo \/ NextThread \/ NextStep

Spec == Init /\ [][Next]_vars

-----------------------------------------------------------------------------
Listed(s) == Elements(s.todo) \union Elements(s.inactive) \union Elements(s.removed)
                              \union s.lits \union s.watches

\* No list refers to a state that was freed or belongs to another solver.
\* (Lists of other threads are replaced before they are used again.)
NoDanglingStates ==
    \A t \in DOMAIN solvers :
        t = 1 \/ pc = "search" => Listed(solvers[t]) \subseteq solvers[t].states

\* Nothing silences a constraint for good: one that is flagged is in the todo
\* list, and one marked inactive is in the part of the inactive list of its
\* level. (The converse does not hold, since removing translated constraints
\* clears flags and marks of states that stay in the lists.)
MarksAreListed ==
    \A t \in DOMAIN solvers :
      LET s == solvers[t] IN
      (t = 1 \/ pc = "search") =>
        /\ s.flagged \subseteq Elements(s.todo)
        /\ \A st \in s.states : s.mark[st] > 0 =>
             \E n \in DOMAIN s.inactive :
               /\ s.inactive[n] = st
               /\ s.mark[st] = 1 + Cardinality({l \in DOMAIN s.levels : s.levels[l].inactive < n})

\* Between solve steps, the statistics count the constraints that are left
\* (modulo the word size: the number of one step may be negative).
ConstraintsCounted ==
    pc = "search" => (numAccu + numStep) % Word = Len(constraints) % Word

\* In the search every solver has one state for each constraint, which hears
\* of its literal, and of its variables unless it was inactive on a lower
\* level. The lists and the statistics refer to these only, in particular
\* after the objective was removed from the lists of all solvers, translated
\* constraints from those of the master, and states were copied.
StatesMatchConstraints ==
    /\ NoDanglingStates
    /\ MarksAreListed
    /\ ConstraintsCounted
    /\ pc = "search" => \A t \in DOMAIN solvers :
         LET s == solvers[t] IN
         /\ {st.cons : st \in s.states} = Elements(constraints)
         /\ Cardinality(s.states) = Cardinality(Elements(constraints))
         /\ s.lits = s.states
         /\ s.watches = s.states \ Elements(s.removed)
         /\ \A st \in Elements(s.removed) : s.mark[st] \in 1..LevelOf(s)

\* Before a solver decides, it has propagated every constraint, or the master
\* had before the states were copied; also those added by the translation,
\* which the master does not propagate.
EveryConstraintPropagated ==
    pc = "search" => \A t \in DOMAIN solvers :
      solvers[t].levels # <<>> => Elements(constraints) \subseteq seen[t]

\* The objective is minimized by clasp or by clingcon, never one part by each
\* of them; no part gets lost when it is extended in later steps.
ObjectiveUndivided ==
    pc = "search" =>
        /\ inClasp = {} \/ inMinimize = {}
        /\ inClasp \union inMinimize = posted
        /\ minimize # None <=> inMinimize # {}
        /\ minimize # None => minimize \in Elements(constraints)
=============================================================================
