---------------------------- MODULE SolverState -----------------------------
(***************************************************************************)
(* The propagation state of one clingcon Solver: bounds with their per     *)
(* level stacks (VarState), the stack of frames (Solver::Level), the       *)
(* pending bound changes (ldiff_/udiff_), the watches, the sums kept by    *)
(* every linear constraint, the inactive marks and the todo list, driven   *)
(* by the calls clasp makes: propagate, check, undo and (through the       *)
(* objective) update_minimize.                                             *)
(*                                                                         *)
(* clasp itself is the environment: it decides, delivers the order         *)
(* literals that became true (in any order), may assign further literals   *)
(* by unit propagation at almost any time, may run into a conflict, and    *)
(* may undo levels between two callbacks.                                  *)
(*                                                                         *)
(* An operator named ..._Bug is the one after it with a plausible mistake. *)
(* No definition uses it: the mutants of PROJECT.json put it in the place  *)
(* of the correct one to show that a property notices.                     *)
(***************************************************************************)
EXTENDS Integers, Sequences, FiniteSets, Sums

CONSTANTS
    NumVars,     \* the variables are 1..NumVars
    Cons,        \* the constraints
    Coef,        \* Coef[c][v]: coefficient of v in c, 0 if v is not in c
    Rhs,         \* Rhs[c]: right-hand side of a sum constraint
    Minimize,    \* the minimize constraint, or a value outside Cons
    Facts,       \* the constraints whose literal is true from the start
    InitLower,   \* InitLower[v], InitUpper[v]: bounds v starts with
    InitUpper,
    Objectives,  \* the objective bounds other threads may report
    NoBound,     \* no objective bound yet
    MaxLevel     \* bound: decision levels explored

Vars == 1..NumVars

ASSUME NumVarsAssumption == NumVars \in Nat
ASSUME CoefAssumption == Coef \in [Cons -> [Vars -> Int]]
ASSUME RhsAssumption == Rhs \in [Cons -> Int]
ASSUME BoundsAssumption == /\ InitLower \in [Vars -> Int]
                           /\ InitUpper \in [Vars -> Int]
                           /\ \A v \in Vars : InitLower[v] <= InitUpper[v]
ASSUME FactsAssumption == Facts \subseteq Cons
ASSUME ObjectivesAssumption == Objectives \subseteq Int /\ NoBound \notin Int
ASSUME MaxLevelAssumption == MaxLevel \in Nat

VARIABLES
    lower, upper,            \* VarState::lower_bound_, upper_bound_
    lowerStack, upperStack,  \* VarState::lower_bound_stack_, upper_bound_stack_
    levels,                  \* Solver::levels_ with the segment each frame owns
    ldiff, udiff,            \* Solver::ldiff_, udiff_: changes not yet in the sums
    inLdiff, inUdiff,        \* Solver::in_ldiff_, in_udiff_
    watches,                 \* Solver::var_watches_
    csLower, csUpper,        \* lower_bound_, upper_bound_ of a constraint state
    inactiveLevel,           \* inactive_level_ of a constraint state
    todo, marked,            \* Solver::todo_ and the todo_ flag of the states
    minBound, minLevel,      \* Solver::minimize_bound_, minimize_level_
    best,                    \* Propagator::minimize_bound_, shared by threads
    dl,                      \* clasp: decision level
    clit, clitLevel,         \* clasp: constraint literals and their levels
    queue, conQueue,         \* clasp: true literals not yet passed to propagate
    pc

boundVars == <<lower, upper, lowerStack, upperStack>>
diffVars  == <<ldiff, udiff, inLdiff, inUdiff>>
sumVars   == <<watches, csLower, csUpper>>
todoVars  == <<todo, marked>>
minVars   == <<minBound, minLevel>>
litVars   == <<clit, clitLevel>>
vars == <<boundVars, levels, diffVars, sumVars, inactiveLevel, todoVars,
          minVars, best, dl, litVars, queue, conQueue, pc>>

-----------------------------------------------------------------------------
(* Helpers on the state.                                                   *)

Literals == [var : Vars, kind : {"le", "gt"}, value : Int]

Frame(l) == [level |-> l, undoLower |-> {}, undoUpper |-> {},
             inactive |-> {}, removed |-> {}]

Top == levels[Len(levels)]

Marked(c) == inactiveLevel[c] > 0
\* removable(level): inactive since a lower level
RemovableAt_Bug(c, l) == Marked(c) /\ inactiveLevel[c] <= l + 1
RemovableAt(c, l) == Marked(c) /\ inactiveLevel[c] <= l
\* only sum constraints are removable, the minimize constraint is not
Removable(c) == c # Minimize

\* Bound b is smaller than the bound old, if there is one.
Improves(b, old) == IF old = NoBound THEN TRUE ELSE b < old

HasRhs(c) == c = Minimize => minBound # NoBound
RhsOf(c) == IF c = Minimize THEN minBound ELSE Rhs[c]

\* The sums attach computes from the bounds lo and up of the variables.
LowerSum(c, lo, up) ==
    Sum(NumVars, [v \in Vars |-> Coef[c][v] * (IF Coef[c][v] > 0 THEN lo[v] ELSE up[v])])
UpperSum(c, lo, up) ==
    Sum(NumVars, [v \in Vars |-> Coef[c][v] * (IF Coef[c][v] > 0 THEN up[v] ELSE lo[v])])

PushedNever_Bug(stack, l) == FALSE
PushedOnce_Bug(stack, l) == stack # <<>>
Pushed(stack, l) == stack # <<>> /\ stack[Len(stack)].level = l

-----------------------------------------------------------------------------
(* Initially every constraint has been added on level 0.                   *)

Init ==
    /\ lower = InitLower /\ upper = InitUpper
    /\ lowerStack = [v \in Vars |-> <<>>] /\ upperStack = [v \in Vars |-> <<>>]
    /\ levels = <<Frame(0)>>
    /\ ldiff = [v \in Vars |-> 0] /\ udiff = [v \in Vars |-> 0]
    /\ inLdiff = {} /\ inUdiff = {}
    /\ watches = [v \in Vars |-> {c \in Cons : Coef[c][v] # 0}]
    /\ csLower = [c \in Cons |-> LowerSum(c, InitLower, InitUpper)]
    /\ csUpper = [c \in Cons |-> UpperSum(c, InitLower, InitUpper)]
    /\ inactiveLevel = [c \in Cons |-> 0]
    /\ todo = Cons /\ marked = [c \in Cons |-> TRUE]
    /\ minBound = NoBound /\ minLevel = 0 /\ best = NoBound
    /\ dl = 0
    /\ clit = [c \in Cons |-> IF c \in Facts THEN "true" ELSE "free"]
    /\ clitLevel = [c \in Cons |-> 0]
    /\ queue = {} /\ conQueue = {}
    /\ pc = "propagate"

-----------------------------------------------------------------------------
(* Solver::mark_todo and Solver::mark_inactive for a set of constraints.   *)

MarkTodo(cs) ==
    LET new == {c \in cs : ~Marked(c) /\ ~marked[c]} IN
    /\ todo' = todo \union new
    /\ marked' = [c \in Cons |-> marked[c] \/ c \in new]

MarkInactive_Bug(c) ==
    IF Removable(c) /\ ~Marked(c)
    THEN /\ inactiveLevel' = [inactiveLevel EXCEPT ![c] = Top.level + 1]
         /\ UNCHANGED levels
    ELSE UNCHANGED <<inactiveLevel, levels>>

MarkInactive(c) ==
    IF Removable(c) /\ ~Marked(c)
    THEN /\ inactiveLevel' = [inactiveLevel EXCEPT ![c] = Top.level + 1]
         /\ levels' = [levels EXCEPT ![Len(levels)].inactive = @ \union {c}]
    ELSE UNCHANGED <<inactiveLevel, levels>>

-----------------------------------------------------------------------------
(* Environment: clasp's decisions, unit propagation and other threads.     *)

\* A literal clasp may still assign: neither true nor false by the bounds.
Open(l) == l.value \in lower[l.var]..(upper[l.var] - 1)

OpenLiterals ==
    {l \in [var : Vars, kind : {"le", "gt"},
            value : UNION {InitLower[v]..InitUpper[v] : v \in Vars}] : Open(l)}

AssignLiteral(l) == queue' = queue \union {l} /\ UNCHANGED <<litVars, conQueue>>

\* Only the literal itself is watched, not its complement.
AssignCons(c, level) ==
    /\ clit[c] = "free"
    /\ clitLevel' = [clitLevel EXCEPT ![c] = level]
    /\ \/ /\ clit' = [clit EXCEPT ![c] = "true"]
          /\ conQueue' = conQueue \union {c}
       \/ /\ clit' = [clit EXCEPT ![c] = "false"]
          /\ UNCHANGED conQueue
    /\ UNCHANGED queue

Decide ==
    /\ pc = "fixpoint" /\ dl < MaxLevel
    /\ dl' = dl + 1
    /\ \/ \E l \in OpenLiterals : AssignLiteral(l)
       \/ \E c \in Cons : AssignCons(c, dl + 1)
    /\ pc' = "propagate"
    /\ UNCHANGED <<boundVars, levels, diffVars, sumVars, inactiveLevel,
                   todoVars, minVars, best>>

\* Unit propagation over the clauses of the program: any open literal may
\* become true between two callbacks and, because adding a clause
\* propagates, between two items of the todo list.
UnitPropagate ==
    /\ pc \in {"propagate", "check"} /\ dl > 0
    /\ \/ \E l \in OpenLiterals \ queue : AssignLiteral(l)
       \/ \E c \in Cons : AssignCons(c, dl)
    /\ UNCHANGED <<boundVars, levels, diffVars, sumVars, inactiveLevel,
                   todoVars, minVars, best, dl, pc>>

\* Another thread stores a better bound (Propagator::update_minimize).
OtherThread ==
    /\ Minimize \in Cons /\ pc # "unsat"
    /\ \E b \in Objectives : Improves(b, best) /\ best' = b
    /\ UNCHANGED <<boundVars, levels, diffVars, sumVars, inactiveLevel,
                   todoVars, minVars, dl, litVars, queue, conQueue, pc>>

-----------------------------------------------------------------------------
(* Propagator::propagate: Solver::propagate_ for one true literal, with    *)
(* push_level_, update_upper_/update_lower_ and Level::update_upper/lower. *)

\* The frame stack after push_level_.
PushLevel == IF Top.level < dl THEN Append(levels, Frame(dl)) ELSE levels

ConflictPc == IF dl = 0 THEN "unsat" ELSE "conflict"

UpdateUpper(v, value) ==
    LET lvls == PushLevel
        new  == dl > 0 /\ ~Pushed(upperStack[v], dl)
    IN  /\ upper' = [upper EXCEPT ![v] = value]
        /\ upperStack' = IF new
                         THEN [upperStack EXCEPT ![v] = Append(@, [level |-> dl, value |-> upper[v]])]
                         ELSE upperStack
        /\ levels' = IF new
                     THEN [lvls EXCEPT ![Len(lvls)].undoUpper = @ \union {v}]
                     ELSE lvls
        /\ inUdiff' = IF udiff[v] = 0 THEN inUdiff \union {v} ELSE inUdiff
        /\ udiff' = [udiff EXCEPT ![v] = @ + (value - upper[v])]
        /\ UNCHANGED <<lower, lowerStack, ldiff, inLdiff>>

UpdateLower(v, value) ==
    LET lvls == PushLevel
        new  == dl > 0 /\ ~Pushed(lowerStack[v], dl)
    IN  /\ lower' = [lower EXCEPT ![v] = value + 1]
        /\ lowerStack' = IF new
                         THEN [lowerStack EXCEPT ![v] = Append(@, [level |-> dl, value |-> lower[v]])]
                         ELSE lowerStack
        /\ levels' = IF new
                     THEN [lvls EXCEPT ![Len(lvls)].undoLower = @ \union {v}]
                     ELSE lvls
        /\ inLdiff' = IF ldiff[v] = 0 THEN inLdiff \union {v} ELSE inLdiff
        /\ ldiff' = [ldiff EXCEPT ![v] = @ + ((value + 1) - lower[v])]
        /\ UNCHANGED <<upper, upperStack, udiff, inUdiff>>

\* The literal contradicts the opposite bound: the bounds are kept.
Crosses_Bug(l) == IF l.kind = "le" THEN l.value <= lower[l.var]
                                   ELSE upper[l.var] < l.value + 1
Crosses(l) == IF l.kind = "le" THEN l.value < lower[l.var]
                               ELSE upper[l.var] < l.value + 1
Tightens(l) == IF l.kind = "le" THEN upper[l.var] > l.value
                                ELSE lower[l.var] < l.value + 1

PropagateLiteral(l) ==
    /\ pc = "propagate" /\ l \in queue
    /\ queue' = queue \ {l}
    /\ \/ /\ Crosses(l)
          /\ levels' = PushLevel
          /\ pc' = ConflictPc
          /\ UNCHANGED <<boundVars, diffVars>>
       \/ /\ ~Crosses(l) /\ ~Tightens(l)
          /\ levels' = PushLevel
          /\ UNCHANGED <<boundVars, diffVars, pc>>
       \/ /\ ~Crosses(l) /\ Tightens(l)
          /\ IF l.kind = "le" THEN UpdateUpper(l.var, l.value)
                              ELSE UpdateLower(l.var, l.value)
          /\ UNCHANGED pc
    /\ UNCHANGED <<sumVars, inactiveLevel, todoVars, minVars, best, dl,
                   litVars, conQueue>>

PropagateCons(c) ==
    /\ pc = "propagate" /\ c \in conQueue
    /\ conQueue' = conQueue \ {c}
    /\ levels' = PushLevel
    /\ MarkTodo({c})
    /\ UNCHANGED <<boundVars, diffVars, sumVars, inactiveLevel, minVars, best,
                   dl, litVars, queue, pc>>

-----------------------------------------------------------------------------
(* Propagator::check up to the loop over the todo list: read the shared    *)
(* bound (update_minimize), return early if there is nothing to do, and    *)
(* bring the sums up to date (update_constraints_).                        *)

BetterBound == best # NoBound /\ Improves(best, minBound)
LowerLevel_Bug == FALSE
LowerLevel  == best # NoBound /\ ~BetterBound /\ dl < minLevel

\* The change x = co * diff that flushing d over the list in reports to c.
Change(c, v, in, d) ==
    IF v \in in /\ c \in watches[v] /\ ~RemovableAt(c, Top.level)
    THEN Coef[c][v] * d[v] ELSE 0

Positive(x) == IF x > 0 THEN x ELSE 0
Negative(x) == IF x < 0 THEN x ELSE 0

UpdateConstraints ==
    LET dropped == {p \in (inUdiff \union inLdiff) \X Cons :
                      p[2] \in watches[p[1]] /\ RemovableAt(p[2], Top.level)}
    IN  /\ csLower' = [c \in Cons |-> csLower[c] + Sum(NumVars, [v \in Vars |->
                            Positive(Change(c, v, inUdiff, udiff))
                          + Positive(Change(c, v, inLdiff, ldiff))])]
        /\ csUpper' = [c \in Cons |-> csUpper[c] + Sum(NumVars, [v \in Vars |->
                            Negative(Change(c, v, inUdiff, udiff))
                          + Negative(Change(c, v, inLdiff, ldiff))])]
        /\ watches' = [v \in Vars |-> {c \in watches[v] : <<v, c>> \notin dropped}]
        /\ levels' = [levels EXCEPT ![Len(levels)].removed = @ \union dropped]
        /\ udiff' = [v \in Vars |-> IF v \in inUdiff THEN 0 ELSE udiff[v]]
        /\ ldiff' = [v \in Vars |-> IF v \in inLdiff THEN 0 ELSE ldiff[v]]
        /\ inUdiff' = {} /\ inLdiff' = {}

\* update returns true, and the constraint is enqueued, when its lower bound grew.
Affected == {c \in Cons : \E v \in Vars : \/ Change(c, v, inUdiff, udiff) > 0
                                          \/ Change(c, v, inLdiff, ldiff) > 0}

CheckStart ==
    /\ pc = "propagate" /\ queue = {} /\ conQueue = {}
    /\ minBound' = IF BetterBound THEN best ELSE minBound
    /\ minLevel' = IF BetterBound \/ LowerLevel THEN dl ELSE minLevel
    /\ LET news == IF BetterBound \/ LowerLevel THEN {Minimize} ELSE {} IN
       \/ /\ dl # Top.level /\ Top.level >= minLevel'
          /\ MarkTodo(news)
          /\ pc' = "fixpoint"
          /\ UNCHANGED <<levels, diffVars, sumVars>>
       \/ /\ ~(dl # Top.level /\ Top.level >= minLevel')
          /\ MarkTodo(news \union Affected)
          /\ UpdateConstraints
          /\ pc' = "check"
    /\ UNCHANGED <<boundVars, inactiveLevel, best, dl, litVars, queue, conQueue>>

-----------------------------------------------------------------------------
(* One item of the todo list: SumConstraintStateImpl::propagate.           *)

\* The order literal propagate enforces for v so that the slack cannot get
\* negative, if it decides that there is one.
Consequence_Bug(c, v, slack) ==
    LET co == Coef[c][v]
        value == IF co > 0 THEN lower[v] + TruncDiv(slack, co) ELSE upper[v] + TruncDiv(slack, co)
    IN  IF co > 0
        THEN IF value >= upper[v] THEN {}
             ELSE {[var |-> v, kind |-> "le", value |-> value]}
        ELSE IF value < lower[v] THEN {}
             ELSE {[var |-> v, kind |-> "gt", value |-> value]}
Consequence(c, v, slack) ==
    LET co == Coef[c][v]
        delta == IF co > 0 THEN -floordiv(slack + 1, -co) ELSE floordiv(slack + 1, co)
        value == IF co > 0 THEN lower[v] + delta ELSE upper[v] + delta
    IN  IF co > 0
        THEN IF value >= upper[v] THEN {}
             ELSE {[var |-> v, kind |-> "le", value |-> value - 1]}
        ELSE IF value < lower[v] THEN {}
             ELSE {[var |-> v, kind |-> "gt", value |-> value]}

Consequences(c) ==
    UNION {Consequence(c, v, RhsOf(c) - csLower[c]) : v \in {w \in Vars : Coef[c][w] # 0}}

\* Adding a clause for these literals may fail: because one of them is
\* already false, or, above level 0, because the clause is unit on a lower
\* level or its propagation runs into another clause of the program.
MayFail(ls) ==
    \/ dl > 0 /\ ls \ queue # {}
    \/ \E l \in ls, k \in queue : l.var = k.var /\ l.value = k.value /\ l.kind # k.kind

\* The rest of the list is only unmarked once propagate returned false.
FailItem_Bug == /\ todo' = {}
                /\ UNCHANGED marked
                /\ pc' = ConflictPc
FailItem == /\ todo' = {}
            /\ marked' = [c \in Cons |-> marked[c] /\ c \notin todo]
            /\ pc' = ConflictPc

DoneItem_Bug(c) == UNCHANGED <<todoVars, pc>>
DoneItem(c) == /\ todo' = todo \ {c}
               /\ marked' = [marked EXCEPT ![c] = FALSE]
               /\ UNCHANGED pc

Slack(c) == RhsOf(c) - csLower[c]

\* The literal is false: the constraint does not matter below this level.
SkipFalse(c) ==
    /\ clit[c] = "false"
    /\ MarkInactive(c) /\ DoneItem(c)
    /\ UNCHANGED <<litVars, queue>>

\* No objective bound yet, or not enforced yet.
SkipOpen(c) ==
    /\ clit[c] # "false"
    /\ ~HasRhs(c) \/ (clit[c] = "free" /\ csUpper[c] > RhsOf(c) /\ Slack(c) >= 0)
    /\ DoneItem(c)
    /\ UNCHANGED <<inactiveLevel, levels, litVars, queue>>

\* The constraint cannot become false anymore.
Satisfied(c) ==
    /\ clit[c] # "false" /\ HasRhs(c) /\ csUpper[c] <= RhsOf(c)
    /\ MarkInactive(c) /\ DoneItem(c)
    /\ UNCHANGED <<litVars, queue>>

\* The constraint is violated: its literal becomes false or is in conflict.
Violated(c) ==
    /\ clit[c] # "false" /\ HasRhs(c) /\ csUpper[c] > RhsOf(c) /\ Slack(c) < 0
    /\ MarkInactive(c)
    /\ \/ /\ clit[c] = "free"
          /\ clit' = [clit EXCEPT ![c] = "false"]
          /\ clitLevel' = [clitLevel EXCEPT ![c] = dl]
          /\ DoneItem(c)
       \/ /\ clit[c] = "true" \/ dl > 0
          /\ FailItem
          /\ UNCHANGED litVars
    /\ UNCHANGED queue

\* The constraint holds and may tighten bounds.
Enforce(c) ==
    /\ clit[c] = "true" /\ HasRhs(c) /\ csUpper[c] > RhsOf(c) /\ Slack(c) >= 0
    /\ \/ /\ \A l \in Consequences(c), k \in queue :
                ~(l.var = k.var /\ l.value = k.value /\ l.kind # k.kind)
          /\ queue' = queue \union Consequences(c)
          /\ DoneItem(c)
       \/ /\ MayFail(Consequences(c))
          /\ FailItem
          /\ UNCHANGED queue
    /\ UNCHANGED <<inactiveLevel, levels, litVars>>

CheckItem(c) ==
    /\ pc = "check" /\ c \in todo
    /\ SkipFalse(c) \/ SkipOpen(c) \/ Satisfied(c) \/ Violated(c) \/ Enforce(c)
    /\ UNCHANGED <<boundVars, diffVars, sumVars, minVars, best, dl, conQueue>>

CheckEnd ==
    /\ pc = "check" /\ todo = {}
    /\ pc' = IF queue = {} /\ conQueue = {} THEN "fixpoint" ELSE "propagate"
    /\ UNCHANGED <<boundVars, levels, diffVars, sumVars, inactiveLevel, todoVars,
                   minVars, best, dl, litVars, queue, conQueue>>

-----------------------------------------------------------------------------
(* Solver::undo with Level::undo, called for the levels that have a frame, *)
(* while clasp goes back one level.                                        *)

Restored(stack, bound, vs) ==
    [v \in Vars |-> IF v \in vs THEN stack[v][Len(stack[v])].value ELSE bound[v]]

Popped(stack, vs) ==
    [v \in Vars |-> IF v \in vs THEN SubSeq(stack[v], 1, Len(stack[v]) - 1) ELSE stack[v]]

\* The change of v that had reached c and is taken back.
TakenBack_Bug(c, v, vs, bound, diff) ==
    IF v \in vs /\ c \in watches[v]
    THEN Coef[c][v] * (bound[v] - bound'[v]) ELSE 0
TakenBack(c, v, vs, bound, diff) ==
    IF v \in vs /\ c \in watches[v]
    THEN Coef[c][v] * (bound[v] - bound'[v] - diff[v]) ELSE 0

\* Pending changes of the level are dropped with it.
Dropped_Bug(diff, vs) == diff
Dropped(diff, vs) == [v \in Vars |-> IF v \in vs THEN 0 ELSE diff[v]]

NonPositive(x) == IF x > 0 THEN 0 ELSE x

UndoFrame ==
    LET F == Top IN
    /\ lower' = Restored(lowerStack, lower, F.undoLower)
    /\ upper' = Restored(upperStack, upper, F.undoUpper)
    /\ lowerStack' = Popped(lowerStack, F.undoLower)
    /\ upperStack' = Popped(upperStack, F.undoUpper)
    /\ csLower' = [c \in Cons |-> csLower[c] - Sum(NumVars, [v \in Vars |->
                        Positive(TakenBack(c, v, F.undoLower, lower, ldiff))
                      + Positive(TakenBack(c, v, F.undoUpper, upper, udiff))])]
    /\ csUpper' = [c \in Cons |-> csUpper[c] - Sum(NumVars, [v \in Vars |->
                        NonPositive(TakenBack(c, v, F.undoLower, lower, ldiff))
                      + NonPositive(TakenBack(c, v, F.undoUpper, upper, udiff))])]
    /\ ldiff' = Dropped(ldiff, F.undoLower)
    /\ udiff' = Dropped(udiff, F.undoUpper)
    /\ inLdiff' = {} /\ inUdiff' = {}
    /\ inactiveLevel' = [c \in Cons |-> IF c \in F.inactive THEN 0 ELSE inactiveLevel[c]]
    /\ watches' = [v \in Vars |-> watches[v] \union {c \in Cons : <<v, c>> \in F.removed}]
    /\ todo' = {}
    /\ marked' = [c \in Cons |-> marked[c] /\ c \notin todo]
    /\ levels' = SubSeq(levels, 1, Len(levels) - 1)

\* undo is only called for levels on which propagate was called.
HasFrame_Bug == TRUE
HasFrame == Top.level = dl

\* clasp may backtrack after a conflict and also between any two callbacks.
Undo ==
    /\ pc \in {"conflict", "fixpoint", "propagate"} /\ dl > 0
    /\ IF HasFrame
       THEN UndoFrame
       ELSE UNCHANGED <<boundVars, levels, diffVars, sumVars, inactiveLevel, todoVars>>
    /\ dl' = dl - 1
    /\ clit' = [c \in Cons |-> IF clitLevel[c] = dl THEN "free" ELSE clit[c]]
    /\ clitLevel' = [c \in Cons |-> IF clitLevel[c] = dl THEN 0 ELSE clitLevel[c]]
    /\ queue' = {} /\ conQueue' = {}
    /\ pc' = "propagate"
    /\ UNCHANGED <<minVars, best>>

-----------------------------------------------------------------------------
(* A total assignment passes check_full and is a model: on_model stores    *)
(* the next bound to beat and the search goes on.                          *)

Total == /\ \A v \in Vars : lower[v] = upper[v]
         /\ \A c \in Cons : clit[c] # "free"

Cost == LowerSum(Minimize, lower, upper)

OnModel ==
    /\ pc = "fixpoint" /\ Total /\ Minimize \in Cons
    /\ Improves(Cost - 1, best)
    /\ best' = Cost - 1
    /\ pc' = "propagate"
    /\ UNCHANGED <<boundVars, levels, diffVars, sumVars, inactiveLevel, todoVars,
                   minVars, dl, litVars, queue, conQueue>>

Next ==
    \/ Decide \/ UnitPropagate \/ OtherThread
    \/ \E l \in queue : PropagateLiteral(l)
    \/ \E c \in Cons : PropagateCons(c)
    \/ CheckStart
    \/ \E c \in Cons : CheckItem(c)
    \/ CheckEnd
    \/ Undo \/ OnModel

Spec == Init /\ [][Next]_vars

Fairness == /\ WF_vars(\E l \in queue : PropagateLiteral(l))
            /\ WF_vars(\E c \in Cons : PropagateCons(c))
            /\ WF_vars(CheckStart)
            /\ WF_vars(\E c \in Cons : CheckItem(c))
            /\ WF_vars(CheckEnd)

FairSpec == Spec /\ Fairness

-----------------------------------------------------------------------------
(* Properties.                                                             *)

Entries == [level : Nat, value : Int]
Frames == [level : Nat, undoLower : SUBSET Vars, undoUpper : SUBSET Vars,
           inactive : SUBSET Cons, removed : SUBSET (Vars \X Cons)]

\* Types of the state; frames and stack entries carry levels.
TypeOK ==
    /\ lower \in [Vars -> Int] /\ upper \in [Vars -> Int]
    /\ lowerStack \in [Vars -> Seq(Entries)] /\ upperStack \in [Vars -> Seq(Entries)]
    /\ levels \in Seq(Frames)
    /\ levels # <<>>
    /\ ldiff \in [Vars -> Int] /\ udiff \in [Vars -> Int]
    /\ inLdiff \subseteq Vars /\ inUdiff \subseteq Vars
    /\ watches \in [Vars -> SUBSET Cons]
    /\ csLower \in [Cons -> Int] /\ csUpper \in [Cons -> Int]
    /\ inactiveLevel \in [Cons -> Nat]
    /\ todo \subseteq Cons /\ marked \in [Cons -> BOOLEAN]
    /\ minBound \in Int \union {NoBound} /\ minLevel \in Nat
    /\ best \in Int \union {NoBound}
    /\ dl \in Nat
    /\ clit \in [Cons -> {"free", "true", "false"}] /\ clitLevel \in [Cons -> Nat]
    /\ queue \subseteq Literals /\ conQueue \subseteq Cons
    /\ pc \in {"propagate", "check", "fixpoint", "conflict", "unsat"}

\* The saved bounds of a variable are ordered by level, and it has one for
\* the level of a frame exactly if the frame is among the listed ones.
SavedAt(stack, listed) ==
    /\ \A i, j \in 1..Len(stack) : i < j => stack[i].level < stack[j].level
    /\ \A i \in 1..Len(levels) :
         i \in listed <=> \E k \in 1..Len(stack) : stack[k].level = levels[i].level

\* The frames are ordered by level, the first one is the top level, and a
\* variable has a saved bound for a level exactly if the frame of that
\* level lists it: undo never pops an empty or a foreign stack entry.
FramesMatchStacks ==
    /\ levels[1].level = 0
    /\ \A i, j \in 1..Len(levels) : i < j => levels[i].level < levels[j].level
    /\ Top.level <= dl
    /\ \A v \in Vars :
         /\ SavedAt(lowerStack[v], {i \in 1..Len(levels) : v \in levels[i].undoLower})
         /\ SavedAt(upperStack[v], {i \in 1..Len(levels) : v \in levels[i].undoUpper})

\* A constraint is in the todo list exactly if its flag is set: with a flag
\* left behind it would never be enqueued again.
TodoMatchesFlags == \A c \in Cons : marked[c] <=> c \in todo

\* Every bound change not yet in the sums is listed for the next check.
PendingListed ==
    \A v \in Vars : /\ ldiff[v] # 0 <=> v \in inLdiff
                    /\ udiff[v] # 0 <=> v \in inUdiff

\* The check check_state_ makes, at every state: the sums of a constraint
\* that still watches its variables are those of the current bounds less
\* the pending changes.
SumsMatchBounds ==
    LET lo == [v \in Vars |-> lower[v] - ldiff[v]]
        up == [v \in Vars |-> upper[v] - udiff[v]]
    IN  \A c \in Cons : ~Marked(c) => /\ csLower[c] = LowerSum(c, lo, up)
                                      /\ csUpper[c] = UpperSum(c, lo, up)

\* A constraint is left alone only where it cannot matter: its literal is
\* false or it holds for all values the current bounds leave, and it cannot
\* become active again before that changes.
InactiveJustified ==
    pc # "conflict" /\ pc # "unsat" =>
      \A c \in Cons : Marked(c) =>
        \/ clit[c] = "false"
        \/ UpperSum(c, lower, upper) <= Rhs[c]

\* When clasp may decide, no constraint is violated by the current bounds:
\* nothing was lost by a watch, a flag, a level or a bound of another thread.
NoViolationAtFixpoint ==
    pc = "fixpoint" =>
      \A c \in Cons : clit[c] # "false" /\ HasRhs(c) => LowerSum(c, lower, upper) <= RhsOf(c)

\* check_full accepts every total assignment the search stops at.
FullCheckSucceeds ==
    pc = "fixpoint" /\ Total =>
      \A c \in Cons : clit[c] = "true" /\ HasRhs(c) =>
        LET lhs == LowerSum(c, lower, upper) IN
        /\ IF Marked(c) THEN lhs <= csUpper[c] ELSE lhs = csUpper[c] /\ lhs <= csLower[c]
        /\ lhs <= RhsOf(c)

\* The assignments that satisfy all constraints and beat the bound.
Solutions(b) ==
    {a \in [Vars -> UNION {InitLower[v]..InitUpper[v] : v \in Vars}] :
       /\ \A v \in Vars : a[v] \in InitLower[v]..InitUpper[v]
       /\ \A c \in Facts : LowerSum(c, a, a) <= IF c # Minimize THEN Rhs[c]
                                                 ELSE IF b = NoBound THEN LowerSum(c, a, a) ELSE b}

\* The top level is only in conflict if there is no (better) solution.
UnsatCorrect == pc = "unsat" => Solutions(best) = {}

\* Literals a constraint enforces follow from it: no assignment within the
\* current bounds satisfies the constraint and falsifies the literal.
Entails(c, l) ==
    \A a \in [Vars -> UNION {lower[v]..upper[v] : v \in Vars}] :
      (/\ \A v \in Vars : a[v] \in lower[v]..upper[v]
       /\ LowerSum(c, a, a) <= RhsOf(c))
      => IF l.kind = "le" THEN a[l.var] <= l.value ELSE a[l.var] > l.value

ConsequencesEntailed ==
    [][\A c \in Cons : CheckItem(c) => \A l \in queue' \ queue : Entails(c, l)]_vars

\* The bounds are those of the literals delivered on the levels that are
\* left: the state implements a trail of bounds per decision level.
BoundAt(stack, bound, v, l) ==
    LET later == {i \in DOMAIN stack[v] : stack[v][i].level > l}
    IN  IF later = {} THEN bound[v]
        ELSE stack[v][CHOOSE i \in later : \A j \in later : i <= j].value

Trail == INSTANCE BoundTrail WITH
    bounds <- [l \in 0..dl |-> [lo |-> [v \in Vars |-> BoundAt(lowerStack, lower, v, l)],
                                up |-> [v \in Vars |-> BoundAt(upperStack, upper, v, l)]]]

ImplementsTrail == Trail!Spec

\* Propagation comes to an end: the delivered literals lead to a fixpoint
\* or to a conflict, whatever else is assigned meanwhile.
PropagationTerminates ==
    pc = "propagate" ~> pc \in {"fixpoint", "conflict", "unsat"}
=============================================================================
