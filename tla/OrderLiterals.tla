--------------------------- MODULE OrderLiterals ---------------------------
(***************************************************************************)
(* The order literals of one integer variable: the map from values to      *)
(* literals (VarState), the links between neighbours (LitmapEntry), the    *)
(* list of facts (factmap_), and how they follow the assignment of clasp   *)
(* and the bounds: add_simple, add_dom and update_bounds while a solve     *)
(* step is prepared, propagate, check and the decision heuristic during    *)
(* the search, update between two solve steps.                             *)
(*                                                                         *)
(* A literal is an integer: 1 is TRUE_LIT, an atom is an integer greater   *)
(* than 1, and -l is the negation of l. The literal of value k stands for  *)
(* x <= k. The stacks behind the bounds of a level are the subject of      *)
(* SolverState; here trail[l + 1] has the bounds after level l.            *)
(***************************************************************************)
EXTENDS Integers, Sequences, FiniteSets, FiniteSetsExt, Functions

CONSTANTS
    Lo, Hi,       \* the bounds of the variable
    SignValue,    \* config: literals of values >= SignValue are negated
    Programs      \* what is solved, see Simples ... MaxSteps below

VARIABLE program  \* one of Programs

Atoms == 2..program.atoms   \* bound: the atoms clasp can have
Clits == program.clits      \* those that exist from the start (theory atoms)
TrueClits == program.facts  \* those of them that are facts
Simples == program.simples  \* [clit, co, rhs, strict]: constraints for add_simple
Doms == program.doms        \* [lit, dom]: calls of add_dom, dom a sequence of [x, y)
Shared == program.shared    \* bounds of other threads for update_bounds
MaxChain == program.chain   \* config: heuristic MaxChain
MaxCalls == program.calls   \* bound: calls of add_simple, add_dom, update_bounds in a step
MaxLevel == program.levels  \* bound: decision levels explored
MaxSteps == program.steps   \* bound: solve steps

ASSUME OrderAssumption == Lo \in Int /\ Hi \in Int /\ Lo <= Hi
LiteralsOf(atoms) == {1, -1} \union atoms \union {-a : a \in atoms}
ASSUME ProgramsAssumption ==
    \A p \in Programs :
      /\ p.atoms \in Nat \ {0}
      /\ p.clits \subseteq 2..p.atoms /\ p.facts \subseteq p.clits
      /\ \A c \in p.simples : /\ c.clit \in LiteralsOf(p.clits) /\ c.strict \in BOOLEAN
                              /\ c.co \in Int \ {0} /\ c.rhs \in Int
      /\ \A d \in p.doms : d.lit \in LiteralsOf(p.clits) /\ d.dom \in Seq(Int \X Int)
      /\ \A b \in p.shared : b.lo \in Int /\ b.up \in Int
\* A constraint is not a domain, and domains are not empty.
KindsApart ==
    \A p \in Programs : p.simples \intersect p.doms = {} /\ \A d \in p.doms : d.dom # <<>>

VARIABLES
    om,       \* [lits, litmap, factmap]: order literals, LitmapEntry's, factmap_
    trail,    \* bounds [lo, up] of every level
    used,     \* atoms that exist in clasp
    static,   \* the atoms up to max_static_var_
    assign,   \* clasp: 1 true, -1 false, 0 free
    alevel,   \* clasp: level of an assigned atom
    clauses,  \* clasp: static clauses over several literals
    units,    \* literals of unit clauses InitClauseCreator has not committed
    queue,    \* clasp: literals not yet passed to propagate
    pc,
    calls, steps,
    added     \* history: the constraints and domains integrated so far

clasp == <<used, static, assign, alevel, clauses, units, queue>>
vars == <<program, om, trail, clasp, pc, calls, steps, added>>

T == 1
Abs(l) == IF l < 0 THEN -l ELSE l

Truth(val, l) == IF Abs(l) = T THEN l ELSE IF l > 0 THEN val[l] ELSE -val[-l]
IsTrue(l) == Truth(assign, l) = 1
IsFalse(l) == Truth(assign, l) = -1

Top == trail[Len(trail)]
dl == Len(trail) - 1
\* min_bound and max_bound: the bounds of level 0
MinBound == trail[1].lo
MaxBound == trail[1].up

Init ==
    /\ program \in Programs
    /\ om = [lits |-> <<>>, litmap |-> <<>>, factmap |-> <<>>]
    /\ trail = <<[lo |-> Lo, up |-> Hi]>>
    /\ used = Clits /\ static = {}
    /\ assign = [a \in Atoms |-> IF a \in TrueClits THEN 1 ELSE 0]
    /\ alevel = [a \in Atoms |-> 0]
    /\ clauses = {} /\ units = {} /\ queue = TrueClits
    /\ pc = "build" /\ calls = 0 /\ steps = 1
    /\ added = {}

-----------------------------------------------------------------------------
(* The literal map and its links.                                          *)

\* lit_prev and lit_succ.
LitPrev(o, value) ==
    LET below == {k \in DOMAIN o.lits : k < value} IN
    IF below = {} THEN -T ELSE o.lits[Max(below)]
LitSucc(o, value) ==
    LET above == {k \in DOMAIN o.lits : k > value} IN
    IF above = {} THEN T ELSE o.lits[Min(above)]

\* litmap_at_(l).valid(l)
Valid(o, l) == Abs(l) \in DOMAIN o.litmap /\ o.litmap[Abs(l)].lit = l

SetSucc(o, l, s) == IF Valid(o, l) THEN [o EXCEPT !.litmap[Abs(l)].succ = s] ELSE o
SetPrev(o, l, p) == IF Valid(o, l) THEN [o EXCEPT !.litmap[Abs(l)].prev = p] ELSE o

\* update_litmap_: the neighbours of value now have lit (0: each other) next
\* to them.
Relink(o, lit, value) ==
    LET p == LitPrev(o, value)  s == LitSucc(o, value) IN
    SetPrev(SetSucc(o, p, IF lit # 0 THEN lit ELSE s), s, IF lit # 0 THEN lit ELSE p)

\* f with the value y for x, and f without x.
With(f, x, y) == [z \in DOMAIN f \union {x} |-> IF z = x THEN y ELSE f[z]]
Without(f, x) == Restrict(f, DOMAIN f \ {x})

SetLiteral(o, value, lit) == [o EXCEPT !.lits = With(@, value, lit)]
UnsetLiteral(o, value) == [o EXCEPT !.lits = Without(@, value)]

\* litmap_add_ and set_literal for an order literal that is not a fact.
AddOrderLit(o, value, lit) ==
    LET entry == [lit |-> lit, value |-> value,
                  prev |-> LitPrev(o, value), succ |-> LitSucc(o, value)] IN
    SetLiteral([Relink(o, lit, value) EXCEPT !.litmap = With(@, Abs(lit), entry)], value, lit)

\* A value that gets a fact as its literal.
AddFact(o, value, lit) ==
    LET fact == [lit |-> lit, value |-> value,
                 prec |-> IF lit = T THEN LitSucc(o, value) ELSE LitPrev(o, value)] IN
    SetLiteral([Relink(o, lit, value) EXCEPT !.factmap = Append(@, fact)], value, lit)

-----------------------------------------------------------------------------
(* get_literal and update_literal on s = [om, used]. The literal of value  *)
(* is LitOf afterwards.                                                    *)

Fresh(s) == Max(s.used \union {T}) + 1
Signed(value, a) == IF value >= SignValue THEN -a ELSE a
OutOfBounds(value) == value < MinBound \/ value >= MaxBound

LitOf(s, value) == IF value < MinBound THEN -T ELSE IF value >= MaxBound THEN T ELSE s.om.lits[value]

GetLiteral(s, value) ==
    IF OutOfBounds(value) \/ value \in DOMAIN s.om.lits THEN s
    ELSE [s EXCEPT !.om = AddOrderLit(@, value, Signed(value, Fresh(s))), !.used = @ \union {Fresh(s)}]

UpdateLiteral(s, value, truth) ==
    IF truth = 0 \/ dl > 0 THEN GetLiteral(s, value)
    ELSE IF OutOfBounds(value) \/ value \in DOMAIN s.om.lits THEN s
    ELSE [s EXCEPT !.om = AddFact(@, value, truth)]

-----------------------------------------------------------------------------
(* add_clause for a clause c. While a solve step is prepared clauses are   *)
(* stored; s has the fields clauses and units for them. Fixed literals are *)
(* dropped when the clause is read.                                        *)

Fixed(l) == Abs(l) = T \/ (assign[Abs(l)] # 0 /\ alevel[Abs(l)] = 0)
OpenIn(c) == {l \in c : ~(Fixed(l) /\ IsFalse(l))}
Satisfied(c) == \E l \in c : (Fixed(l) /\ IsTrue(l)) \/ -l \in c

StoreClause(s, c) ==
    IF Satisfied(c) THEN s
    ELSE CASE OpenIn(c) = {} -> [s EXCEPT !.units = @ \union {-T}]
           [] Cardinality(OpenIn(c)) = 1 -> [s EXCEPT !.units = @ \union OpenIn(c)]
           [] OTHER -> [s EXCEPT !.clauses = @ \union {OpenIn(c)}]

Builder == [om |-> om, used |-> used, clauses |-> clauses, units |-> units]
EnoughAtoms(n) == Max(used \union {T}) + n <= program.atoms

Built(s) ==
    /\ om' = s.om /\ used' = s.used /\ clauses' = s.clauses /\ units' = s.units
    /\ calls' = calls + 1
    /\ UNCHANGED <<trail, static, assign, alevel, queue, pc, steps>>

-----------------------------------------------------------------------------
(* Solver::add_simple: co * x <= rhs if clit (and only if, when strict).   *)

SimpleValue(c) == IF c.co > 0 THEN c.rhs \div c.co ELSE -(c.rhs \div (-c.co)) - 1
\* The literal of value that clit implies.
Towards_Bug(c, l) == l
Towards(c, l) == IF c.co > 0 THEN l ELSE -l

\* The constraint literal becomes the order literal, through an equivalent
\* one if it already is the literal of another value.
ReuseLiteral(s, c) ==
    LET value == SimpleValue(c)
        lit == Towards(c, c.clit)
        eq == Fresh(s)
        taken == Abs(lit) \in DOMAIN s.om.litmap
        open == IF taken
                THEN StoreClause(StoreClause([s EXCEPT !.used = @ \union {eq}], {-lit, eq}), {-eq, lit})
                ELSE s IN
    IF Truth(assign, lit) # 0 THEN [s EXCEPT !.om = AddFact(@, value, Truth(assign, lit))]
    ELSE [open EXCEPT !.om = AddOrderLit(@, value, IF taken THEN eq ELSE lit)]

ImplyLiteral(s, c) ==
    LET value == SimpleValue(c)
        t == UpdateLiteral(s, value, Towards(c, Truth(assign, c.clit)))
        lit == Towards(c, LitOf(t, value))
        u == StoreClause(t, {-c.clit, lit}) IN
    IF c.strict THEN StoreClause(u, {-lit, c.clit}) ELSE u

AddSimple(c) ==
    LET value == SimpleValue(c) IN
    /\ pc = "build" /\ calls < MaxCalls /\ EnoughAtoms(1)
    /\ added' = added \union {c}
    /\ Built(IF ~c.strict /\ IsFalse(c.clit) THEN Builder
             ELSE IF c.strict /\ ~OutOfBounds(value) /\ value \notin DOMAIN om.lits
             THEN ReuseLiteral(Builder, c)
             ELSE ImplyLiteral(Builder, c))

-----------------------------------------------------------------------------
(* Solver::add_dom: x in dom if lit, dom a sequence of intervals [x, y).   *)

\* x >= py implies x >= dom[i].x for the end py of the interval before.
DomFromLeft(s, d, lit, i) ==
    LET start == d.dom[i][1] - 1
        t == IF i = 1 THEN s ELSE GetLiteral(s, d.dom[i - 1][2] - 1)
        ly == IF i = 1 THEN T ELSE -LitOf(t, d.dom[i - 1][2] - 1)
        u == UpdateLiteral(t, start, IF lit = T /\ IsTrue(ly) THEN -1 ELSE 0) IN
    StoreClause(u, {-lit, -ly, -LitOf(u, start)})

\* x < px implies x < dom[i].y for the start px of the interval after.
DomFromRight(s, d, lit, i) ==
    LET end == d.dom[i][2] - 1
        n == Len(d.dom)
        t == IF i = n THEN s ELSE GetLiteral(s, d.dom[i + 1][1] - 1)
        lx == IF i = n THEN T ELSE LitOf(t, d.dom[i + 1][1] - 1)
        u == UpdateLiteral(t, end, IF lit = T /\ IsTrue(lx) THEN 1 ELSE 0) IN
    StoreClause(u, {-lit, -lx, LitOf(u, end)})

\* The loop over the intervals and then the one back over them.
DomSteps(s, d, lit) ==
    LET n == Len(d.dom)
        run[j \in 0..(2 * n)] ==
          IF j = 0 THEN s
          ELSE IF j <= n THEN DomFromLeft(run[j - 1], d, lit, j)
          ELSE DomFromRight(run[j - 1], d, lit, 2 * n + 1 - j) IN
    run[2 * n]

AddDom(d) ==
    /\ pc = "build" /\ calls < MaxCalls /\ EnoughAtoms(4 * Len(d.dom))
    /\ added' = added \union {d}
    /\ Built(IF IsFalse(d.lit) THEN Builder
             ELSE DomSteps(Builder, d, IF IsTrue(d.lit) THEN T ELSE d.lit))

-----------------------------------------------------------------------------
(* Solver::update_bounds: integrates the bounds b another thread found.    *)

WithUpper(s, up) ==
    IF up >= MaxBound THEN s
    ELSE LET t == UpdateLiteral(s, up, 1) IN StoreClause(t, {LitOf(t, up)})
WithLower(s, lo) ==
    IF lo <= MinBound THEN s
    ELSE LET t == UpdateLiteral(s, lo - 1, -1) IN StoreClause(t, {-LitOf(t, lo - 1)})

-----------------------------------------------------------------------------
(* Bounds follow literals: update_upper_, update_lower_ and                *)
(* propagate_variables_ on s = [om, b, val, units, ok] for the bounds b of *)
(* the current level and the assignment val. While a solve step is         *)
(* prepared implied literals are only stored.                              *)

Preparing == pc \in {"build", "commit", "deliver", "examine"}

State == [om |-> om, b |-> Top, val |-> assign, units |-> units, ok |-> TRUE]

Assigned(val, ls) == [a \in Atoms |-> IF a \in ls THEN 1 ELSE IF -a \in ls THEN -1 ELSE val[a]]

Imply(s, ls) ==
    IF Preparing THEN [s EXCEPT !.units = @ \union ls]
    ELSE IF \E l \in ls : Truth(s.val, l) = -1 THEN [s EXCEPT !.ok = FALSE]
    ELSE [s EXCEPT !.val = Assigned(@, ls)]

\* The literals from value on upwards (downwards) until one is already true.
ImpliedAbove(s, value) ==
    LET above == {k \in DOMAIN s.om.lits : k > value} IN
    {s.om.lits[k] : k \in {k \in above : \A j \in above : j <= k => Truth(s.val, s.om.lits[j]) # 1}}
ImpliedBelow(s, value) ==
    LET below == {k \in DOMAIN s.om.lits : k < value} IN
    {-s.om.lits[k] : k \in {k \in below : \A j \in below : j >= k => Truth(s.val, s.om.lits[j]) # -1}}

UpdateUpper(s, value, succ) ==
    IF value < s.b.lo THEN [s EXCEPT !.ok = FALSE]
    ELSE LET t == [s EXCEPT !.b.up = Min({@, value})] IN
         IF Truth(s.val, succ) = 1 THEN t ELSE Imply(t, ImpliedAbove(t, value))

UpdateLower(s, value, prev) ==
    IF s.b.up < value + 1 THEN [s EXCEPT !.ok = FALSE]
    ELSE LET t == [s EXCEPT !.b.lo = Max({@, value + 1})] IN
         IF Truth(s.val, prev) = -1 THEN t ELSE Imply(t, ImpliedBelow(t, value))

-----------------------------------------------------------------------------
(* Solver::update_domain_.                                                 *)

\* A fixed literal is replaced by TRUE_LIT or its negation.
SimplifiedAs(o, l, fact) ==
    IF ~Valid(o, l) THEN o
    ELSE LET e == o.litmap[Abs(l)]
             p == Relink(SetLiteral(o, e.value, fact), fact, e.value) IN
         [p EXCEPT !.litmap = Without(@, Abs(l)),
                   !.factmap = Append(@, [lit |-> fact, value |-> e.value,
                                          prec |-> IF fact = T THEN e.succ ELSE e.prev])]
Simplified(o, l) == SimplifiedAs(SimplifiedAs(o, l, T), -l, -T)

IntegrateFact(s, f) ==
    LET t == IF f.lit = T THEN UpdateUpper(s, f.value, f.prec) ELSE UpdateLower(s, f.value, f.prec) IN
    IF ~s.ok THEN s ELSE IF ~t.ok THEN t
    ELSE [t EXCEPT !.om = UnsetLiteral(Relink(@, 0, f.value), f.value)]

IntegrateFacts(s) ==
    LET n == Len(s.om.factmap)
        run[i \in 0..n] == IF i = 0 THEN s ELSE IntegrateFact(run[i - 1], s.om.factmap[i])
        t == run[n] IN
    IF t.ok THEN [t EXCEPT !.om.factmap = <<>>] ELSE t

\* Simplifies on every level.
UpdateDomain(s, l) ==
    IF dl = 0 THEN IntegrateFacts([s EXCEPT !.om = Simplified(@, l)])
    ELSE IF Valid(s.om, l) THEN UpdateUpper(s, s.om.litmap[Abs(l)].value, s.om.litmap[Abs(l)].succ)
    ELSE IF Valid(s.om, -l) THEN UpdateLower(s, s.om.litmap[Abs(l)].value, s.om.litmap[Abs(l)].prev)
    ELSE s

\* The state becomes s; newly assigned literals are queued.
NewLits(val) == {IF val[a] = 1 THEN a ELSE -a : a \in {a \in Atoms : val[a] # assign[a]}}
AssignAt(level, val) ==
    /\ assign' = val
    /\ alevel' = [a \in Atoms |-> IF val[a] # assign[a] THEN level ELSE alevel[a]]

Become(s, rest, next) ==
    IF s.ok
    THEN /\ om' = s.om /\ trail' = [trail EXCEPT ![Len(trail)] = s.b]
         /\ units' = s.units
         /\ AssignAt(dl, s.val)
         /\ queue' = rest \union NewLits(s.val)
         /\ pc' = next
    ELSE /\ pc' = IF dl = 0 THEN "unsat" ELSE "conflict"
         /\ UNCHANGED <<om, trail, units, assign, alevel, queue>>

-----------------------------------------------------------------------------
(* Preparing a solve step.                                                 *)

\* update_bounds followed by check.
UpdateBounds(b) ==
    LET s == WithLower(WithUpper(Builder, b.up), b.lo)
        t == IntegrateFacts([State EXCEPT !.om = s.om, !.units = s.units]) IN
    /\ pc = "build" /\ calls < MaxCalls /\ EnoughAtoms(2)
    /\ Become(t, queue, "build")
    /\ used' = s.used /\ clauses' = s.clauses /\ calls' = calls + 1
    /\ UNCHANGED <<static, steps, added>>

BeginSimplify ==
    /\ pc = "build"
    /\ pc' = "commit"
    /\ UNCHANGED <<om, trail, clasp, calls, steps, added>>

\* Solver::simplify: the stored clauses are committed and propagated.
StaticClosed ==
    \A c \in clauses : (\E l \in c : IsTrue(l)) \/ Cardinality({l \in c : ~IsFalse(l)}) >= 2
Commit ==
    /\ pc = "commit" /\ units # {}
    /\ IF \E l \in units : IsFalse(l) \/ -l \in units
       THEN pc' = "unsat" /\ UNCHANGED <<assign, alevel, queue, units>>
       ELSE /\ AssignAt(0, Assigned(assign, units))
            /\ queue' = queue \union NewLits(Assigned(assign, units))
            /\ units' = {} /\ UNCHANGED pc
    /\ UNCHANGED <<om, trail, used, static, clauses, calls, steps, added>>

\* simplify passes on what is new, or it ends and the search begins.
Committed ==
    /\ pc = "commit" /\ units = {} /\ StaticClosed
    /\ \/ pc' = "deliver" /\ UNCHANGED static
       \/ queue = {} /\ pc' = "propagate" /\ static' = used
    /\ UNCHANGED <<om, trail, used, assign, alevel, clauses, units, queue, calls, steps, added>>

-----------------------------------------------------------------------------
(* Propagation, in simplify (deliver, examine) and in the search.          *)

\* clasp derives a literal, or the static clauses are in conflict.
UnitPropagate ==
    /\ pc \in {"commit", "propagate"}
    /\ \/ /\ \E a \in used, sign \in {1, -1} :
               /\ assign[a] = 0
               /\ AssignAt(dl, Assigned(assign, {sign * a}))
               /\ queue' = queue \union {sign * a}
          /\ UNCHANGED pc
       \/ /\ \E c \in clauses : \A l \in c : IsFalse(l)
          /\ pc' = IF dl = 0 THEN "unsat" ELSE "conflict"
          /\ UNCHANGED <<assign, alevel, queue>>
    /\ UNCHANGED <<om, trail, used, static, clauses, units, calls, steps, added>>

Propagate ==
    /\ pc \in {"deliver", "propagate"}
    /\ \E l \in queue : Become(UpdateDomain(State, l), queue \ {l}, pc)
    /\ UNCHANGED <<used, static, clauses, calls, steps, added>>

\* Solver::check integrates facts before it propagates the constraints.
Check ==
    /\ \/ pc = "deliver"
       \/ pc = "propagate" /\ StaticClosed
    /\ queue = {}
    /\ Become(IntegrateFacts(State), {}, IF Preparing THEN "examine" ELSE "check")
    /\ UNCHANGED <<used, static, clauses, calls, steps, added>>

\* A constraint tightens the upper (t = 1) or lower (t = -1) bound. On level
\* 0 the literal of the new bound may become a fact at once.
Tighten ==
    /\ pc \in {"examine", "check"} /\ EnoughAtoms(1)
    /\ \E k \in Top.lo..(Top.up - 1), t \in {1, -1}, fact \in BOOLEAN :
         LET s == UpdateLiteral(Builder, k, IF fact THEN t ELSE 0)
             l == t * LitOf(s, k) IN
         /\ Become(Imply([State EXCEPT !.om = s.om], {l} \ {T}), queue, pc)
         /\ used' = s.used
    /\ UNCHANGED <<static, clauses, calls, steps, added>>

\* A clause that is not unit yet needs the literal of an open value.
Introduce ==
    /\ pc = "check" /\ dl > 0 /\ EnoughAtoms(1)
    /\ \E k \in Top.lo..(Top.up - 1) :
         LET s == GetLiteral(Builder, k) IN
         om' = s.om /\ used' = s.used
    /\ UNCHANGED <<trail, static, assign, alevel, clauses, units, queue, pc, calls, steps, added>>

\* calculate_reason_: a new literal for a weaker bound, implied by the
\* literal next to it, which must have been assigned on this level.
OnThisLevel(l) == Abs(l) # T /\ alevel[Abs(l)] = dl
\* The new literal is not implied.
IntroduceReason_Bug ==
    /\ pc = "check" /\ dl > 0 /\ EnoughAtoms(1)
    /\ \E k \in (MinBound..(MaxBound - 1)) \ DOMAIN om.lits :
         LET s == GetLiteral(Builder, k) IN
         /\ \/ k < Top.lo /\ OnThisLevel(LitSucc(om, k))
            \/ k >= Top.up /\ OnThisLevel(LitPrev(om, k))
         /\ om' = s.om /\ used' = s.used
    /\ UNCHANGED <<trail, static, assign, alevel, clauses, units, queue, pc, calls, steps, added>>
IntroduceReason ==
    /\ pc = "check" /\ dl > 0 /\ EnoughAtoms(1)
    /\ \E k \in (MinBound..(MaxBound - 1)) \ DOMAIN om.lits :
         LET s == GetLiteral(Builder, k)
             l == IF k < Top.lo THEN -LitOf(s, k) ELSE LitOf(s, k) IN
         /\ \/ k < Top.lo /\ OnThisLevel(LitSucc(om, k))
            \/ k >= Top.up /\ OnThisLevel(LitPrev(om, k))
         /\ Become(Imply([State EXCEPT !.om = s.om], {l}), queue, pc)
         /\ used' = s.used
    /\ UNCHANGED <<static, clauses, calls, steps, added>>

\* check loops while there are facts.
EndCheck ==
    /\ pc \in {"examine", "check"}
    /\ Become(IntegrateFacts(State), queue,
              IF om.factmap # <<>> THEN pc
              ELSE IF Preparing THEN "commit" ELSE IF queue # {} THEN "propagate" ELSE "fixpoint")
    /\ UNCHANGED <<used, static, clauses, calls, steps, added>>

-----------------------------------------------------------------------------
(* The search.                                                             *)

\* Solver::decide: with MaxChain the order literal furthest from the bound.
LitGe(value) ==
    LET from == {k \in DOMAIN om.lits : k >= value} IN
    IF from = {} THEN 0 ELSE om.lits[Min(from)]
LitLt(value) ==
    LET below == {k \in DOMAIN om.lits : k < value} IN
    IF below = {} THEN 0 ELSE om.lits[Max(below)]

Decision_Bug(fallback) ==
    IF MaxChain /\ Valid(om, fallback) THEN LitGe(MinBound)
    ELSE IF MaxChain /\ Valid(om, -fallback) THEN -LitLt(MaxBound)
    ELSE fallback

Decision(fallback) ==
    IF MaxChain /\ Valid(om, fallback) THEN LitGe(Top.lo)
    ELSE IF MaxChain /\ Valid(om, -fallback) THEN -LitLt(Top.up)
    ELSE fallback

\* clasp's own choices; if the heuristic returns 0 clasp decides itself.
Fallbacks == {sign * a : sign \in {1, -1}, a \in {b \in used : assign[b] = 0}}

Decide ==
    /\ pc = "fixpoint" /\ dl < MaxLevel
    /\ \E f \in Fallbacks :
         LET l == IF Decision(f) = 0 THEN f ELSE Decision(f) IN
         /\ AssignAt(dl + 1, Assigned(assign, {l}))
         /\ queue' = {l}
    /\ trail' = Append(trail, Top)
    /\ pc' = "propagate"
    /\ UNCHANGED <<om, used, static, clauses, units, calls, steps, added>>

\* Solver::check_full: a literal for the value in the middle.
CheckFull ==
    /\ pc = "fixpoint" /\ Fallbacks = {} /\ EnoughAtoms(1) /\ Top.lo < Top.up
    /\ LET s == GetLiteral(Builder, (Top.lo + Top.up) \div 2) IN
         om' = s.om /\ used' = s.used
    /\ pc' = "propagate"
    /\ UNCHANGED <<trail, static, assign, alevel, clauses, units, queue, calls, steps, added>>

Undo ==
    /\ pc \in {"propagate", "fixpoint", "conflict"} /\ dl > 0
    /\ trail' = SubSeq(trail, 1, Len(trail) - 1)
    /\ assign' = [a \in Atoms |-> IF assign[a] # 0 /\ alevel[a] = dl THEN 0 ELSE assign[a]]
    /\ alevel' = [a \in Atoms |-> IF alevel[a] = dl THEN 0 ELSE alevel[a]]
    /\ queue' = {}
    /\ pc' = "propagate"
    /\ UNCHANGED <<om, used, static, clauses, units, calls, steps, added>>

\* Solver::update at the start of the next solve step: the literals of the
\* last search are removed, together with the variables of clasp.
RemoveLocal_Bug(o, a) ==
    [UnsetLiteral(o, o.litmap[a].value) EXCEPT !.litmap = Without(@, a)]
RemoveLocal(o, a) ==
    LET p == UnsetLiteral(o, o.litmap[a].value) IN
    [Relink(p, 0, o.litmap[a].value) EXCEPT !.litmap = Without(@, a)]

RemoveLocals(o) ==
    LET run[a \in 1..program.atoms] ==
          IF a = 1 THEN o
          ELSE IF a \in DOMAIN o.litmap \ static THEN RemoveLocal(run[a - 1], a) ELSE run[a - 1] IN
    run[program.atoms]

NextStep ==
    /\ pc \in {"propagate", "fixpoint"} /\ dl = 0 /\ steps < MaxSteps
    /\ om' = RemoveLocals(om)
    /\ used' = static
    /\ assign' = [a \in Atoms |-> IF a \in static THEN assign[a] ELSE 0]
    /\ queue' = {assign[a] * a : a \in {b \in static : assign[b] # 0}}
    /\ pc' = "build" /\ calls' = 0 /\ steps' = steps + 1
    /\ UNCHANGED <<trail, static, alevel, clauses, units, added>>

Step ==
    \/ \E c \in Simples : AddSimple(c)
    \/ \E d \in Doms : AddDom(d)
    \/ \E b \in Shared : UpdateBounds(b)
    \/ BeginSimplify \/ Commit \/ Committed
    \/ UnitPropagate \/ Propagate \/ Check \/ Tighten \/ EndCheck
    \/ Introduce \/ IntroduceReason
    \/ Decide \/ CheckFull \/ Undo \/ NextStep

Next == Step /\ UNCHANGED program

Spec == Init /\ [][Next]_vars

-----------------------------------------------------------------------------
(* Properties.                                                             *)

Literals == LiteralsOf(Atoms)

\* The state is well-formed, bounds never cross, and only atoms that exist
\* in clasp occur in the order map.
TypeOK ==
    /\ DOMAIN om.lits \subseteq Lo..(Hi - 1)
    /\ \A k \in DOMAIN om.lits : Abs(om.lits[k]) \in used \union {T}
    /\ \A a \in DOMAIN om.litmap :
         /\ a \in used
         /\ om.litmap[a] \in [lit : {a, -a}, value : DOMAIN om.lits, prev : Literals, succ : Literals]
    /\ \A i \in DOMAIN om.factmap :
         om.factmap[i] \in [lit : {T, -T}, value : DOMAIN om.lits, prec : Literals]
    /\ \A i \in DOMAIN trail : Lo <= trail[i].lo /\ trail[i].lo <= trail[i].up /\ trail[i].up <= Hi
    /\ static \subseteq used /\ used \subseteq Atoms
    /\ assign \in [Atoms -> {-1, 0, 1}] /\ alevel \in [Atoms -> 0..dl]
    /\ queue \subseteq Literals /\ \A l \in queue : IsTrue(l)

AtFixpoint == pc = "fixpoint"

\* Every order literal that is not a fact is found from its literal, with
\* its value and both neighbours (check_litmap_).
LinksMatchMap ==
    /\ \A a \in DOMAIN om.litmap : LET e == om.litmap[a] IN
         /\ om.lits[e.value] = e.lit
         /\ e.prev = LitPrev(om, e.value) /\ e.succ = LitSucc(om, e.value)
    /\ \A k \in DOMAIN om.lits : Abs(om.lits[k]) = T \/ Valid(om, om.lits[k])

\* A bound above level 0 is the value of an order literal with the matching
\* truth value. The clause update_upper_ and update_lower_ add for crossing
\* bounds is therefore conflicting, and no literal is created for it.
BoundsHaveLiterals ==
    /\ Top.lo > MinBound =>
         Top.lo - 1 \in DOMAIN om.lits /\ (pc # "conflict" => IsFalse(om.lits[Top.lo - 1]))
    /\ Top.up < MaxBound =>
         Top.up \in DOMAIN om.lits /\ (pc # "conflict" => IsTrue(om.lits[Top.up]))

\* Once facts are integrated no literal is kept for them: at a fixpoint on
\* level 0 all order literals are free (so the values of literals stay
\* within the bounds of level 0, which the vector of literals relies on).
FactsRemoved == AtFixpoint /\ dl = 0 => \A k \in DOMAIN om.lits : Truth(assign, om.lits[k]) = 0

\* Facts are only gathered on level 0 (the assertions in check).
FactsOnTop == om.factmap # <<>> => dl = 0

\* The order map, the links between its literals, the facts gathered for
\* level 0 and the bounds agree, however literals are added, removed, turned
\* into facts and undone.
MapsConsistent ==
    TypeOK /\ LinksMatchMap /\ BoundsHaveLiterals /\ FactsRemoved /\ FactsOnTop

\* At a fixpoint the bounds are those the order literals stand for, and no
\* order literal decided by a bound of this level is free or contradicts it.
\* (On level 0 values outside the bounds can keep a free literal: a fact
\* remembers its neighbour, and a literal added between the two before check
\* is passed over.)
BoundsMatchLiterals ==
    AtFixpoint => \A k \in DOMAIN om.lits :
        /\ IsTrue(om.lits[k]) => Top.up <= k
        /\ IsFalse(om.lits[k]) => Top.lo > k
        /\ Top.up < MaxBound /\ k >= Top.up => IsTrue(om.lits[k])
        /\ Top.lo > MinBound /\ k < Top.lo => IsFalse(om.lits[k])

\* The literal chosen by the heuristic is free (the assertions in decide) if
\* the value of the literal it replaces is between the bounds of level 0.
DecisionIsFree ==
    AtFixpoint => \A f \in Fallbacks :
        \/ Abs(f) \in DOMAIN om.litmap /\ OutOfBounds(om.litmap[Abs(f)].value)
        \/ Decision(f) # 0 /\ Truth(assign, Decision(f)) = 0

Solved == AtFixpoint /\ Fallbacks = {} /\ Top.lo = Top.up

SimpleHolds(c, x) ==
    /\ IsTrue(c.clit) => c.co * x <= c.rhs
    /\ c.strict /\ IsFalse(c.clit) => c.co * x > c.rhs
DomHolds(d, x) == IsTrue(d.lit) => \E i \in DOMAIN d.dom : d.dom[i][1] <= x /\ x < d.dom[i][2]

SimplesHold == Solved => \A c \in added \intersect Simples : SimpleHolds(c, Top.lo)

DomsHold == Solved => \A d \in added \intersect Doms : DomHolds(d, Top.lo)

\* A solution satisfies every constraint passed to add_simple, in both
\* directions if it is strict, and is in every domain passed to add_dom.
AddedHold == SimplesHold /\ DomsHold
=============================================================================
