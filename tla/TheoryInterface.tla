--------------------------- MODULE TheoryInterface ---------------------------
(***************************************************************************)
(* The C interface of the theory: options that are collected and applied,  *)
(* registration of the propagator, the lists of configurations and         *)
(* statistics that grow with the threads, and the iteration over the       *)
(* assignment. There may be several theories in a process.                 *)
(***************************************************************************)
EXTENDS Integers, Sequences, FiniteSetsExt

CONSTANTS
    Theories,
    Targets,        \* options with a value per thread, "heuristic" is one of them
    OptionValues,         \* the values of each target
    Initial,        \* the values before options are given
    NumThreads,
    NumVars,
    MaxCalls,       \* bounds the calls that set options
    MaxCounts       \* bounds the events that are counted

ASSUME InterfaceAssumption ==
    NumThreads \in Nat /\ Initial = [t \in Targets |-> Initial[t]]

VARIABLES
    deferred,       \* options of the command line: target and thread to value
    config,         \* [default, solvers]: default_solver_config, solver_configs
    emptyRange,     \* min-int > max-int
    phase,          \* options, ready, registered or failed
    propagator,     \* the static variable with the callbacks for clingo
    decides,        \* whether clingo got the decide callback for the theory
    stats,          \* [step, accu]: the statistics of the solvers
    counted,        \* the events counted for each thread so far
    named, index,   \* variables with a name, and the position of an iteration
    visited,        \* the named variables visited
    calls

interfaceVars == <<deferred, config, emptyRange, phase, propagator, decides, stats, counted,
                   named, index, visited, calls>>
optionVars == <<deferred, config, emptyRange, phase, calls>>
registerVars == <<propagator, decides>>
statsVars == <<stats, counted>>
iterationVars == <<named, index, visited>>

Threads == 0..(NumThreads - 1)
All == NumThreads    \* no thread given
NotIterating == -1

-----------------------------------------------------------------------------
(* The lists for solvers are extended up to a thread when one is needed.   *)

Extended(list, i, new) == list \o [n \in 1..(i + 1 - Len(list)) |-> new]

SolverConfig(c, i) == [c EXCEPT !.solvers = Extended(@, i, c.default)]
SolverStats(list, i) == Extended(list, i, 0)

SetAll_Bug(c, t, v) == [c EXCEPT !.default[t] = v]
SetAll(c, t, v) ==
    [default |-> [c.default EXCEPT ![t] = v],
     solvers |-> [n \in DOMAIN c.solvers |-> [c.solvers[n] EXCEPT ![t] = v]]]
SetThread(c, t, i, v) == [SolverConfig(c, i) EXCEPT !.solvers[i + 1][t] = v]
SetValue(c, t, who, v) == IF who = All THEN SetAll(c, t, v) ELSE SetThread(c, t, who, v)

(* The deferred options are applied in two rounds.                         *)
Round(c, options, keys) == FoldSet(LAMBDA k, d : SetValue(d, k[1], k[2], options[k]), c, keys)
ApplyDeferred(c, options) ==
    LET all == {k \in DOMAIN options : k[2] = All}
    IN  Round(Round(c, options, all), options, DOMAIN options \ all)

-----------------------------------------------------------------------------
InterfaceInit ==
    /\ deferred = [h \in Theories |-> <<>>]
    /\ config = [h \in Theories |-> [default |-> Initial, solvers |-> <<>>]]
    /\ emptyRange = [h \in Theories |-> FALSE]
    /\ phase = [h \in Theories |-> "options"]
    /\ propagator = "unset"
    /\ decides = [h \in Theories |-> FALSE]
    /\ stats = [h \in Theories |-> [step |-> <<>>, accu |-> <<>>]]
    /\ counted = [h \in Theories |-> [i \in Threads |-> 0]]
    /\ named = {} /\ index = NotIterating /\ visited = <<>>
    /\ calls = 0

Calling == calls < MaxCalls /\ calls' = calls + 1

(* An option of the command line, which fails if it is given again.        *)
ParseOption(h, t, who, v) ==
    /\ phase[h] = "options" /\ Calling
    /\ IF <<t, who>> \in DOMAIN deferred[h]
       THEN phase' = [phase EXCEPT ![h] = "failed"] /\ UNCHANGED deferred
       ELSE /\ deferred' = [deferred EXCEPT ![h] =
                 [k \in DOMAIN @ \union {<<t, who>>} |-> IF k = <<t, who>> THEN v ELSE @[k]]]
            /\ UNCHANGED phase
    /\ UNCHANGED <<config, emptyRange, registerVars, statsVars, iterationVars>>

SetRange(h, empty) ==
    /\ phase[h] = "options" /\ Calling
    /\ emptyRange' = [emptyRange EXCEPT ![h] = empty]
    /\ UNCHANGED <<deferred, config, phase, registerVars, statsVars, iterationVars>>

(* configure takes effect at once; it is to be called before registration. *)
Configure(h, t, who, v) ==
    /\ phase[h] \in {"options", "ready"} /\ Calling
    /\ config' = [config EXCEPT ![h] = SetValue(@, t, who, v)]
    /\ UNCHANGED <<deferred, emptyRange, phase, registerVars, statsVars, iterationVars>>

ValidateOptions(h) ==
    /\ phase[h] = "options"
    /\ config' = [config EXCEPT ![h] = ApplyDeferred(@, deferred[h])]
    /\ deferred' = [deferred EXCEPT ![h] = <<>>]
    /\ phase' = [phase EXCEPT ![h] = IF emptyRange[h] THEN "failed" ELSE "ready"]
    /\ UNCHANGED <<emptyRange, calls, registerVars, statsVars, iterationVars>>

HasHeuristic(c) ==
    c.default["heuristic"] # "none" \/ \E n \in DOMAIN c.solvers : c.solvers[n]["heuristic"] # "none"

(* The static variable is initialised by the first call in the process.    *)
Callbacks(c) == IF propagator # "unset" THEN propagator
                ELSE IF HasHeuristic(c) THEN "with decide" ELSE "without"
Register(h) ==
    /\ phase[h] = "ready"
    /\ phase' = [phase EXCEPT ![h] = "registered"]
    /\ propagator' = Callbacks(config[h])
    /\ decides' = [decides EXCEPT ![h] = propagator' = "with decide"]
    /\ UNCHANGED <<deferred, config, emptyRange, calls, statsVars, iterationVars>>

(* init: threads get their solvers in order, with configuration and        *)
(* statistics.                                                             *)
StartThreads(h, i) ==
    /\ phase[h] = "registered" /\ index = NotIterating
    /\ config' = [config EXCEPT ![h] = SolverConfig(@, i)]
    /\ stats' = [stats EXCEPT ![h].step = SolverStats(@, i)]
    /\ UNCHANGED <<deferred, emptyRange, phase, calls, registerVars, counted, iterationVars>>

Count(h, i) ==
    /\ i < Len(stats[h].step) /\ counted[h][i] < MaxCounts
    /\ stats' = [stats EXCEPT ![h].step[i + 1] = @ + 1]
    /\ counted' = [counted EXCEPT ![h][i] = @ + 1]
    /\ UNCHANGED <<optionVars, registerVars, iterationVars>>

(* on_statistics: accumulate those of the step, elements are added if      *)
(* there are more solvers than before, and reset them.                     *)
Accumulated_Bug(accu, step) == [n \in DOMAIN accu |-> accu[n] + IF n \in DOMAIN step THEN step[n] ELSE 0]
Accumulated(accu, step) ==
    [n \in DOMAIN accu |-> accu[n] + IF n \in DOMAIN step THEN step[n] ELSE 0]
      \o SubSeq(step, Len(accu) + 1, Len(step))
Reset(list) == [n \in DOMAIN list |-> 0]
OnStatistics(h) ==
    /\ phase[h] = "registered" /\ index = NotIterating
    /\ stats' = [stats EXCEPT ![h] = [accu |-> Accumulated(@.accu, @.step), step |-> Reset(@.step)]]
    /\ UNCHANGED <<optionVars, registerVars, counted, iterationVars>>

-----------------------------------------------------------------------------
(* The iteration over the assignment. Indices are one larger than          *)
(* variables, and those of variables without a name have no value.         *)

AssignmentBegin(vs) ==
    /\ index = NotIterating /\ \E h \in Theories : phase[h] = "registered"
    /\ named' = vs /\ index' = 0 /\ visited' = <<>>
    /\ UNCHANGED <<optionVars, registerVars, statsVars>>

HasNext_Bug == index \in named
HasNext == \E v \in named : v >= index
HasValue(i) == i - 1 \in named
AssignmentNext ==
    /\ index # NotIterating /\ HasNext
    /\ index' = index + 1
    /\ visited' = IF HasValue(index') THEN Append(visited, index' - 1) ELSE visited
    /\ UNCHANGED <<named, optionVars, registerVars, statsVars>>

AssignmentEnd ==
    /\ index # NotIterating /\ ~HasNext
    /\ index' = NotIterating /\ named' = {} /\ visited' = <<>>
    /\ UNCHANGED <<optionVars, registerVars, statsVars>>

Options(h) == \E t \in Targets, who \in Threads \union {All} : \E v \in OptionValues[t] :
                ParseOption(h, t, who, v) \/ Configure(h, t, who, v)

InterfaceNext ==
    \/ \E h \in Theories :
         \/ Options(h) \/ ValidateOptions(h) \/ Register(h) \/ OnStatistics(h)
         \/ \E empty \in BOOLEAN : SetRange(h, empty)
         \/ \E i \in Threads : StartThreads(h, i) \/ Count(h, i)
    \/ \E vs \in SUBSET (0..(NumVars - 1)) : AssignmentBegin(vs)
    \/ AssignmentNext \/ AssignmentEnd

InterfaceSpec == InterfaceInit /\ [][InterfaceNext]_interfaceVars

-----------------------------------------------------------------------------
Effective(h) == [t \in Targets |-> [i \in Threads |->
    IF i < Len(config[h].solvers) THEN config[h].solvers[i + 1][t] ELSE config[h].default[t]]]

Promised == INSTANCE ThreadConfig WITH
    given <- deferred, effective <- [h \in Theories |-> Effective(h)]

\* The lists of configurations that grow on demand hide nothing from the
\* user: options for a thread win over those for all threads, in whichever
\* order they are given, and calls take effect one after the other for the
\* threads that are there and those that will be.
ImplementsThreadConfig == Promised!Spec

\* No event is lost or counted twice when the number of threads changes
\* between solve steps.
StatisticsAddUp ==
    \A h \in Theories, i \in Threads :
        LET At(list) == IF i < Len(list) THEN list[i + 1] ELSE 0
        IN  At(stats[h].accu) + At(stats[h].step) = counted[h][i]

\* An iteration visits every variable with a name once and in order.
AssignmentComplete ==
    (index # NotIterating /\ ~HasNext) =>
        /\ {visited[n] : n \in DOMAIN visited} = named
        /\ \A m, n \in DOMAIN visited : m < n => visited[m] < visited[n]

\* The help of the option order-heuristic: a theory registered with a
\* heuristic assigns chains of literals.
HeuristicActive ==
    \A h \in Theories : phase[h] = "registered" /\ HasHeuristic(config[h]) => decides[h]
=============================================================================
