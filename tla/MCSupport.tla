------------------------------ MODULE MCSupport ------------------------------
\* Three independent parts, one of which is chosen by the first state:
\* interval sets with ends in a small range, the C interface, and objectives
\* with several threads.
EXTENDS IntervalSet, TheoryInterface, Objective

CONSTANTS Parts        \* the parts to choose from

VARIABLES part

MCEnds == -3 .. 4

-----------------------------------------------------------------------------
(* Objectives over two variables.                                          *)

Assignments == [1 .. 2 -> -1 .. 1]
Different == {s \in Assignments : s[1] # s[2]}
Large == {s \in Assignments : s[1] + s[2] >= 1}

Statement(factor, elems, sols) == [factor |-> factor, elems |-> elems, solutions |-> sols]
X(co) == Mono(co, <<1>>)
Y(co) == Mono(co, <<2>>)
Const(co) == Mono(co, <<>>)

(* One step with constants and repeated variables.                         *)
OneStep ==
  { Statement(1, << X(1), Const(2), Y(-1) >>, Different),
    Statement(-1, << X(1), X(1), Y(1), Const(1) >>, Large),
    Statement(1, << X(1), X(-1) >>, Assignments),
    Statement(1, << Y(1) >>, {}) }

(* Two steps, and three steps with constants in each of them.              *)
FirstStep == { Statement(1, << X(1), Y(-1) >>, Different), Statement(-1, << Y(2) >>, Large) }
SecondStep == FirstStep \cup { Statement(1, << >>, Large) }

ThreeSteps ==
  << Statement(1, << X(1), Const(1) >>, Different), Statement(-1, << Y(1), Const(2) >>, Large),
     Statement(1, << X(1), Y(-1), Const(1) >>, Different) >>

MCPrograms == {<< p >> : p \in OneStep} \cup FirstStep \X SecondStep \cup {ThreeSteps}

ASSUME ObjectivesFit == ObjectiveAssumption

NoObjective ==
  /\ program = <<>> /\ step = 0 /\ solutions = {} /\ con = None /\ bound = NoBound /\ lock = {}
  /\ pc = [t \in SearchThreads |-> "done"] /\ cand = [t \in SearchThreads |-> <<>>]
  /\ seen = [t \in SearchThreads |-> NoBound] /\ stated = <<>> /\ shown = <<>>

-----------------------------------------------------------------------------
(* The C interface with two options and two threads.                       *)

MCTargets == {"heuristic", "sign"}
MCValues == [heuristic |-> {"none", "max-chain"}, sign |-> {0, 1}]
MCInitial == [heuristic |-> "none", sign |-> 0]

-----------------------------------------------------------------------------
(* Parts that are not chosen stay in their initial states.                 *)
SupportInit ==
  /\ part \in Parts
  /\ Init /\ InterfaceInit
  /\ IF part = "objective" THEN ObjectiveInit ELSE NoObjective

SupportNext ==
  \/ part = "intervals" /\ Next /\ UNCHANGED <<part, objectiveVars, interfaceVars>>
  \/ part = "objective" /\ ObjectiveNext /\ UNCHANGED <<part, vars, interfaceVars>>
  \/ part = "interface" /\ InterfaceNext /\ UNCHANGED <<part, vars, objectiveVars>>

SupportSpec == SupportInit /\ [][SupportNext]_<<part, vars, objectiveVars, interfaceVars>> /\ Fairness

=============================================================================
