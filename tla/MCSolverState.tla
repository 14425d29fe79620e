--------------------------- MODULE MCSolverState ----------------------------
(***************************************************************************)
(* Instances of SolverState for TLC.                                       *)
(***************************************************************************)
EXTENDS SolverState

\* Two variables, a fact x - 2y <= 1 and a constraint -x + y <= -1 with a
\* literal.
SatCoef == [c1 |-> <<1, -2>>, c2 |-> <<-1, 1>>]
SatRhs == [c1 |-> 1, c2 |-> -1]
SatLower == <<0, 0>>
SatUpper == <<3, 1>>

\* The objective x - y with a constraint -2x + y <= 0 on two small variables.
MinCoef == [c1 |-> <<-2, 1>>, min |-> <<1, -1>>]
MinRhs == [c1 |-> 0, min |-> 0]
MinLower == <<0, 0>>
MinUpper == <<2, 1>>
MinObjectives == {1}
=============================================================================
