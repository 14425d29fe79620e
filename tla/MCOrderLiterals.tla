-------------------------- MODULE MCOrderLiterals --------------------------
(* Programs over one variable with values 0 .. 3.                          *)
EXTENDS OrderLiterals

Simple(clit, co, rhs, strict) == [clit |-> clit, co |-> co, rhs |-> rhs, strict |-> strict]
Dom(lit, dom) == [lit |-> lit, dom |-> dom]

Search == [atoms |-> 5, clits |-> {2, 3}, facts |-> {}, simples |-> {}, doms |-> {},
           shared |-> {}, chain |-> TRUE, calls |-> 2, levels |-> 1, steps |-> 1]

(* Constraint literals shared by several constraints:                      *)
(* x <= 1 <-> a, 2x <= 5 <-> a, -x <= -2 <-> b, x >= 2 (-2x <= -3) if a.   *)
SharedLiterals ==
  [Search EXCEPT !.chain = FALSE,
     !.simples = {Simple(2, 1, 1, TRUE), Simple(2, 2, 5, TRUE), Simple(3, -1, -2, TRUE), Simple(2, -2, -3, FALSE)}]

(* A longer search: x <= 2 <-> a.                                          *)
Deep == [Search EXCEPT !.calls = 1, !.levels = 2, !.simples = {Simple(2, 1, 2, TRUE)}]

(* Facts, domains and bounds of other threads; with the fact b: x <= 2 and *)
(* x >= 1; x <= 1 <-> a; x in {0, 2} if a, x in {1}.                       *)
Facts ==
  [Search EXCEPT !.atoms = 13, !.facts = {3},
     !.simples = {Simple(3, 1, 2, TRUE), Simple(3, -1, -1, FALSE), Simple(2, 1, 1, TRUE)},
     !.doms = {Dom(2, <<<<0, 1>>, <<2, 3>>>>), Dom(3, <<<<1, 2>>>>)},
     !.shared = {[lo |-> 1, up |-> 3], [lo |-> 0, up |-> 1]}]

(* Two solve steps: 2x <= 3 <-> a.                                         *)
TwoSteps ==
  [Search EXCEPT !.atoms = 4, !.clits = {2}, !.calls = 1, !.steps = 2,
     !.simples = {Simple(2, 2, 3, TRUE)}]

MCPrograms == {SharedLiterals, Deep, Facts, TwoSteps}

(* What the theorem on solutions assumes of the programs.                  *)
ASSUME ProgramsApart == KindsApart
=============================================================================
