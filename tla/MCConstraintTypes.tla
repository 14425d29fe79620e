-------------------------- MODULE MCConstraintTypes --------------------------
\* Instances of the three constraint types over three variables.
EXTENDS ConstraintTypes

-----------------------------------------------------------------------------
(* Three intervals of total length four. Positions 0..3 for a fact; the    *)
(* second interval at position 0 for a literal that may be free.           *)

MCWeight == <<2, 1, 1>>
Intervals(lo, up, lit) == [kind |-> "disjoint", lo |-> lo, up |-> up, clit |-> lit]
DisjointStarts == {Intervals(<<0, 0, 1>>, <<1, 2, 3>>, "true"),
                   Intervals(<<0, 0, 1>>, <<1, 0, 3>>, "free")}

-----------------------------------------------------------------------------
(* 2xy + 3z <= 1 and 2xx + 3z <= 4. In the second one a variable that does *)
(* not occur is fixed.                                                     *)

ProductStart(lo, up, y, co_a, co_b, rhs) ==
    [kind |-> "nonlinear", lo |-> lo, up |-> up, clit |-> "free",
     x |-> 1, y |-> y, z |-> 3, co_a |-> co_a, co_b |-> co_b, rhs |-> rhs]
ProductStarts == {ProductStart(<<-1, -1, -1>>, <<1, 1, 1>>, 2, 2, 3, 1),
                  ProductStart(<<-2, 0, -1>>, <<2, 0, 1>>, 1, 2, 3, 4)}

-----------------------------------------------------------------------------
(* Three elements: x, -y + 2 and x + y + z - 1. In the first start z is 0; *)
(* in the second one the first two elements are the constant 1.            *)

MCElems == 1..3
MCCoef == <<<<1, 0, 0>>, <<0, -1, 0>>, <<1, 1, 1>>>>
MCFixed == <<0, 2, -1>>
ElementStart(lo, up) == [kind |-> "distinct", lo |-> lo, up |-> up, clit |-> "free"]
ElementStarts == {ElementStart(<<0, 0, 0>>, <<2, 1, 0>>), ElementStart(<<1, 1, -1>>, <<1, 1, 1>>)}

MCStarts == DisjointStarts \union ProductStarts \union ElementStarts
=============================================================================
