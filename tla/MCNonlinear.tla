---------------------------- MODULE MCNonlinear ------------------------------
\* An instance of Nonlinear with a negative coefficient of z: 2xx - 2z <= 1.
\* The second variable does not occur.
EXTENDS Nonlinear

MCStarts == {[kind |-> "nonlinear", lo |-> <<-2, 0, -2>>, up |-> <<2, 0, 2>>, clit |-> "true",
              x |-> 1, y |-> 1, z |-> 3, co_a |-> 2, co_b |-> -2, rhs |-> 1]}
=============================================================================
