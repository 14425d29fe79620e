-------------------------------- MODULE Sums --------------------------------
(***************************************************************************)
(* Sums over the variables of a solver and the rounded division of         *)
(* util.hh.  Variables are indices (var_t), a constraint gives each        *)
(* variable a coefficient, zero where the variable does not occur.  Sum is *)
(* a recursive function and not a RECURSIVE operator, so that the modules  *)
(* using it can be proved about.                                           *)
(***************************************************************************)
EXTENDS Integers

\* PrefixSum(n, f)[i] = f[1] + ... + f[i]
PrefixSum(n, f) ==
    LET s[i \in 0..n] == IF i = 0 THEN 0 ELSE s[i - 1] + f[i]
    IN  s

Sum(n, f) == PrefixSum(n, f)[n]

\* std::div: the quotient is rounded towards zero.
TruncDiv(a, b) ==
    LET abs(i) == IF i < 0 THEN -i ELSE i
        q      == abs(a) \div abs(b)
    IN  IF (a < 0) = (b < 0) THEN q ELSE -q

\* floordiv and ceildiv as written: correct the truncated quotient by one
\* when the signs differ and there is a remainder.
floordiv(n, m) ==
    IF (n < 0) # (m < 0) /\ n # TruncDiv(n, m) * m
    THEN TruncDiv(n, m) - 1
    ELSE TruncDiv(n, m)

ceildiv(n, m) ==
    IF (n < 0) # (m < 0) /\ n # TruncDiv(n, m) * m
    THEN TruncDiv(n, m) + 1
    ELSE TruncDiv(n, m)
=============================================================================
