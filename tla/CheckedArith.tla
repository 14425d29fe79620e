---------------------------- MODULE CheckedArith ----------------------------
(***************************************************************************)
(* The checked arithmetic of util.hh on two's complement integers with the *)
(* largest value m. An operation is guarded by a test that must not        *)
(* overflow itself; what an operation without it would give is wrapped.    *)
(***************************************************************************)
EXTENDS Integers, Sums

Lowest(m) == -m - 1
Ints(m) == Lowest(m)..m
Wrapped(m, n) == ((n - Lowest(m)) % (2 * (m + 1))) + Lowest(m)

AddFits(m, a, b) ==
    /\ b > 0 => a <= m - b
    /\ b < 0 => a >= Lowest(m) - b

SubFits(m, a, b) ==
    /\ b > 0 => a >= Lowest(m) + b
    /\ b < 0 => a <= m + b

MulFits(m, a, b) ==
    /\ a > 0 /\ b > 0 => a <= TruncDiv(m, b)
    /\ a > 0 /\ b <= 0 => b >= TruncDiv(Lowest(m), a)
    /\ a <= 0 /\ b > 0 => a >= TruncDiv(Lowest(m), b)
    /\ a < 0 /\ b <= 0 => b >= TruncDiv(m, a)

DivFits_Bug(m, a, b) == b # 0
DivFits(m, a, b) == b # 0 /\ ~(a = Lowest(m) /\ b = -1)
ModFits(m, a, b) == DivFits(m, a, b)

InvFits(m, a) == a # Lowest(m)

\* The sign of the remainder is that of the dividend.
TruncMod(a, b) == a - TruncDiv(a, b) * b

\* check_valid_value
ValidValue(m, a) == -m <= a /\ a <= m
=============================================================================
