--------------------------- MODULE TermArithmetic ---------------------------
(***************************************************************************)
(* Integers in terms: evaluate applies operators to numbers of type val_t, *)
(* and simplify adds the coefficients of a sum in val_t and makes sure     *)
(* that sums of type sum_t never overflow later, whatever the values of    *)
(* the variables are.                                                      *)
(***************************************************************************)
EXTENDS CheckedArith, Sequences

CONSTANTS
    ValLimit,     \* the largest val_t
    SumLimit,     \* the largest sum_t
    Numbers,      \* the numbers in terms
    VarCount,     \* the variables 1 .. VarCount; 0 stands for none
    MaxLen        \* bounds the operators of a term and the elements of a sum

ASSUME ArithmeticAssumption ==
    /\ ValLimit \in Nat /\ SumLimit \in Nat /\ VarCount \in Nat
    /\ ValLimit <= SumLimit
    /\ Numbers \subseteq Ints(ValLimit)

\* MAX_VAL
MaxVal == ValLimit \div 2

VARIABLES
    pc,           \* evaluate, simplify, remove, check, accepted or rejected
    len,          \* how many numbers have been read
    acc,          \* the value of the term so far
    exact,        \* the same with integers of any size
    kept,         \* the elements of the sum: coefficients with variables
    rhs,
    min, max,     \* bounds of rhs plus the elements checked
    checked       \* the number of elements checked

arithmeticVars == <<pc, len, acc, exact, kept, rhs, min, max, checked>>
termVars == <<acc, exact>>
sumVars == <<kept, rhs, min, max, checked>>

ArithmeticInit ==
    /\ pc \in {"evaluate", "simplify"} /\ len = 0
    /\ acc = 0 /\ exact = 0
    /\ kept = <<>> /\ rhs = 0 /\ min = 0 /\ max = 0 /\ checked = 0

-----------------------------------------------------------------------------
(* evaluate, for terms whose right arguments are numbers.                  *)

Power(a, n) == LET p[i \in 0..n] == IF i = 0 THEN 1 ELSE a * p[i - 1] IN p[n]
\* safe_pow computes with doubles and rounds 1 / a^n towards zero.
Raised(a, b) == IF b >= 0 THEN Power(a, b) ELSE TruncDiv(1, Power(a, -b))

Exactly(op, a, b) ==
    CASE op = "+" -> a + b [] op = "-" -> a - b [] op = "*" -> a * b
      [] op = "/" -> TruncDiv(a, b) [] op = "mod" -> TruncMod(a, b)
      [] op = "**" -> Raised(a, b) [] op = "neg" -> -a

\* Zero cannot be raised, not even to a positive power.
Fits(op, a, b) ==
    CASE op = "+" -> AddFits(ValLimit, a, b) [] op = "-" -> SubFits(ValLimit, a, b)
      [] op = "*" -> MulFits(ValLimit, a, b) [] op = "/" -> DivFits(ValLimit, a, b)
      [] op = "mod" -> ModFits(ValLimit, a, b)
      [] op = "**" -> a # 0 /\ Raised(a, b) \in Ints(ValLimit)
      [] op = "neg" -> InvFits(ValLimit, a)

Number ==
    /\ pc = "evaluate" /\ len = 0
    /\ \E a \in Numbers : acc' = a /\ exact' = a
    /\ len' = 1
    /\ UNCHANGED <<pc, sumVars>>

Operator(op) ==
    /\ pc = "evaluate" /\ len \in 1..MaxLen
    /\ \E b \in Numbers :
         IF Fits(op, acc, b)
         THEN /\ acc' = Wrapped(ValLimit, Exactly(op, acc, b))
              /\ exact' = Exactly(op, exact, b)
              /\ UNCHANGED pc
         ELSE /\ pc' = "rejected"
              /\ UNCHANGED termVars
    /\ len' = len + 1
    /\ UNCHANGED sumVars

-----------------------------------------------------------------------------
(* simplify                                                                *)

Reject == pc' = "rejected" /\ UNCHANGED sumVars

\* An element without a variable goes to the right hand side.
ReadConstant(co) ==
    IF SubFits(ValLimit, rhs, co)
    THEN rhs' = Wrapped(ValLimit, rhs - co) /\ UNCHANGED <<pc, kept, min, max, checked>>
    ELSE Reject

\* One with a known variable is added to the first element with it.
ReadKnown(co, n) ==
    IF AddFits(ValLimit, kept[n].co, co)
    THEN /\ kept' = [kept EXCEPT ![n].co = Wrapped(ValLimit, @ + co)]
         /\ UNCHANGED <<pc, rhs, min, max, checked>>
    ELSE Reject

ReadNew(co, v) == kept' = Append(kept, [co |-> co, var |-> v]) /\ UNCHANGED <<pc, rhs, min, max, checked>>

Read(co, v) ==
    /\ pc = "simplify" /\ len < MaxLen
    /\ len' = len + 1
    /\ \/ co = 0 /\ UNCHANGED <<pc, sumVars>>
       \/ co # 0 /\ v = 0 /\ ReadConstant(co)
       \/ co # 0 /\ v # 0 /\ \E n \in DOMAIN kept : kept[n].var = v /\ ReadKnown(co, n)
       \/ co # 0 /\ v # 0 /\ (\A n \in DOMAIN kept : kept[n].var # v) /\ ReadNew(co, v)
    /\ UNCHANGED termVars

EndRead ==
    /\ pc = "simplify"
    /\ pc' = "remove"
    /\ UNCHANGED <<len, sumVars, termVars>>

\* remove_if, one element after the other.
Without(s, i) == [n \in 1..(Len(s) - 1) |-> IF n < i THEN s[n] ELSE s[n + 1]]

RemoveZero ==
    /\ pc = "remove"
    /\ \E i \in 1..Len(kept) : kept[i].co = 0 /\ kept' = Without(kept, i)
    /\ UNCHANGED <<pc, len, rhs, min, max, checked, termVars>>

EndRemove ==
    /\ pc = "remove" /\ \A i \in 1..Len(kept) : kept[i].co # 0
    /\ IF ValidValue(MaxVal, rhs)
       THEN pc' = "check" /\ min' = rhs /\ max' = rhs
       ELSE pc' = "rejected" /\ UNCHANGED <<min, max>>
    /\ UNCHANGED <<len, kept, rhs, checked, termVars>>

\* The least and the greatest value of an element, products in sum_t.
LeastOf_Bug(co) == co * (-MaxVal)
LeastOf(co) == co * (IF co > 0 THEN -MaxVal ELSE MaxVal)
GreatestOf(co) == co * (IF co > 0 THEN MaxVal ELSE -MaxVal)

CheckElement ==
    /\ pc = "check" /\ checked < Len(kept)
    /\ LET co == kept[checked + 1].co
       IN  IF /\ ValidValue(MaxVal, co)
              /\ MulFits(SumLimit, co, IF co > 0 THEN -MaxVal ELSE MaxVal)
              /\ MulFits(SumLimit, co, IF co > 0 THEN MaxVal ELSE -MaxVal)
              /\ AddFits(SumLimit, min, LeastOf(co)) /\ AddFits(SumLimit, max, GreatestOf(co))
           THEN /\ min' = min + LeastOf(co) /\ max' = max + GreatestOf(co)
                /\ checked' = checked + 1
                /\ UNCHANGED <<pc, kept, rhs>>
           ELSE Reject
    /\ UNCHANGED <<len, termVars>>

Accept ==
    /\ pc = "check" /\ checked = Len(kept)
    /\ pc' = "accepted"
    /\ UNCHANGED <<len, termVars, sumVars>>

Operators == {"+", "-", "*", "/", "mod", "**", "neg"}

ArithmeticNext ==
    \/ Number \/ \E op \in Operators : Operator(op)
    \/ \E co \in Numbers, v \in 0..VarCount : Read(co, v)
    \/ EndRead \/ RemoveZero \/ EndRemove \/ CheckElement \/ Accept

ArithmeticSpec == ArithmeticInit /\ [][ArithmeticNext]_arithmeticVars

-----------------------------------------------------------------------------
\* The value of a term is its value with integers of any size: what does not
\* fit is rejected before it is computed.
EvaluationExact == acc = exact /\ acc \in Ints(ValLimit)

\* The sum of the first k elements.
Products(x) == [n \in 1..Len(kept) |-> kept[n].co * x[n]]
Partial(x, k) == PrefixSum(Len(kept), Products(x))[k]

\* Sums that were accepted never overflow: all partial sums, with and without
\* the right hand side, fit for all values of the variables, as do negated ones.
AcceptedSumsFit ==
    pc = "accepted" =>
      \A x \in [1..Len(kept) -> -MaxVal..MaxVal] : \A k \in 0..Len(kept) :
        /\ Partial(x, k) \in Ints(SumLimit)
        /\ rhs - Partial(x, k) \in Ints(SumLimit)
=============================================================================
