----------------------------- MODULE BoundTrail -----------------------------
(***************************************************************************)
(* What the bound bookkeeping of a Solver promises: the bounds of every    *)
(* decision level, of which only those of the deepest level change, and    *)
(* only by getting tighter.  A new level starts with the bounds of the one *)
(* below, and going back restores exactly the bounds that level had.       *)
(***************************************************************************)
EXTENDS Integers

CONSTANTS NumVars, InitLower, InitUpper

VARIABLE bounds   \* bounds[l]: bounds lo and up of all variables on level l

Depth == CHOOSE d \in DOMAIN bounds : \A e \in DOMAIN bounds : e <= d

Init == bounds = [l \in {0} |-> [lo |-> InitLower, up |-> InitUpper]]

NewLevel ==
    bounds' = [l \in 0..(Depth + 1) |-> bounds[IF l > Depth THEN Depth ELSE l]]

Tighten(v) ==
    \E lo \in bounds[Depth].lo[v]..bounds[Depth].up[v],
       up \in bounds[Depth].lo[v]..bounds[Depth].up[v] :
      /\ lo <= up
      /\ bounds' = [bounds EXCEPT ![Depth].lo[v] = lo, ![Depth].up[v] = up]

Backtrack == Depth > 0 /\ bounds' = [l \in 0..(Depth - 1) |-> bounds[l]]

Next == NewLevel \/ Backtrack \/ \E v \in 1..NumVars : Tighten(v)

Spec == Init /\ [][Next]_bounds
=============================================================================
