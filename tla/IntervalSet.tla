----------------------------- MODULE IntervalSet -----------------------------
(***************************************************************************)
(* The interval set of util.hh, which represents domains and term values:  *)
(* a map from the left to the right ends of half-open intervals.  add is a *)
(* loop that walks from the right end of the new interval to the left and  *)
(* merges the intervals it meets, one per step.                            *)
(***************************************************************************)
EXTENDS Integers

CONSTANT Ends  \* the ends of intervals, a set of integers

ASSUME EndsAssumption == Ends \subseteq Int

Idle == <<>>

VARIABLES map,     \* the intervals, a set of pairs of ends
          work,    \* the interval being added and the position of the loop
          covered  \* what has been added: the values the set stands for

vars == <<map, work, covered>>

Left(p) == p[1]
Right(p) == p[2]
Values(p) == Left(p) .. Right(p) - 1

(* The interval before the first one that starts at n or later.            *)
Before(m, n) == {p \in m : Left(p) < n}
IsLast(p, S) == p \in S /\ \A q \in S : Left(q) <= Left(p)

-----------------------------------------------------------------------------
(* The queries look at one interval only.                                  *)

Contains(m, a, b) ==
  \E p \in m : IsLast(p, Before(m, b)) /\ Left(p) <= a /\ b <= Right(p)

Intersects_Bug(m, a, b) ==
  a < b /\ \E p \in m : IsLast(p, Before(m, b)) /\ a <= Right(p)
Intersects(m, a, b) ==
  a < b /\ \E p \in m : IsLast(p, Before(m, b)) /\ a < Right(p)

ContainsValue(m, a) ==
  \E p \in m : IsLast(p, Before(m, a + 1)) /\ a < Right(p)

-----------------------------------------------------------------------------
Init == map = {} /\ work = Idle /\ covered = {}

NonEmpty(a, b) == a < b

(* The loop starts at upper_bound(b), behind the intervals that start at b *)
(* or earlier.                                                             *)
Add ==
  /\ work = Idle
  /\ \E a, b \in Ends :
       IF NonEmpty(a, b)
       THEN /\ work' = [a |-> a, b |-> b, it |-> b + 1]
            /\ covered' = covered \cup (a .. b - 1)
       ELSE UNCHANGED <<work, covered>>
  /\ UNCHANGED map

(* Intervals that end before a are separate, also if there is no value     *)
(* between them.                                                           *)
Separate(p, a) == Right(p) < a

Later_Bug(x, y) == x
Later(x, y) == IF x < y THEN y ELSE x

(* One iteration: stop, extend an interval that starts before a, or remove *)
(* one that is covered.                                                    *)
Merge ==
  /\ work # Idle
  /\ \E p \in map :
       /\ IsLast(p, Before(map, work.it))
       /\ IF Separate(p, work.a)
          THEN /\ map' = map \cup {<<work.a, work.b>>}
               /\ work' = Idle
          ELSE LET b == Later(work.b, Right(p))
               IN  IF Left(p) < work.a
                   THEN /\ map' = (map \ {p}) \cup {<<Left(p), b>>}
                        /\ work' = Idle
                   ELSE /\ map' = map \ {p}
                        /\ work' = [work EXCEPT !.b = b, !.it = Left(p)]
  /\ UNCHANGED covered

(* No interval is left to the left of the position.                        *)
Emplace ==
  /\ work # Idle
  /\ Before(map, work.it) = {}
  /\ map' = map \cup {<<work.a, work.b>>}
  /\ work' = Idle
  /\ UNCHANGED covered

Clear ==
  /\ work = Idle
  /\ map' = {} /\ covered' = {}
  /\ UNCHANGED work

Next == Add \/ Merge \/ Emplace \/ Clear

Spec == Init /\ [][Next]_vars

-----------------------------------------------------------------------------
(* The map is a set of nonempty intervals, the loop has an interval to add. *)
TypeOK ==
  /\ map \subseteq Int \X Int
  /\ \A p \in map : Left(p) < Right(p)
  /\ work = Idle \/ (work \in [a : Int, b : Int, it : Int] /\ work.a < work.b)
  /\ covered \subseteq Int

(* Different intervals neither overlap nor touch, so that an interval is   *)
(* in the set exactly if one entry of the map contains it.                 *)
Canonical == \A p, q \in map : p # q => Right(p) < Left(q) \/ Right(q) < Left(p)

(* Between calls the set stands for the values added, no more and no less. *)
CoversAdded ==
  work = Idle => covered = UNION {Values(p) : p \in map}

(* contains and intersects, which look at a single interval, give the      *)
(* answers for the whole set.                                              *)
QueriesExact ==
  work = Idle => \A a, b \in Ends :
    /\ a < b => (Contains(map, a, b) <=> a .. b - 1 \subseteq covered)
    /\ Intersects(map, a, b) <=> \E n \in a .. b - 1 : n \in covered
    /\ ContainsValue(map, a) <=> a \in covered
=============================================================================
