------------------------- MODULE SolverState_proofs -------------------------
(***************************************************************************)
(* Invariants of SolverState, for any number of variables, constraints,    *)
(* levels and any coefficients and bounds, and that its bounds and their   *)
(* stacks implement a trail of bounds per decision level (BoundTrail).     *)
(***************************************************************************)
EXTENDS SolverState, Sums_proofs, SequenceTheorems

-----------------------------------------------------------------------------
(* The stacks of saved bounds against the stack of frames, for any         *)
(* sequences of entries and frames: what saving a bound, pushing a frame   *)
(* and removing the last frame with its bounds does to them. StackOK is    *)
(* SavedAt for any frames, and also says that each saved bound belongs to  *)
(* a frame above the top level.                                            *)

LevelsOK(lv) ==
    /\ Len(lv) > 0 /\ lv[1].level = 0
    /\ \A i, j \in 1..Len(lv) : i < j => lv[i].level < lv[j].level

StackOK(st, lv, D) ==
    /\ \A i, j \in 1..Len(st) : i < j => st[i].level < st[j].level
    /\ \A i \in 1..Len(lv) : i \in D <=> \E k \in 1..Len(st) : st[k].level = lv[i].level
    /\ \A k \in 1..Len(st) : /\ st[k].level > 0
                             /\ \E i \in 1..Len(lv) : lv[i].level = st[k].level

\* Only the levels of the frames matter.
LEMMA StackSameLevels ==
    ASSUME NEW st, NEW D, NEW lv \in Seq(Frames), NEW lw \in Seq(Frames),
           Len(lw) = Len(lv), \A i \in 1..Len(lv) : lw[i].level = lv[i].level
    PROVE  /\ LevelsOK(lv) => LevelsOK(lw)
           /\ StackOK(st, lv, D) => StackOK(st, lw, D)
BY DEF LevelsOK, StackOK

\* Entries and frames carry levels.
LEMMA EntryLevel ==
    ASSUME NEW st \in Seq(Entries), NEW k \in 1..Len(st)
    PROVE  st[k] \in Entries /\ st[k].level \in Nat
<1>1. st[k] \in Entries
  OBVIOUS
<1> QED BY <1>1 DEF Entries

LEMMA FrameLevel ==
    ASSUME NEW lv \in Seq(Frames), NEW i \in 1..Len(lv)
    PROVE  lv[i] \in Frames /\ lv[i].level \in Nat
<1>1. lv[i] \in Frames
  OBVIOUS
<1> QED BY <1>1 DEF Frames

\* The last saved bound of a variable the last frame lists is of its level.
LEMMA StackLast ==
    ASSUME NEW st \in Seq(Entries), NEW lv \in Seq(Frames), NEW D,
           LevelsOK(lv), StackOK(st, lv, D), Len(lv) \in D
    PROVE  Len(st) > 0 /\ st[Len(st)].level = lv[Len(lv)].level
<1> DEFINE n == Len(lv)
<1>1. n \in 1..Len(lv)
  BY DEF LevelsOK
<1>2. PICK k \in 1..Len(st) : st[k].level = lv[n].level
  BY <1>1 DEF StackOK
<1>3. Len(st) \in 1..Len(st)
  BY <1>2
<1>4. PICK i \in 1..Len(lv) : lv[i].level = st[Len(st)].level
  BY <1>3 DEF StackOK
<1>5. st[Len(st)].level \in Nat /\ st[k].level \in Nat /\ lv[i].level \in Nat /\ lv[n].level \in Nat
  BY <1>1, <1>3, EntryLevel, FrameLevel
<1>6. lv[i].level <= lv[n].level
  BY <1>1, <1>5 DEF LevelsOK
<1>7. k = Len(st)
  <2>1. k < Len(st) => st[k].level < st[Len(st)].level
    BY <1>3 DEF StackOK
  <2> QED BY <2>1, <1>2, <1>4, <1>5, <1>6
<1> QED BY <1>2, <1>7

\* So the test of pushed_lower/pushed_upper is a test of the last frame's list.
LEMMA PushedListed ==
    ASSUME NEW st \in Seq(Entries), NEW lv \in Seq(Frames), NEW D,
           LevelsOK(lv), StackOK(st, lv, D)
    PROVE  Pushed(st, lv[Len(lv)].level) <=> Len(lv) \in D
<1>1. Len(lv) \in D => Pushed(st, lv[Len(lv)].level)
  BY StackLast DEF Pushed
<1>2. ASSUME Pushed(st, lv[Len(lv)].level)
      PROVE  Len(lv) \in D
  <2>1. Len(st) \in 1..Len(st)
    BY <1>2 DEF Pushed
  <2>2. Len(lv) \in 1..Len(lv)
    BY DEF LevelsOK
  <2> QED BY <1>2, <2>1, <2>2 DEF Pushed, StackOK
<1> QED BY <1>1, <1>2

\* A new frame on a higher level lists nothing.
LEMMA StackNewFrame ==
    ASSUME NEW lv \in Seq(Frames), LevelsOK(lv),
           NEW d \in Nat, lv[Len(lv)].level < d
    PROVE  LET lw == Append(lv, Frame(d)) IN
           /\ lw \in Seq(Frames) /\ Len(lw) = Len(lv) + 1
           /\ \A i \in 1..Len(lv) : lw[i] = lv[i]
           /\ lw[Len(lw)] = Frame(d)
           /\ LevelsOK(lw)
           /\ \A st \in Seq(Entries), D \in SUBSET (1..Len(lv)) :
                StackOK(st, lv, D) => StackOK(st, lw, D)
<1> DEFINE lw == Append(lv, Frame(d))
           n == Len(lv)
<1>1. Frame(d) \in Frames
  BY DEF Frame, Frames
<1>2. /\ lw \in Seq(Frames) /\ Len(lw) = n + 1
      /\ \A i \in 1..n : lw[i] = lv[i]
      /\ lw[n + 1] = Frame(d)
  BY <1>1
<1>3. Frame(d).level = d
  BY DEF Frame
<1>4. n \in Nat /\ n > 0 /\ \A i \in 1..n : lv[i].level \in Nat
  BY FrameLevel DEF LevelsOK
<1>5. \A i \in 1..n : lv[i].level < d
  BY <1>4 DEF LevelsOK
<1> HIDE DEF lw
<1>6. LevelsOK(lw)
  <2>1. ASSUME NEW i \in 1..Len(lw), NEW j \in 1..Len(lw), i < j
        PROVE  lw[i].level < lw[j].level
    <3>1. i \in 1..n
      BY <2>1, <1>2, <1>4
    <3>2. CASE j = n + 1
      BY <3>1, <3>2, <1>2, <1>3, <1>5
    <3>3. CASE j # n + 1
      <4>1. j \in 1..n
        BY <3>3, <1>2, <1>4
      <4> QED BY <2>1, <3>1, <4>1, <1>2 DEF LevelsOK
    <3> QED BY <3>2, <3>3
  <2>2. 1 \in 1..n /\ Len(lw) > 0
    BY <1>2, <1>4
  <2> QED BY <2>1, <2>2, <1>2 DEF LevelsOK
<1>7. ASSUME NEW st \in Seq(Entries), NEW D \in SUBSET (1..n), StackOK(st, lv, D)
      PROVE  StackOK(st, lw, D)
  <2>1. \A k \in 1..Len(st) : st[k].level < d
    BY <1>7, <1>5 DEF StackOK
  <2>2. ASSUME NEW i \in 1..Len(lw)
        PROVE  i \in D <=> \E k \in 1..Len(st) : st[k].level = lw[i].level
    <3>1. CASE i \in 1..n
      BY <3>1, <1>2, <1>7 DEF StackOK
    <3>2. CASE i = n + 1
      <4>1. i \notin D
        BY <3>2, <1>4
      <4>2. \A k \in 1..Len(st) : st[k].level # d
        BY <2>1 DEF Entries
      <4> QED BY <3>2, <4>1, <4>2, <1>2, <1>3
    <3> QED BY <3>1, <3>2, <1>2, <1>4
  <2>3. \A k \in 1..Len(st) : /\ st[k].level > 0
                              /\ \E i \in 1..Len(lw) : lw[i].level = st[k].level
    BY <1>2, <1>4, <1>7 DEF StackOK
  <2> QED BY <2>2, <2>3, <1>7 DEF StackOK
<1> QED BY <1>2, <1>6, <1>7 DEF lw

\* A sequence without its last element.
LEMMA DropLast ==
    ASSUME NEW S, NEW st \in Seq(S), Len(st) > 0
    PROVE  /\ SubSeq(st, 1, Len(st) - 1) \in Seq(S)
           /\ Len(SubSeq(st, 1, Len(st) - 1)) = Len(st) - 1
           /\ \A k \in 1..(Len(st) - 1) : SubSeq(st, 1, Len(st) - 1)[k] = st[k]
<1>1. CASE Len(st) = 1
  <2> DEFINE t == SubSeq(st, 1, Len(st) - 1)
  <2>1. t = <<>>
    BY <1>1, SubSeqEmpty
  <2> HIDE DEF t
  <2>2. t \in Seq(S) /\ Len(t) = Len(st) - 1
    BY <1>1, <2>1
  <2>3. \A k \in 1..(Len(st) - 1) : t[k] = st[k]
    BY <1>1
  <2> QED BY <2>2, <2>3 DEF t
<1>2. CASE Len(st) > 1
  BY <1>2
<1>3. Len(st) = 1 \/ Len(st) > 1
  OBVIOUS
<1> QED BY <1>1, <1>2, <1>3, Zenon

\* Saving a bound once the last frame, above the top level, lists the variable.
LEMMA StackSave ==
    ASSUME NEW st \in Seq(Entries), NEW lv \in Seq(Frames),
           NEW D \in SUBSET (1..Len(lv)), NEW x \in Int,
           LevelsOK(lv), StackOK(st, lv, D), Len(lv) \notin D, lv[Len(lv)].level > 0
    PROVE  LET su == Append(st, [level |-> lv[Len(lv)].level, value |-> x]) IN
           /\ su \in Seq(Entries)
           /\ StackOK(su, lv, D \union {Len(lv)})
<1> DEFINE n == Len(lv)
           e == [level |-> lv[n].level, value |-> x]
           su == Append(st, e)
<1>1. n \in 1..n
  BY DEF LevelsOK
<1>2. e \in Entries /\ e.level = lv[n].level /\ e.level \in Nat
  BY <1>1, FrameLevel DEF Entries
<1>3. /\ su \in Seq(Entries) /\ Len(su) = Len(st) + 1 /\ Len(st) \in Nat
      /\ \A k \in 1..Len(st) : su[k] = st[k]
      /\ su[Len(st) + 1] = e
  BY <1>2
<1> HIDE DEF su, e
<1>4. ASSUME NEW k \in 1..Len(st)
      PROVE  st[k].level < lv[n].level
  <2>1. PICK i \in 1..n : lv[i].level = st[k].level
    BY DEF StackOK
  <2>2. i # n
    BY <1>1, <2>1 DEF StackOK
  <2> QED BY <1>1, <2>1, <2>2 DEF LevelsOK
<1>5. \A i, j \in 1..Len(su) : i < j => su[i].level < su[j].level
  <2>0. SUFFICES ASSUME NEW i \in 1..Len(su), NEW j \in 1..Len(su), i < j
                 PROVE  su[i].level < su[j].level
    OBVIOUS
  <2>1. CASE j = Len(st) + 1
    <3>1. i \in 1..Len(st)
      BY <2>0, <2>1, <1>3
    <3> QED BY <3>1, <2>1, <1>2, <1>3, <1>4
  <2>2. CASE j # Len(st) + 1
    <3> DEFINE m == Len(st)
    <3>1. i \in 1..m /\ j \in 1..m
      <4>1. m \in Nat /\ i \in 1..(m + 1) /\ j \in 1..(m + 1) /\ i < j /\ j # m + 1
        BY <2>2, <1>3, <2>0
      <4> HIDE DEF m
      <4> QED BY <4>1
    <3>2. st[i].level < st[j].level
      BY <2>0, <3>1 DEF StackOK
    <3> QED BY <3>1, <3>2, <1>3
  <2> QED BY <2>1, <2>2
<1>6. ASSUME NEW i \in 1..n
      PROVE  i \in D \union {n} <=> \E k \in 1..Len(su) : su[k].level = lv[i].level
  <2>1. CASE i = n
    BY <2>1, <1>2, <1>3
  <2>2. CASE i # n
    <3>1. lv[i].level # lv[n].level
      BY <2>2, <1>1, FrameLevel DEF LevelsOK
    <3>2. (\E k \in 1..Len(su) : su[k].level = lv[i].level)
            <=> \E k \in 1..Len(st) : st[k].level = lv[i].level
      BY <3>1, <1>2, <1>3
    <3> QED BY <2>2, <3>2 DEF StackOK
  <2> QED BY <2>1, <2>2
<1>7. \A k \in 1..Len(su) : /\ su[k].level > 0
                            /\ \E i \in 1..n : lv[i].level = su[k].level
  <2> SUFFICES ASSUME NEW k \in 1..Len(su)
               PROVE  su[k].level > 0 /\ \E i \in 1..n : lv[i].level = su[k].level
    OBVIOUS
  <2>1. CASE k = Len(st) + 1
    BY <2>1, <1>1, <1>2, <1>3
  <2>2. CASE k # Len(st) + 1
    <3>1. k \in 1..Len(st)
      BY <2>2, <1>3
    <3>2. st[k].level > 0 /\ \E i \in 1..n : lv[i].level = st[k].level
      BY <3>1 DEF StackOK
    <3> QED BY <3>1, <3>2, <1>3
  <2> QED BY <2>1, <2>2
<1>8. StackOK(su, lv, D \union {n})
  BY <1>5, <1>6, <1>7 DEF StackOK
<1> QED BY <1>3, <1>8 DEF su, e

\* What update_lower and update_upper do to the stack of the variable.
LEMMA StackEnsure ==
    ASSUME NEW st \in Seq(Entries), NEW lv \in Seq(Frames),
           NEW D \in SUBSET (1..Len(lv)), NEW x \in Int,
           LevelsOK(lv), StackOK(st, lv, D), lv[Len(lv)].level > 0
    PROVE  LET l  == lv[Len(lv)].level
               su == IF Pushed(st, l) THEN st ELSE Append(st, [level |-> l, value |-> x])
           IN  /\ su \in Seq(Entries)
               /\ StackOK(su, lv, D \union {Len(lv)})
<1>1. CASE Len(lv) \in D
  <2>1. D \union {Len(lv)} = D
    BY <1>1
  <2> QED BY <1>1, <2>1, PushedListed
<1>2. CASE Len(lv) \notin D
  BY <1>2, PushedListed, StackSave
<1> QED BY <1>1, <1>2

\* Removing the last frame together with the bounds saved for it.
LEMMA StackPop ==
    ASSUME NEW lv \in Seq(Frames), LevelsOK(lv), Len(lv) > 1
    PROVE  LET lw == SubSeq(lv, 1, Len(lv) - 1) IN
           /\ lw \in Seq(Frames) /\ Len(lw) = Len(lv) - 1
           /\ \A i \in 1..Len(lw) : lw[i] = lv[i]
           /\ LevelsOK(lw)
           /\ \A st \in Seq(Entries), D \in SUBSET (1..Len(lv)) :
                StackOK(st, lv, D) =>
                  LET su == IF Len(lv) \in D THEN SubSeq(st, 1, Len(st) - 1) ELSE st
                  IN  su \in Seq(Entries) /\ StackOK(su, lw, D \ {Len(lv)})
<1> DEFINE n == Len(lv)
           lw == SubSeq(lv, 1, n - 1)
<1>1. /\ lw \in Seq(Frames) /\ Len(lw) = n - 1 /\ n \in Nat
      /\ \A i \in 1..(n - 1) : lw[i] = lv[i]
  OBVIOUS
<1> HIDE DEF lw
<1>2. LevelsOK(lw)
  BY <1>1 DEF LevelsOK
<1>3. ASSUME NEW st \in Seq(Entries), NEW D \in SUBSET (1..n), StackOK(st, lv, D), n \in D
      PROVE  LET su == SubSeq(st, 1, Len(st) - 1)
             IN  su \in Seq(Entries) /\ StackOK(su, lw, D \ {n})
  <2> DEFINE m == Len(st)
             su == SubSeq(st, 1, m - 1)
  <2>1. m > 0 /\ m \in Nat /\ st[m].level = lv[n].level
    BY <1>3, StackLast
  <2>2. /\ su \in Seq(Entries) /\ Len(su) = m - 1
        /\ \A k \in 1..(m - 1) : su[k] = st[k]
    BY <2>1, DropLast
  <2> HIDE DEF su
  <2>3. \A k \in 1..(m - 1) : k \in 1..m /\ k < m /\ st[k].level < lv[n].level
    <3> SUFFICES ASSUME NEW k \in 1..(m - 1)
                 PROVE  k \in 1..m /\ k < m /\ st[k].level < lv[n].level
      OBVIOUS
    <3>1. k \in 1..m /\ k < m /\ m \in 1..m
      BY <2>1
    <3>2. st[k].level < st[m].level
      BY <3>1, <1>3 DEF StackOK
    <3> QED BY <3>1, <3>2, <2>1
  <2>4. ASSUME NEW i \in 1..(n - 1)
        PROVE  i \in D \ {n} <=> \E k \in 1..Len(su) : su[k].level = lw[i].level
    <3>1. lv[i].level < lv[n].level /\ lv[i].level \in Nat /\ lv[n].level \in Nat
      <4>1. i \in 1..n /\ n \in 1..n /\ i < n
        BY <1>1
      <4> QED BY <4>1, FrameLevel DEF LevelsOK
    <3>2. (\E k \in 1..Len(su) : su[k].level = lv[i].level)
            <=> \E k \in 1..m : st[k].level = lv[i].level
      <4>1. st[m].level # lv[i].level
        BY <3>1, <2>1
      <4>2. \A k \in 1..m : k # m => k \in 1..(m - 1)
        BY <2>1
      <4> QED BY <4>1, <4>2, <2>2, <2>3
    <3>3. i \in 1..n /\ i # n
      BY <1>1
    <3>4. i \in D <=> \E k \in 1..m : st[k].level = lv[i].level
      BY <1>3, <3>3 DEF StackOK
    <3>5. lw[i] = lv[i]
      BY <1>1
    <3> QED BY <3>2, <3>3, <3>4, <3>5
  <2>5. ASSUME NEW k \in 1..Len(su)
        PROVE  su[k].level > 0 /\ \E i \in 1..(n - 1) : lw[i].level = su[k].level
    <3>1. k \in 1..m /\ su[k] = st[k] /\ st[k].level < lv[n].level /\ st[k].level \in Nat
      <4>1. k \in 1..(m - 1)
        BY <2>2
      <4> QED BY <4>1, <2>2, <2>3, EntryLevel
    <3>2. PICK i \in 1..n : lv[i].level = st[k].level
      BY <1>3, <3>1 DEF StackOK
    <3>3. i # n
      BY <3>1, <3>2
    <3>4. st[k].level > 0
      BY <1>3, <3>1 DEF StackOK
    <3>5. i \in 1..(n - 1) /\ lw[i] = lv[i]
      <4>1. n \in Nat /\ i \in Nat /\ 1 <= i /\ i <= n /\ i # n
        BY <1>1, <3>3
      <4> HIDE DEF n
      <4>2. i \in 1..(n - 1)
        BY <4>1
      <4> QED BY <4>2, <1>1
    <3>6. lw[i].level = su[k].level
      BY <3>1, <3>2, <3>5
    <3> QED BY <3>1, <3>4, <3>5, <3>6
  <2>6. \A i, j \in 1..Len(su) : i < j => su[i].level < su[j].level
    BY <1>3, <2>2, <2>3 DEF StackOK
  <2>7. StackOK(su, lw, D \ {n})
    BY <1>1, <2>4, <2>5, <2>6 DEF StackOK
  <2> QED BY <2>2, <2>7 DEF su
<1>4. ASSUME NEW st \in Seq(Entries), NEW D \in SUBSET (1..n), StackOK(st, lv, D), n \notin D
      PROVE  StackOK(st, lw, D \ {n})
  <2>1. ASSUME NEW k \in 1..Len(st)
        PROVE  st[k].level > 0 /\ \E i \in 1..(n - 1) : lw[i].level = st[k].level
    <3>1. PICK i \in 1..n : lv[i].level = st[k].level
      BY <1>4 DEF StackOK
    <3>2. i # n
      BY <1>1, <1>4, <3>1 DEF StackOK
    <3>3. st[k].level > 0
      BY <1>4 DEF StackOK
    <3> QED BY <1>1, <3>1, <3>2, <3>3
  <2>2. \A i \in 1..(n - 1) : i \in D \ {n} <=> \E k \in 1..Len(st) : st[k].level = lw[i].level
    <3>1. \A i \in 1..(n - 1) : i \in 1..n /\ i # n
      BY <1>1
    <3> QED BY <1>1, <1>4, <3>1 DEF StackOK
  <2>3. \A i, j \in 1..Len(st) : i < j => st[i].level < st[j].level
    BY <1>4 DEF StackOK
  <2> QED BY <1>1, <2>1, <2>2, <2>3 DEF StackOK
<1> QED BY <1>1, <1>2, <1>3, <1>4 DEF lw

-----------------------------------------------------------------------------
(* The inductive invariant.                                                *)

LowerFrames(lv, v) == {i \in 1..Len(lv) : v \in lv[i].undoLower}
UpperFrames(lv, v) == {i \in 1..Len(lv) : v \in lv[i].undoUpper}

StacksOK(lv, ls, us) ==
    /\ LevelsOK(lv)
    /\ \A v \in Vars : /\ StackOK(ls[v], lv, LowerFrames(lv, v))
                       /\ StackOK(us[v], lv, UpperFrames(lv, v))

\* Pending changes only tighten, belong to the current level, and only
\* exist between propagate and the check or undo after it.
PendingOnTop ==
    /\ \A v \in Vars : ldiff[v] >= 0 /\ udiff[v] <= 0
    /\ inLdiff # {} \/ inUdiff # {} =>
         Top.level = dl /\ pc \in {"propagate", "conflict", "unsat"}
    /\ dl > 0 => inLdiff \subseteq Top.undoLower /\ inUdiff \subseteq Top.undoUpper

IInv == /\ TypeOK
        /\ StacksOK(levels, lowerStack, upperStack)
        /\ Top.level <= dl
        /\ TodoMatchesFlags
        /\ PendingListed
        /\ PendingOnTop
        /\ best # NoBound => Minimize \in Cons

-----------------------------------------------------------------------------
(* Types.                                                                  *)

LEMMA SumOfVars ==
    ASSUME NEW f \in [Vars -> Int]
    PROVE  Sum(NumVars, f) \in Int
BY NumVarsAssumption, SumType DEF Vars

LEMMA SumsTyped ==
    ASSUME NEW c \in Cons, NEW lo \in [Vars -> Int], NEW up \in [Vars -> Int]
    PROVE  LowerSum(c, lo, up) \in Int /\ UpperSum(c, lo, up) \in Int
<1>1. \A v \in Vars : Coef[c][v] \in Int /\ lo[v] \in Int /\ up[v] \in Int
  BY CoefAssumption
<1>2. \A x, y \in Int : x * y \in Int
  OBVIOUS
<1>3. [v \in Vars |-> Coef[c][v] * (IF Coef[c][v] > 0 THEN lo[v] ELSE up[v])] \in [Vars -> Int]
  BY <1>1, <1>2
<1>4. [v \in Vars |-> Coef[c][v] * (IF Coef[c][v] > 0 THEN up[v] ELSE lo[v])] \in [Vars -> Int]
  BY <1>1, <1>2
<1> QED BY <1>3, <1>4, SumOfVars DEF LowerSum, UpperSum

\* Rounding down is defined for all divisors but zero.
LEMMA FloorTyped ==
    ASSUME NEW a \in Int, NEW b \in Int, b # 0
    PROVE  floordiv(a, b) \in Int
<1>1. \A x \in Nat, y \in Nat : y > 0 => x \div y \in Int
  OBVIOUS
<1>2. TruncDiv(a, b) \in Int
  BY <1>1 DEF TruncDiv
<1> QED BY <1>2 DEF floordiv

\* Literals a constraint enforces are order literals.
LEMMA ConsequencesTyped ==
    ASSUME TypeOK, NEW c \in Cons, HasRhs(c)
    PROVE  Consequences(c) \subseteq Literals
<1>1. RhsOf(c) - csLower[c] \in Int
  BY RhsAssumption DEF TypeOK, HasRhs, RhsOf
<1> DEFINE slack == RhsOf(c) - csLower[c]
<1> HIDE DEF slack
<1>2. ASSUME NEW v \in Vars, Coef[c][v] # 0
      PROVE  Consequence(c, v, slack) \subseteq Literals
  <2>1. Coef[c][v] \in Int /\ lower[v] \in Int /\ upper[v] \in Int /\ slack \in Int
    BY <1>1, CoefAssumption DEF TypeOK, slack
  <2>2. floordiv(slack + 1, -Coef[c][v]) \in Int /\ floordiv(slack + 1, Coef[c][v]) \in Int
    BY <1>2, <2>1, FloorTyped
  <2> QED BY <2>1, <2>2 DEF Consequence, Literals
<1> QED BY <1>2 DEF Consequences, slack

-----------------------------------------------------------------------------
(* The frame stack.                                                        *)

LEMMA TopTyped ==
    ASSUME TypeOK
    PROVE  /\ Len(levels) \in Nat /\ Len(levels) \in 1..Len(levels)
           /\ Top \in Frames /\ Top.level \in Nat
           /\ Top.undoLower \subseteq Vars /\ Top.undoUpper \subseteq Vars
<1>1. Len(levels) \in Nat /\ Len(levels) \in 1..Len(levels)
  BY DEF TypeOK
<1>2. Top \in Frames
  BY <1>1 DEF TypeOK, Top
<1> QED BY <1>1, <1>2 DEF Frames

\* Replacing the last frame.
LEMMA FrameUpdate ==
    ASSUME NEW lv \in Seq(Frames), Len(lv) > 0, NEW F \in Frames
    PROVE  LET lw == [lv EXCEPT ![Len(lv)] = F] IN
           /\ lw \in Seq(Frames) /\ Len(lw) = Len(lv)
           /\ lw[Len(lw)] = F
           /\ \A i \in 1..Len(lv) : i # Len(lv) => lw[i] = lv[i]
OBVIOUS

\* Steps that keep the stacks, and the levels and lists of the frames.
LEMMA KeepStacks ==
    ASSUME NEW lv \in Seq(Frames), NEW F \in Frames,
           NEW ls, NEW us, StacksOK(lv, ls, us),
           LET last == lv[Len(lv)] IN
             /\ F.level = last.level
             /\ F.undoLower = last.undoLower /\ F.undoUpper = last.undoUpper
    PROVE  LET lw == [lv EXCEPT ![Len(lv)] = F] IN
           /\ lw \in Seq(Frames) /\ Len(lw) = Len(lv) /\ Len(lv) > 0
           /\ lw[Len(lw)] = F
           /\ StacksOK(lw, ls, us)
<1> DEFINE lw == [lv EXCEPT ![Len(lv)] = F]
<1>1. Len(lv) > 0
  BY DEF StacksOK, LevelsOK
<1>2. /\ lw \in Seq(Frames) /\ Len(lw) = Len(lv) /\ lw[Len(lw)] = F
      /\ \A i \in 1..Len(lv) : i # Len(lv) => lw[i] = lv[i]
  BY <1>1, FrameUpdate
<1> HIDE DEF lw
<1>3. \A i \in 1..Len(lv) : /\ lw[i].level = lv[i].level
                            /\ lw[i].undoLower = lv[i].undoLower
                            /\ lw[i].undoUpper = lv[i].undoUpper
  BY <1>2
<1>4. ASSUME NEW v \in Vars
      PROVE  /\ LowerFrames(lw, v) = LowerFrames(lv, v)
             /\ UpperFrames(lw, v) = UpperFrames(lv, v)
  BY <1>2, <1>3 DEF LowerFrames, UpperFrames
<1>5. StacksOK(lw, ls, us)
  BY <1>2, <1>3, <1>4, StackSameLevels DEF StacksOK
<1> QED BY <1>1, <1>2, <1>5 DEF lw

\* push_level_: afterwards the last frame is the one of the current level.
LEMMA PushLevelOK ==
    ASSUME TypeOK, StacksOK(levels, lowerStack, upperStack), Top.level <= dl
    PROVE  /\ PushLevel \in Seq(Frames) /\ Len(PushLevel) > 0
           /\ StacksOK(PushLevel, lowerStack, upperStack)
           /\ PushLevel[Len(PushLevel)].level = dl
           /\ Top.level = dl => PushLevel = levels
<1>1. CASE Top.level = dl
  BY <1>1, TopTyped DEF PushLevel, TypeOK, Top
<1>2. CASE Top.level < dl
  <2> DEFINE lw == Append(levels, Frame(dl))
             n == Len(levels)
  <2>1. PushLevel = lw /\ dl \in Nat /\ levels \in Seq(Frames) /\ n \in Nat
    BY <1>2 DEF PushLevel, TypeOK
  <2>2. /\ lw \in Seq(Frames) /\ Len(lw) = n + 1
        /\ \A i \in 1..n : lw[i] = levels[i]
        /\ lw[Len(lw)] = Frame(dl)
        /\ LevelsOK(lw)
        /\ \A st \in Seq(Entries), D \in SUBSET (1..n) :
             StackOK(st, levels, D) => StackOK(st, lw, D)
    BY <1>2, <2>1, StackNewFrame DEF StacksOK, Top
  <2> HIDE DEF lw
  <2>3. Frame(dl).undoLower = {} /\ Frame(dl).undoUpper = {} /\ Frame(dl).level = dl
    BY DEF Frame
  <2>4. ASSUME NEW v \in Vars
        PROVE  /\ LowerFrames(lw, v) = LowerFrames(levels, v)
               /\ UpperFrames(lw, v) = UpperFrames(levels, v)
    <3>1. \A i \in 1..Len(lw) : i \in 1..n \/ lw[i] = Frame(dl)
      BY <2>1, <2>2
    <3>2. \A i \in 1..n : i \in 1..Len(lw)
      BY <2>1, <2>2
    <3> QED BY <2>2, <2>3, <3>1, <3>2 DEF LowerFrames, UpperFrames
  <2>5. StacksOK(lw, lowerStack, upperStack)
    <3> SUFFICES ASSUME NEW v \in Vars
                 PROVE  /\ StackOK(lowerStack[v], lw, LowerFrames(lw, v))
                        /\ StackOK(upperStack[v], lw, UpperFrames(lw, v))
      BY <2>2 DEF StacksOK
    <3>1. lowerStack[v] \in Seq(Entries) /\ upperStack[v] \in Seq(Entries)
      BY DEF TypeOK
    <3>2. /\ LowerFrames(levels, v) \in SUBSET (1..n)
          /\ UpperFrames(levels, v) \in SUBSET (1..n)
      BY DEF LowerFrames, UpperFrames
    <3>3. /\ StackOK(lowerStack[v], levels, LowerFrames(levels, v))
          /\ StackOK(upperStack[v], levels, UpperFrames(levels, v))
      BY DEF StacksOK
    <3> QED BY <2>2, <2>4, <3>1, <3>2, <3>3
  <2> QED BY <1>2, <2>1, <2>2, <2>3, <2>5
<1>3. Top.level = dl \/ Top.level < dl
  BY TopTyped DEF TypeOK
<1> QED BY <1>1, <1>2, <1>3

\* Solver::Level::update_lower saves the lower bound once per level.
LEMMA SaveLower ==
    ASSUME NEW lv \in Seq(Frames), NEW v \in Vars, NEW x \in Int,
           NEW ls \in [Vars -> Seq(Entries)], NEW us \in [Vars -> Seq(Entries)],
           StacksOK(lv, ls, us), lv[Len(lv)].level > 0
    PROVE  LET n  == Len(lv)
               l  == lv[n].level
               F  == [lv[n] EXCEPT !.undoLower = @ \union {v}]
               lw == [lv EXCEPT ![n] = F]
               lt == IF Pushed(ls[v], l) THEN ls
                     ELSE [ls EXCEPT ![v] = Append(@, [level |-> l, value |-> x])]
           IN  /\ lw \in Seq(Frames) /\ Len(lw) = n /\ n > 0 /\ lw[n] = F
               /\ F \in Frames
               /\ lt \in [Vars -> Seq(Entries)]
               /\ StacksOK(lw, lt, us)
               /\ Pushed(ls[v], l) => lw = lv
<1> DEFINE n  == Len(lv)
           l  == lv[n].level
           F  == [lv[n] EXCEPT !.undoLower = @ \union {v}]
           lw == [lv EXCEPT ![n] = F]
           lt == IF Pushed(ls[v], l) THEN ls
                 ELSE [ls EXCEPT ![v] = Append(@, [level |-> l, value |-> x])]
<1>1. n \in Nat /\ n > 0 /\ n \in 1..n /\ lv[n] \in Frames
  BY DEF StacksOK, LevelsOK
<1>2. /\ F \in Frames /\ F.level = l /\ F.undoUpper = lv[n].undoUpper
      /\ F.undoLower = lv[n].undoLower \union {v}
  <2> DEFINE G == lv[n]
  <2>1. G \in Frames
    BY <1>1
  <2> HIDE DEF G
  <2>2. /\ [G EXCEPT !.undoLower = @ \union {v}] \in Frames
        /\ [G EXCEPT !.undoLower = @ \union {v}].level = G.level
        /\ [G EXCEPT !.undoLower = @ \union {v}].undoUpper = G.undoUpper
        /\ [G EXCEPT !.undoLower = @ \union {v}].undoLower = G.undoLower \union {v}
    BY <2>1 DEF Frames
  <2> QED BY <2>2 DEF G
<1>3. /\ lw \in Seq(Frames) /\ Len(lw) = n /\ lw[n] = F
      /\ \A i \in 1..n : i # n => lw[i] = lv[i]
  <2> HIDE DEF F
  <2> QED BY <1>1, <1>2, FrameUpdate
<1> DEFINE su == IF Pushed(ls[v], l) THEN ls[v]
                 ELSE Append(ls[v], [level |-> l, value |-> x])
<1>4. lt = [ls EXCEPT ![v] = su]
  OBVIOUS
<1>5. /\ su \in Seq(Entries)
      /\ StackOK(su, lv, LowerFrames(lv, v) \union {n})
  <2>1. LowerFrames(lv, v) \in SUBSET (1..n)
    BY DEF LowerFrames
  <2> QED BY <2>1, StackEnsure DEF StacksOK
<1>6. Pushed(ls[v], l) => lw = lv
  <2> SUFFICES ASSUME Pushed(ls[v], l)
               PROVE  lw = lv
    OBVIOUS
  <2>1. n \in LowerFrames(lv, v)
    BY PushedListed DEF StacksOK
  <2>2. v \in lv[n].undoLower
    BY <2>1 DEF LowerFrames
  <2>3. lv[n].undoLower \union {v} = lv[n].undoLower
    BY <2>2
  <2>4. F = [lv[n] EXCEPT !.undoLower = lv[n].undoLower]
    BY <2>3
  <2>5. F = lv[n]
    BY <1>1, <2>4 DEF Frames
  <2> QED BY <1>1, <2>5
<1> HIDE DEF F, lw, su, lt
<1>7. \A i \in 1..n : lw[i].level = lv[i].level /\ lw[i].undoUpper = lv[i].undoUpper
  BY <1>2, <1>3
<1>8. \A w \in Vars : UpperFrames(lw, w) = UpperFrames(lv, w)
  BY <1>3, <1>7 DEF UpperFrames
<1>9. LowerFrames(lw, v) = LowerFrames(lv, v) \union {n}
  BY <1>1, <1>2, <1>3 DEF LowerFrames
<1>10. \A w \in Vars : w # v => LowerFrames(lw, w) = LowerFrames(lv, w)
  BY <1>1, <1>2, <1>3 DEF LowerFrames
<1>11. lt \in [Vars -> Seq(Entries)] /\ lt[v] = su /\ \A w \in Vars : w # v => lt[w] = ls[w]
  BY <1>4, <1>5
<1>12. ASSUME NEW w \in Vars
       PROVE  /\ StackOK(lt[w], lw, LowerFrames(lw, w))
              /\ StackOK(us[w], lw, UpperFrames(lw, w))
  <2>1. StackOK(us[w], lw, UpperFrames(lw, w))
    BY <1>3, <1>7, <1>8, StackSameLevels DEF StacksOK
  <2>2. CASE w = v
    <3>1. StackOK(su, lv, LowerFrames(lw, v))
      BY <1>5, <1>9
    <3>2. StackOK(su, lw, LowerFrames(lw, v))
      BY <3>1, <1>3, <1>7, StackSameLevels
    <3> QED BY <1>11, <2>1, <2>2, <3>2
  <2>3. CASE w # v
    <3>1. StackOK(ls[w], lv, LowerFrames(lv, w))
      BY DEF StacksOK
    <3> QED BY <1>3, <1>7, <1>10, <1>11, <2>1, <2>3, <3>1, StackSameLevels
  <2> QED BY <2>2, <2>3
<1>13. LevelsOK(lw)
  BY <1>3, <1>7, StackSameLevels DEF StacksOK
<1>14. StacksOK(lw, lt, us)
  BY <1>12, <1>13 DEF StacksOK
<1> QED BY <1>1, <1>2, <1>3, <1>6, <1>11, <1>14 DEF F, lw, lt

\* Solver::Level::update_upper saves the upper bound once per level.
LEMMA SaveUpper ==
    ASSUME NEW lv \in Seq(Frames), NEW v \in Vars, NEW x \in Int,
           NEW ls \in [Vars -> Seq(Entries)], NEW us \in [Vars -> Seq(Entries)],
           StacksOK(lv, ls, us), lv[Len(lv)].level > 0
    PROVE  LET n  == Len(lv)
               l  == lv[n].level
               F  == [lv[n] EXCEPT !.undoUpper = @ \union {v}]
               lw == [lv EXCEPT ![n] = F]
               lt == IF Pushed(us[v], l) THEN us
                     ELSE [us EXCEPT ![v] = Append(@, [level |-> l, value |-> x])]
           IN  /\ lw \in Seq(Frames) /\ Len(lw) = n /\ n > 0 /\ lw[n] = F
               /\ F \in Frames
               /\ lt \in [Vars -> Seq(Entries)]
               /\ StacksOK(lw, ls, lt)
               /\ Pushed(us[v], l) => lw = lv
<1> DEFINE n  == Len(lv)
           l  == lv[n].level
           F  == [lv[n] EXCEPT !.undoUpper = @ \union {v}]
           lw == [lv EXCEPT ![n] = F]
           lt == IF Pushed(us[v], l) THEN us
                 ELSE [us EXCEPT ![v] = Append(@, [level |-> l, value |-> x])]
<1>1. n \in Nat /\ n > 0 /\ n \in 1..n /\ lv[n] \in Frames
  BY DEF StacksOK, LevelsOK
<1>2. /\ F \in Frames /\ F.level = l /\ F.undoLower = lv[n].undoLower
      /\ F.undoUpper = lv[n].undoUpper \union {v}
  <2> DEFINE G == lv[n]
  <2>1. G \in Frames
    BY <1>1
  <2> HIDE DEF G
  <2>2. /\ [G EXCEPT !.undoUpper = @ \union {v}] \in Frames
        /\ [G EXCEPT !.undoUpper = @ \union {v}].level = G.level
        /\ [G EXCEPT !.undoUpper = @ \union {v}].undoLower = G.undoLower
        /\ [G EXCEPT !.undoUpper = @ \union {v}].undoUpper = G.undoUpper \union {v}
    BY <2>1 DEF Frames
  <2> QED BY <2>2 DEF G
<1>3. /\ lw \in Seq(Frames) /\ Len(lw) = n /\ lw[n] = F
      /\ \A i \in 1..n : i # n => lw[i] = lv[i]
  <2> HIDE DEF F
  <2> QED BY <1>1, <1>2, FrameUpdate
<1> DEFINE su == IF Pushed(us[v], l) THEN us[v]
                 ELSE Append(us[v], [level |-> l, value |-> x])
<1>4. lt = [us EXCEPT ![v] = su]
  OBVIOUS
<1>5. /\ su \in Seq(Entries)
      /\ StackOK(su, lv, UpperFrames(lv, v) \union {n})
  <2>1. UpperFrames(lv, v) \in SUBSET (1..n)
    BY DEF UpperFrames
  <2> QED BY <2>1, StackEnsure DEF StacksOK
<1>6. Pushed(us[v], l) => lw = lv
  <2> SUFFICES ASSUME Pushed(us[v], l)
               PROVE  lw = lv
    OBVIOUS
  <2>1. n \in UpperFrames(lv, v)
    BY PushedListed DEF StacksOK
  <2>2. v \in lv[n].undoUpper
    BY <2>1 DEF UpperFrames
  <2>3. lv[n].undoUpper \union {v} = lv[n].undoUpper
    BY <2>2
  <2>4. F = [lv[n] EXCEPT !.undoUpper = lv[n].undoUpper]
    BY <2>3
  <2>5. F = lv[n]
    BY <1>1, <2>4 DEF Frames
  <2> QED BY <1>1, <2>5
<1> HIDE DEF F, lw, su, lt
<1>7. \A i \in 1..n : lw[i].level = lv[i].level /\ lw[i].undoLower = lv[i].undoLower
  BY <1>2, <1>3
<1>8. \A w \in Vars : LowerFrames(lw, w) = LowerFrames(lv, w)
  BY <1>3, <1>7 DEF LowerFrames
<1>9. UpperFrames(lw, v) = UpperFrames(lv, v) \union {n}
  BY <1>1, <1>2, <1>3 DEF UpperFrames
<1>10. \A w \in Vars : w # v => UpperFrames(lw, w) = UpperFrames(lv, w)
  BY <1>1, <1>2, <1>3 DEF UpperFrames
<1>11. lt \in [Vars -> Seq(Entries)] /\ lt[v] = su /\ \A w \in Vars : w # v => lt[w] = us[w]
  BY <1>4, <1>5
<1>12. ASSUME NEW w \in Vars
       PROVE  /\ StackOK(lt[w], lw, UpperFrames(lw, w))
              /\ StackOK(ls[w], lw, LowerFrames(lw, w))
  <2>1. StackOK(ls[w], lw, LowerFrames(lw, w))
    BY <1>3, <1>7, <1>8, StackSameLevels DEF StacksOK
  <2>2. CASE w = v
    <3>1. StackOK(su, lv, UpperFrames(lw, v))
      BY <1>5, <1>9
    <3>2. StackOK(su, lw, UpperFrames(lw, v))
      BY <3>1, <1>3, <1>7, StackSameLevels
    <3> QED BY <1>11, <2>1, <2>2, <3>2
  <2>3. CASE w # v
    <3>1. StackOK(us[w], lv, UpperFrames(lv, w))
      BY DEF StacksOK
    <3> QED BY <1>3, <1>7, <1>10, <1>11, <2>1, <2>3, <3>1, StackSameLevels
  <2> QED BY <2>2, <2>3
<1>13. LevelsOK(lw)
  BY <1>3, <1>7, StackSameLevels DEF StacksOK
<1>14. StacksOK(lw, ls, lt)
  BY <1>12, <1>13 DEF StacksOK
<1> QED BY <1>1, <1>2, <1>3, <1>6, <1>11, <1>14 DEF F, lw, lt

\* What a tightened lower bound does to the frames and stacks.
LEMMA UpdateLowerFrames ==
    ASSUME IInv, NEW v \in Vars, NEW value \in Int, UpdateLower(v, value)
    PROVE  /\ levels' \in Seq(Frames) /\ Len(levels') > 0
           /\ lowerStack' \in [Vars -> Seq(Entries)] /\ upperStack' \in [Vars -> Seq(Entries)]
           /\ StacksOK(levels', lowerStack', upperStack')
           /\ Top'.level = dl
           /\ dl > 0 => v \in Top'.undoLower
           /\ Top.level = dl => /\ Top.undoLower \subseteq Top'.undoLower
                                /\ Top.undoUpper \subseteq Top'.undoUpper
<1> DEFINE lv == PushLevel
           n  == Len(lv)
           F  == [lv[n] EXCEPT !.undoLower = @ \union {v}]
<1>1. /\ lv \in Seq(Frames) /\ Len(lv) > 0
      /\ StacksOK(lv, lowerStack, upperStack)
      /\ lv[n].level = dl
      /\ Top.level = dl => lv = levels
  BY PushLevelOK DEF IInv
<1>2. /\ lowerStack \in [Vars -> Seq(Entries)] /\ upperStack \in [Vars -> Seq(Entries)]
      /\ lower[v] \in Int /\ dl \in Nat
  BY DEF IInv, TypeOK
<1>3. /\ lowerStack' = IF dl > 0 /\ ~Pushed(lowerStack[v], dl)
                        THEN [lowerStack EXCEPT ![v] = Append(@, [level |-> dl, value |-> lower[v]])]
                        ELSE lowerStack
      /\ levels' = IF dl > 0 /\ ~Pushed(lowerStack[v], dl) THEN [lv EXCEPT ![n] = F] ELSE lv
      /\ upperStack' = upperStack
  BY <1>1 DEF UpdateLower
<1> HIDE DEF lv
<1>4. CASE dl = 0
  BY <1>1, <1>2, <1>3, <1>4 DEF Top
<1>5. CASE dl > 0
  <2> DEFINE lt == IF Pushed(lowerStack[v], dl) THEN lowerStack
                   ELSE [lowerStack EXCEPT ![v] = Append(@, [level |-> dl, value |-> lower[v]])]
             lw == [lv EXCEPT ![n] = F]
  <2>1. /\ lw \in Seq(Frames) /\ Len(lw) = n /\ n > 0 /\ lw[n] = F /\ F \in Frames
        /\ lt \in [Vars -> Seq(Entries)]
        /\ StacksOK(lw, lt, upperStack)
        /\ Pushed(lowerStack[v], dl) => lw = lv
    BY <1>1, <1>2, <1>5, SaveLower
  <2>2. levels' = lw /\ lowerStack' = lt
    BY <1>3, <1>5, <2>1
  <2>3. Top' = F
    BY <2>1, <2>2 DEF Top
  <2>4. lv[n] \in Frames
    BY <1>1
  <2>5. /\ F.level = lv[n].level /\ F.undoUpper = lv[n].undoUpper
        /\ F.undoLower = lv[n].undoLower \union {v}
    BY <2>4 DEF Frames
  <2>6. Top.level = dl => lv[n] = Top
    BY <1>1 DEF Top
  <2> HIDE DEF F, lw, lt
  <2> QED BY <1>1, <1>2, <1>3, <2>1, <2>2, <2>3, <2>5, <2>6
<1> QED BY <1>2, <1>4, <1>5

\* What a tightened upper bound does to the frames and stacks.
LEMMA UpdateUpperFrames ==
    ASSUME IInv, NEW v \in Vars, NEW value \in Int, UpdateUpper(v, value)
    PROVE  /\ levels' \in Seq(Frames) /\ Len(levels') > 0
           /\ lowerStack' \in [Vars -> Seq(Entries)] /\ upperStack' \in [Vars -> Seq(Entries)]
           /\ StacksOK(levels', lowerStack', upperStack')
           /\ Top'.level = dl
           /\ dl > 0 => v \in Top'.undoUpper
           /\ Top.level = dl => /\ Top.undoLower \subseteq Top'.undoLower
                                /\ Top.undoUpper \subseteq Top'.undoUpper
<1> DEFINE lv == PushLevel
           n  == Len(lv)
           F  == [lv[n] EXCEPT !.undoUpper = @ \union {v}]
<1>1. /\ lv \in Seq(Frames) /\ Len(lv) > 0
      /\ StacksOK(lv, lowerStack, upperStack)
      /\ lv[n].level = dl
      /\ Top.level = dl => lv = levels
  BY PushLevelOK DEF IInv
<1>2. /\ lowerStack \in [Vars -> Seq(Entries)] /\ upperStack \in [Vars -> Seq(Entries)]
      /\ upper[v] \in Int /\ dl \in Nat
  BY DEF IInv, TypeOK
<1>3. /\ upperStack' = IF dl > 0 /\ ~Pushed(upperStack[v], dl)
                        THEN [upperStack EXCEPT ![v] = Append(@, [level |-> dl, value |-> upper[v]])]
                        ELSE upperStack
      /\ levels' = IF dl > 0 /\ ~Pushed(upperStack[v], dl) THEN [lv EXCEPT ![n] = F] ELSE lv
      /\ lowerStack' = lowerStack
  BY <1>1 DEF UpdateUpper
<1> HIDE DEF lv
<1>4. CASE dl = 0
  BY <1>1, <1>2, <1>3, <1>4 DEF Top
<1>5. CASE dl > 0
  <2> DEFINE lt == IF Pushed(upperStack[v], dl) THEN upperStack
                   ELSE [upperStack EXCEPT ![v] = Append(@, [level |-> dl, value |-> upper[v]])]
             lw == [lv EXCEPT ![n] = F]
  <2>1. /\ lw \in Seq(Frames) /\ Len(lw) = n /\ n > 0 /\ lw[n] = F /\ F \in Frames
        /\ lt \in [Vars -> Seq(Entries)]
        /\ StacksOK(lw, lowerStack, lt)
        /\ Pushed(upperStack[v], dl) => lw = lv
    BY <1>1, <1>2, <1>5, SaveUpper
  <2>2. levels' = lw /\ upperStack' = lt
    BY <1>3, <1>5, <2>1
  <2>3. Top' = F
    BY <2>1, <2>2 DEF Top
  <2>4. lv[n] \in Frames
    BY <1>1
  <2>5. /\ F.level = lv[n].level /\ F.undoLower = lv[n].undoLower
        /\ F.undoUpper = lv[n].undoUpper \union {v}
    BY <2>4 DEF Frames
  <2>6. Top.level = dl => lv[n] = Top
    BY <1>1 DEF Top
  <2> HIDE DEF F, lw, lt
  <2> QED BY <1>1, <1>2, <1>3, <2>1, <2>2, <2>3, <2>5, <2>6
<1> QED BY <1>2, <1>4, <1>5

-----------------------------------------------------------------------------
(* Every action preserves the invariant.                                   *)

LEMMA InitInv ==
    ASSUME Init
    PROVE  IInv
<1>1. Frame(0) \in Frames /\ Frame(0).level = 0
      /\ Frame(0).undoLower = {} /\ Frame(0).undoUpper = {}
  BY DEF Frame, Frames
<1>2. levels \in Seq(Frames) /\ Len(levels) = 1 /\ levels[1] = Frame(0) /\ levels # <<>>
  BY <1>1 DEF Init
<1>3. \A c \in Cons : /\ LowerSum(c, InitLower, InitUpper) \in Int
                      /\ UpperSum(c, InitLower, InitUpper) \in Int
  BY BoundsAssumption, SumsTyped
<1>4. /\ csLower \in [Cons -> Int] /\ csUpper \in [Cons -> Int]
  BY <1>3 DEF Init
<1>5. TypeOK
  BY <1>2, <1>4, BoundsAssumption DEF Init, TypeOK
<1>6. StacksOK(levels, lowerStack, upperStack)
  BY <1>1, <1>2 DEF Init, StacksOK, LevelsOK, StackOK, LowerFrames, UpperFrames
<1>7. /\ Top.level <= dl /\ TodoMatchesFlags /\ PendingListed /\ PendingOnTop
      /\ best = NoBound
  BY <1>1, <1>2 DEF Init, Top, TodoMatchesFlags, PendingListed, PendingOnTop
<1> QED BY <1>5, <1>6, <1>7 DEF IInv

LEMMA UpdateLowerInv ==
    ASSUME IInv, pc = "propagate", NEW v \in Vars, NEW value \in Int,
           lower[v] < value + 1, UpdateLower(v, value),
           UNCHANGED <<sumVars, inactiveLevel, todoVars, minVars, best, dl,
                       litVars, conQueue, pc>>,
           queue' \subseteq queue
    PROVE  IInv'
<1> DEFINE new == value + 1
           diff == new - lower[v]
<1>1. /\ lower[v] \in Int /\ new \in Int /\ diff \in Int /\ diff # 0 /\ diff > 0
  BY DEF IInv, TypeOK
<1>2. /\ lower' = [lower EXCEPT ![v] = new] /\ upper' = upper
      /\ ldiff' = [ldiff EXCEPT ![v] = @ + diff] /\ udiff' = udiff
      /\ inLdiff' = (IF ldiff[v] = 0 THEN inLdiff \union {v} ELSE inLdiff)
      /\ inUdiff' = inUdiff
  <2>1. lower' = [lower EXCEPT ![v] = new] /\ ldiff' = [ldiff EXCEPT ![v] = @ + diff]
    BY Zenon DEF UpdateLower
  <2> HIDE DEF new, diff
  <2> QED BY <2>1 DEF UpdateLower
<1> HIDE DEF new, diff
<1>3. /\ levels' \in Seq(Frames) /\ levels' # <<>>
      /\ lowerStack' \in [Vars -> Seq(Entries)] /\ upperStack' \in [Vars -> Seq(Entries)]
      /\ StacksOK(levels', lowerStack', upperStack')
      /\ Top'.level = dl
      /\ dl > 0 => v \in Top'.undoLower
      /\ Top.level = dl => /\ Top.undoLower \subseteq Top'.undoLower
                           /\ Top.undoUpper \subseteq Top'.undoUpper
  BY UpdateLowerFrames
<1>4. TypeOK'
  <2>1. lower' \in [Vars -> Int] /\ ldiff' \in [Vars -> Int] /\ inLdiff' \subseteq Vars
    BY <1>1, <1>2 DEF IInv, TypeOK
  <2> QED BY <1>2, <1>3, <2>1
          DEF IInv, TypeOK, sumVars, todoVars, minVars, litVars
<1>5. ASSUME NEW w \in Vars
      PROVE  /\ ldiff'[w] # 0 <=> w \in inLdiff'
             /\ udiff'[w] # 0 <=> w \in inUdiff'
             /\ ldiff'[w] >= 0 /\ udiff'[w] <= 0
  <2>1. /\ ldiff[w] # 0 <=> w \in inLdiff
        /\ udiff[w] # 0 <=> w \in inUdiff
        /\ ldiff[w] >= 0 /\ udiff[w] <= 0
        /\ ldiff[w] \in Int /\ udiff[w] \in Int
        /\ ldiff \in [Vars -> Int]
    BY DEF IInv, PendingListed, PendingOnTop, TypeOK
  <2>2. CASE w = v
    BY <1>1, <1>2, <2>1, <2>2
  <2>3. CASE w # v
    BY <1>2, <2>1, <2>3
  <2> QED BY <2>2, <2>3
<1>6. PendingListed'
  BY <1>5 DEF PendingListed
<1>7. dl > 0 => inLdiff' \subseteq Top'.undoLower /\ inUdiff' \subseteq Top'.undoUpper
  <2>1. CASE Top.level = dl
    BY <1>2, <1>3, <2>1 DEF IInv, PendingOnTop
  <2>2. CASE Top.level # dl
    <3>1. inLdiff = {} /\ inUdiff = {}
      BY <2>2 DEF IInv, PendingOnTop
    <3> QED BY <1>2, <1>3, <3>1
  <2> QED BY <2>1, <2>2
<1>8. PendingOnTop'
  BY <1>3, <1>5, <1>7 DEF PendingOnTop
<1>9. TodoMatchesFlags'
  BY DEF IInv, TodoMatchesFlags, todoVars
<1>10. Top'.level <= dl'
  BY <1>3 DEF IInv, TypeOK
<1> QED BY <1>3, <1>4, <1>6, <1>8, <1>9, <1>10 DEF IInv

LEMMA UpdateUpperInv ==
    ASSUME IInv, pc = "propagate", NEW v \in Vars, NEW value \in Int,
           upper[v] > value, UpdateUpper(v, value),
           UNCHANGED <<sumVars, inactiveLevel, todoVars, minVars, best, dl,
                       litVars, conQueue, pc>>,
           queue' \subseteq queue
    PROVE  IInv'
<1> DEFINE new == value
           diff == new - upper[v]
<1>1. /\ upper[v] \in Int /\ new \in Int /\ diff \in Int /\ diff # 0 /\ diff < 0
  BY DEF IInv, TypeOK
<1>2. /\ upper' = [upper EXCEPT ![v] = new] /\ lower' = lower
      /\ udiff' = [udiff EXCEPT ![v] = @ + diff] /\ ldiff' = ldiff
      /\ inUdiff' = (IF udiff[v] = 0 THEN inUdiff \union {v} ELSE inUdiff)
      /\ inLdiff' = inLdiff
  <2>1. upper' = [upper EXCEPT ![v] = new] /\ udiff' = [udiff EXCEPT ![v] = @ + diff]
    BY Zenon DEF UpdateUpper
  <2> HIDE DEF new, diff
  <2> QED BY <2>1 DEF UpdateUpper
<1> HIDE DEF new, diff
<1>3. /\ levels' \in Seq(Frames) /\ levels' # <<>>
      /\ lowerStack' \in [Vars -> Seq(Entries)] /\ upperStack' \in [Vars -> Seq(Entries)]
      /\ StacksOK(levels', lowerStack', upperStack')
      /\ Top'.level = dl
      /\ dl > 0 => v \in Top'.undoUpper
      /\ Top.level = dl => /\ Top.undoLower \subseteq Top'.undoLower
                           /\ Top.undoUpper \subseteq Top'.undoUpper
  BY UpdateUpperFrames
<1>4. TypeOK'
  <2>1. upper' \in [Vars -> Int] /\ udiff' \in [Vars -> Int] /\ inUdiff' \subseteq Vars
    BY <1>1, <1>2 DEF IInv, TypeOK
  <2> QED BY <1>2, <1>3, <2>1
          DEF IInv, TypeOK, sumVars, todoVars, minVars, litVars
<1>5. ASSUME NEW w \in Vars
      PROVE  /\ ldiff'[w] # 0 <=> w \in inLdiff'
             /\ udiff'[w] # 0 <=> w \in inUdiff'
             /\ ldiff'[w] >= 0 /\ udiff'[w] <= 0
  <2>1. /\ ldiff[w] # 0 <=> w \in inLdiff
        /\ udiff[w] # 0 <=> w \in inUdiff
        /\ ldiff[w] >= 0 /\ udiff[w] <= 0
        /\ ldiff[w] \in Int /\ udiff[w] \in Int
        /\ udiff \in [Vars -> Int]
    BY DEF IInv, PendingListed, PendingOnTop, TypeOK
  <2>2. CASE w = v
    BY <1>1, <1>2, <2>1, <2>2
  <2>3. CASE w # v
    BY <1>2, <2>1, <2>3
  <2> QED BY <2>2, <2>3
<1>6. PendingListed'
  BY <1>5 DEF PendingListed
<1>7. dl > 0 => inLdiff' \subseteq Top'.undoLower /\ inUdiff' \subseteq Top'.undoUpper
  <2>1. CASE Top.level = dl
    BY <1>2, <1>3, <2>1 DEF IInv, PendingOnTop
  <2>2. CASE Top.level # dl
    <3>1. inLdiff = {} /\ inUdiff = {}
      BY <2>2 DEF IInv, PendingOnTop
    <3> QED BY <1>2, <1>3, <3>1
  <2> QED BY <2>1, <2>2
<1>8. PendingOnTop'
  BY <1>3, <1>5, <1>7 DEF PendingOnTop
<1>9. TodoMatchesFlags'
  BY DEF IInv, TodoMatchesFlags, todoVars
<1>10. Top'.level <= dl'
  BY <1>3 DEF IInv, TypeOK
<1> QED BY <1>3, <1>4, <1>6, <1>8, <1>9, <1>10 DEF IInv

\* Literals that do not tighten a bound and constraint literals push the level.
LEMMA PushInv ==
    ASSUME IInv, pc = "propagate", levels' = PushLevel,
           UNCHANGED <<boundVars, diffVars, sumVars, inactiveLevel, minVars, best, dl, litVars>>,
           todo' \subseteq Cons, marked' \in [Cons -> BOOLEAN], TodoMatchesFlags',
           queue' \subseteq queue, conQueue' \subseteq conQueue,
           pc' \in {"propagate", "conflict", "unsat"}
    PROVE  IInv'
<1>1. /\ levels' \in Seq(Frames) /\ levels' # <<>>
      /\ StacksOK(levels', lowerStack, upperStack)
      /\ Top'.level = dl
      /\ Top.level = dl => Top' = Top
  BY PushLevelOK DEF IInv, Top
<1>2. TypeOK'
  BY <1>1 DEF IInv, TypeOK, boundVars, diffVars, sumVars, minVars, litVars
<1>3. PendingListed'
  BY DEF IInv, PendingListed, diffVars
<1>4. PendingOnTop'
  <2>1. Top.level # dl => inLdiff = {} /\ inUdiff = {}
    BY DEF IInv, PendingOnTop
  <2> QED BY <1>1, <2>1 DEF IInv, PendingOnTop, diffVars
<1>5. Top'.level <= dl' /\ StacksOK(levels', lowerStack', upperStack')
  BY <1>1 DEF IInv, TypeOK, boundVars
<1> QED BY <1>2, <1>3, <1>4, <1>5 DEF IInv

LEMMA PropagateLiteralInv ==
    ASSUME IInv, NEW l \in queue, PropagateLiteral(l)
    PROVE  IInv'
<1>1. l.var \in Vars /\ l.value \in Int /\ l.kind \in {"le", "gt"}
  BY DEF IInv, TypeOK, Literals
<1>2. /\ pc = "propagate" /\ queue' \subseteq queue
      /\ UNCHANGED <<sumVars, inactiveLevel, todoVars, minVars, best, dl, litVars, conQueue>>
  BY DEF PropagateLiteral
<1>3. ASSUME levels' = PushLevel, UNCHANGED <<boundVars, diffVars>>,
             pc' = ConflictPc \/ pc' = pc
      PROVE  IInv'
  <2>1. pc' \in {"propagate", "conflict", "unsat"}
    BY <1>2, <1>3 DEF ConflictPc
  <2>2. /\ todo' \subseteq Cons /\ marked' \in [Cons -> BOOLEAN] /\ TodoMatchesFlags'
        /\ conQueue' \subseteq conQueue
    BY <1>2 DEF IInv, TypeOK, TodoMatchesFlags, todoVars
  <2> QED BY <1>2, <1>3, <2>1, <2>2, PushInv
<1>4. ASSUME Tightens(l), pc' = pc,
             IF l.kind = "le" THEN UpdateUpper(l.var, l.value) ELSE UpdateLower(l.var, l.value)
      PROVE  IInv'
  <2>1. CASE l.kind = "le"
    BY <1>1, <1>2, <1>4, <2>1, UpdateUpperInv DEF Tightens
  <2>2. CASE l.kind # "le"
    BY <1>1, <1>2, <1>4, <2>2, UpdateLowerInv DEF Tightens
  <2> QED BY <2>1, <2>2
<1> QED BY <1>3, <1>4 DEF PropagateLiteral

\* mark_todo keeps the flags and the list in step.
LEMMA MarkTodoOK ==
    ASSUME TypeOK, TodoMatchesFlags, NEW cs \in SUBSET Cons, MarkTodo(cs)
    PROVE  todo' \subseteq Cons /\ marked' \in [Cons -> BOOLEAN] /\ TodoMatchesFlags'
BY DEF TypeOK, TodoMatchesFlags, MarkTodo

LEMMA PropagateConsInv ==
    ASSUME IInv, NEW c \in Cons, PropagateCons(c)
    PROVE  IInv'
<1>1. /\ pc = "propagate" /\ pc' = pc /\ levels' = PushLevel
      /\ conQueue' \subseteq conQueue /\ queue' \subseteq queue
      /\ UNCHANGED <<boundVars, diffVars, sumVars, inactiveLevel, minVars, best, dl, litVars>>
  BY DEF PropagateCons
<1>2. todo' \subseteq Cons /\ marked' \in [Cons -> BOOLEAN] /\ TodoMatchesFlags'
  <2>1. MarkTodo({c}) /\ {c} \in SUBSET Cons
    BY DEF PropagateCons
  <2> QED BY <2>1, MarkTodoOK DEF IInv
<1> QED BY <1>1, <1>2, PushInv

\* The new sums are integers.
LEMMA FlushTyped ==
    ASSUME TypeOK, NEW c \in Cons
    PROVE  /\ Sum(NumVars, [v \in Vars |-> Positive(Change(c, v, inUdiff, udiff))
                                         + Positive(Change(c, v, inLdiff, ldiff))]) \in Int
           /\ Sum(NumVars, [v \in Vars |-> Negative(Change(c, v, inUdiff, udiff))
                                         + Negative(Change(c, v, inLdiff, ldiff))]) \in Int
<1>1. \A v \in Vars : /\ Change(c, v, inUdiff, udiff) \in Int
                      /\ Change(c, v, inLdiff, ldiff) \in Int
  <2>1. \A v \in Vars : Coef[c][v] \in Int /\ udiff[v] \in Int /\ ldiff[v] \in Int
    BY CoefAssumption DEF TypeOK
  <2>2. \A x, y \in Int : x * y \in Int
    OBVIOUS
  <2> QED BY <2>1, <2>2 DEF Change
<1>2. \A x \in Int : Positive(x) \in Int /\ Negative(x) \in Int
  BY DEF Positive, Negative
<1> QED BY <1>1, <1>2, SumOfVars

LEMMA CheckStartInv ==
    ASSUME IInv, CheckStart
    PROVE  IInv'
<1> DEFINE news == IF BetterBound \/ LowerLevel THEN {Minimize} ELSE {}
<1>1. /\ UNCHANGED <<boundVars, inactiveLevel, best, dl, litVars, queue, conQueue>>
      /\ pc = "propagate" /\ pc' \in {"fixpoint", "check"}
      /\ minBound' \in Int \union {NoBound} /\ minLevel' \in Nat
  BY DEF CheckStart, IInv, TypeOK
<1>2. news \in SUBSET Cons
  BY DEF BetterBound, LowerLevel, IInv
<1>3. CASE /\ dl # Top.level
           /\ MarkTodo(news)
           /\ UNCHANGED <<levels, diffVars, sumVars>>
  <2>1. todo' \subseteq Cons /\ marked' \in [Cons -> BOOLEAN] /\ TodoMatchesFlags'
    BY <1>2, <1>3, MarkTodoOK DEF IInv
  <2>2. TypeOK'
    BY <1>1, <1>3, <2>1 DEF IInv, TypeOK, boundVars, diffVars, sumVars, litVars
  <2>3. PendingListed' /\ PendingOnTop'
    <3>1. inLdiff = {} /\ inUdiff = {}
      BY <1>3 DEF IInv, PendingOnTop
    <3> QED BY <1>1, <1>3, <3>1 DEF IInv, PendingListed, PendingOnTop, Top, diffVars
  <2> QED BY <1>1, <1>3, <2>1, <2>2, <2>3 DEF IInv, boundVars, Top
<1>4. CASE MarkTodo(news \union Affected) /\ UpdateConstraints /\ pc' = "check"
  <2>1. todo' \subseteq Cons /\ marked' \in [Cons -> BOOLEAN] /\ TodoMatchesFlags'
    <3>1. news \union Affected \in SUBSET Cons
      BY <1>2 DEF Affected
    <3> QED BY <1>4, <3>1, MarkTodoOK DEF IInv
  <2> DEFINE dropped == {p \in (inUdiff \union inLdiff) \X Cons :
                           p[2] \in watches[p[1]] /\ RemovableAt(p[2], Top.level)}
             F == [Top EXCEPT !.removed = @ \union dropped]
  <2>2. dropped \subseteq Vars \X Cons
    BY DEF IInv, TypeOK
  <2>3. levels' = [levels EXCEPT ![Len(levels)].removed = @ \union dropped]
    BY <1>4 DEF UpdateConstraints
  <2> HIDE DEF dropped
  <2>4. levels' = [levels EXCEPT ![Len(levels)] = F]
    BY <2>3 DEF Top
  <2>5. /\ F \in Frames /\ F.level = Top.level
        /\ F.undoLower = Top.undoLower /\ F.undoUpper = Top.undoUpper
    BY <2>2, TopTyped DEF IInv, Frames
  <2> HIDE DEF F
  <2>6. /\ levels' \in Seq(Frames) /\ Len(levels') > 0 /\ Top' = F
        /\ StacksOK(levels', lowerStack, upperStack)
    <3>1. levels \in Seq(Frames) /\ StacksOK(levels, lowerStack, upperStack)
      BY DEF IInv, TypeOK
    <3>2. LET last == levels[Len(levels)] IN
            /\ F.level = last.level
            /\ F.undoLower = last.undoLower /\ F.undoUpper = last.undoUpper
      BY <2>5 DEF Top
    <3>3. LET lw == [levels EXCEPT ![Len(levels)] = F] IN
            /\ lw \in Seq(Frames) /\ Len(lw) = Len(levels) /\ Len(levels) > 0
            /\ lw[Len(lw)] = F
            /\ StacksOK(lw, lowerStack, upperStack)
      BY <2>5, <3>1, <3>2, KeepStacks
    <3> QED BY <2>4, <3>3 DEF Top
  <2>7. /\ ldiff' = [v \in Vars |-> IF v \in inLdiff THEN 0 ELSE ldiff[v]]
        /\ udiff' = [v \in Vars |-> IF v \in inUdiff THEN 0 ELSE udiff[v]]
        /\ inLdiff' = {} /\ inUdiff' = {}
    BY <1>4 DEF UpdateConstraints
  <2>8. \A v \in Vars : ldiff'[v] = 0 /\ udiff'[v] = 0
    BY <2>7 DEF IInv, PendingListed
  <2>9. csLower' \in [Cons -> Int] /\ csUpper' \in [Cons -> Int]
    <3>1. \A c \in Cons : csLower[c] \in Int /\ csUpper[c] \in Int
      BY DEF IInv, TypeOK
    <3> DEFINE up(c) == Sum(NumVars, [v \in Vars |-> Positive(Change(c, v, inUdiff, udiff))
                                                    + Positive(Change(c, v, inLdiff, ldiff))])
               down(c) == Sum(NumVars, [v \in Vars |-> Negative(Change(c, v, inUdiff, udiff))
                                                      + Negative(Change(c, v, inLdiff, ldiff))])
    <3>2. \A c \in Cons : up(c) \in Int /\ down(c) \in Int
      BY FlushTyped DEF IInv
    <3>3. /\ csLower' = [c \in Cons |-> csLower[c] + up(c)]
          /\ csUpper' = [c \in Cons |-> csUpper[c] + down(c)]
      BY <1>4 DEF UpdateConstraints
    <3> HIDE DEF up, down
    <3> QED BY <3>1, <3>2, <3>3
  <2>10. watches' \in [Vars -> SUBSET Cons]
    BY <1>4 DEF UpdateConstraints, IInv, TypeOK
  <2>11. TypeOK'
    BY <1>1, <2>1, <2>6, <2>7, <2>8, <2>9, <2>10 DEF IInv, TypeOK, boundVars, litVars
  <2>12. PendingListed' /\ PendingOnTop'
    BY <2>7, <2>8 DEF PendingListed, PendingOnTop
  <2> QED BY <1>1, <2>1, <2>5, <2>6, <2>11, <2>12 DEF IInv, boundVars
<1> QED BY <1>3, <1>4 DEF CheckStart

\* mark_inactive only changes the list of inactive constraints of a frame.
LEMMA MarkInactiveOK ==
    ASSUME IInv, NEW c \in Cons, MarkInactive(c) \/ UNCHANGED <<inactiveLevel, levels>>
    PROVE  /\ inactiveLevel' \in [Cons -> Nat]
           /\ levels' \in Seq(Frames) /\ levels' # <<>>
           /\ StacksOK(levels', lowerStack, upperStack)
           /\ Top'.level = Top.level
           /\ Top'.undoLower = Top.undoLower /\ Top'.undoUpper = Top.undoUpper
<1>1. CASE UNCHANGED <<inactiveLevel, levels>>
  BY <1>1 DEF IInv, TypeOK, Top
<1>2. CASE /\ inactiveLevel' = [inactiveLevel EXCEPT ![c] = Top.level + 1]
           /\ levels' = [levels EXCEPT ![Len(levels)].inactive = @ \union {c}]
  <2> DEFINE F == [Top EXCEPT !.inactive = @ \union {c}]
  <2>1. levels' = [levels EXCEPT ![Len(levels)] = F]
    BY <1>2 DEF Top
  <2>2. /\ F \in Frames /\ F.level = Top.level
        /\ F.undoLower = Top.undoLower /\ F.undoUpper = Top.undoUpper
    BY TopTyped DEF IInv, Frames
  <2> HIDE DEF F
  <2>3. levels \in Seq(Frames) /\ StacksOK(levels, lowerStack, upperStack)
    BY DEF IInv, TypeOK
  <2>4. LET last == levels[Len(levels)] IN
          /\ F.level = last.level
          /\ F.undoLower = last.undoLower /\ F.undoUpper = last.undoUpper
    BY <2>2 DEF Top
  <2>5. LET lw == [levels EXCEPT ![Len(levels)] = F] IN
          /\ lw \in Seq(Frames) /\ Len(lw) = Len(levels) /\ Len(levels) > 0
          /\ lw[Len(lw)] = F
          /\ StacksOK(lw, lowerStack, upperStack)
    BY <2>2, <2>3, <2>4, KeepStacks
  <2>6. inactiveLevel' \in [Cons -> Nat]
    <3> DEFINE x == Top.level + 1
    <3>1. x \in Nat
      BY TopTyped DEF IInv
    <3>2. inactiveLevel \in [Cons -> Nat]
      BY DEF IInv, TypeOK
    <3>3. inactiveLevel' = [inactiveLevel EXCEPT ![c] = x]
      BY <1>2
    <3> HIDE DEF x
    <3> QED BY <3>1, <3>2, <3>3
  <2>7. Top' = F
    BY <2>1, <2>5 DEF Top
  <2> QED BY <2>1, <2>2, <2>5, <2>6, <2>7
<1> QED BY <1>1, <1>2 DEF MarkInactive

LEMMA CheckItemInv ==
    ASSUME IInv, NEW c \in Cons, CheckItem(c)
    PROVE  IInv'
<1>1. /\ UNCHANGED <<boundVars, diffVars, sumVars, minVars, best, dl, conQueue>>
      /\ pc = "check"
      /\ SkipFalse(c) \/ SkipOpen(c) \/ Satisfied(c) \/ Violated(c) \/ Enforce(c)
  BY DEF CheckItem
<1>2. MarkInactive(c) \/ UNCHANGED <<inactiveLevel, levels>>
  BY <1>1 DEF SkipFalse, SkipOpen, Satisfied, Violated, Enforce
<1>3. DoneItem(c) \/ FailItem
  BY <1>1 DEF SkipFalse, SkipOpen, Satisfied, Violated, Enforce
<1>4. /\ clit' \in [Cons -> {"free", "true", "false"}] /\ clitLevel' \in [Cons -> Nat]
  <2>1. \/ UNCHANGED litVars
        \/ /\ clit' = [clit EXCEPT ![c] = "false"]
           /\ clitLevel' = [clitLevel EXCEPT ![c] = dl]
    BY <1>1 DEF SkipFalse, SkipOpen, Satisfied, Violated, Enforce
  <2> QED BY <2>1 DEF IInv, TypeOK, litVars
<1>5. queue' \subseteq Literals
  <2>1. queue' = queue \/ (HasRhs(c) /\ queue' = queue \union Consequences(c))
    BY <1>1 DEF SkipFalse, SkipOpen, Satisfied, Violated, Enforce
  <2> QED BY <2>1, ConsequencesTyped DEF IInv, TypeOK
<1>6. /\ todo' \subseteq Cons /\ marked' \in [Cons -> BOOLEAN] /\ TodoMatchesFlags'
      /\ pc' \in {"check", "conflict", "unsat"}
  <2>1. todo \subseteq Cons /\ marked \in [Cons -> BOOLEAN] /\ \A d \in Cons : marked[d] <=> d \in todo
    BY DEF IInv, TypeOK, TodoMatchesFlags
  <2>2. CASE DoneItem(c)
    BY <1>1, <2>1, <2>2 DEF DoneItem, TodoMatchesFlags
  <2>3. CASE FailItem
    <3>1. pc' \in {"conflict", "unsat"}
      BY <2>3 DEF FailItem, ConflictPc
    <3>2. todo' = {} /\ marked' = [d \in Cons |-> marked[d] /\ d \notin todo]
      BY <2>3 DEF FailItem
    <3>3. \A d \in Cons : marked'[d] = FALSE
      BY <2>1, <3>2, Zenon
    <3> QED BY <3>1, <3>2, <3>3 DEF TodoMatchesFlags
  <2> QED BY <1>3, <2>2, <2>3
<1>7. /\ inactiveLevel' \in [Cons -> Nat]
      /\ levels' \in Seq(Frames) /\ levels' # <<>>
      /\ StacksOK(levels', lowerStack, upperStack)
      /\ Top'.level = Top.level
      /\ Top'.undoLower = Top.undoLower /\ Top'.undoUpper = Top.undoUpper
  BY <1>2, MarkInactiveOK
<1>8. TypeOK'
  BY <1>1, <1>4, <1>5, <1>6, <1>7 DEF IInv, TypeOK, boundVars, diffVars, sumVars, minVars
<1>9. PendingListed' /\ PendingOnTop'
  BY <1>1, <1>7 DEF IInv, PendingListed, PendingOnTop, diffVars
<1> QED BY <1>1, <1>6, <1>7, <1>8, <1>9 DEF IInv, boundVars

\* Steps that only concern clasp and the shared objective bound.
LEMMA EnvironmentInv ==
    ASSUME IInv, UNCHANGED <<boundVars, levels, diffVars, sumVars, inactiveLevel, todoVars>>,
           minBound' = minBound, minLevel' = minLevel,
           best' \in Int \union {NoBound}, best' # NoBound => Minimize \in Cons,
           clit' \in [Cons -> {"free", "true", "false"}], clitLevel' \in [Cons -> Nat],
           queue' \subseteq Literals, conQueue' \subseteq Cons,
           dl' \in Nat, dl' >= dl,
           pc' \in {"propagate", "check", "fixpoint", "conflict", "unsat"},
           inLdiff # {} \/ inUdiff # {} => dl' = dl /\ pc' = pc
    PROVE  IInv'
<1>1. TypeOK'
  BY DEF IInv, TypeOK, boundVars, diffVars, sumVars, todoVars
<1>2. Top' = Top /\ Top'.level <= dl'
  BY TopTyped DEF IInv, Top, TypeOK
<1>3. PendingListed' /\ PendingOnTop'
  BY <1>2 DEF IInv, PendingListed, PendingOnTop, diffVars
<1> QED BY <1>1, <1>2, <1>3 DEF IInv, TodoMatchesFlags, boundVars, todoVars

\* Order literals clasp may assign are order literals of the solver.
LEMMA OpenTyped == OpenLiterals \subseteq Literals
BY BoundsAssumption DEF OpenLiterals, Literals

LEMMA DecideInv ==
    ASSUME IInv, Decide
    PROVE  IInv'
<1>1. pc = "fixpoint" /\ dl' = dl + 1 /\ pc' = "propagate"
      /\ UNCHANGED <<boundVars, levels, diffVars, sumVars, inactiveLevel, todoVars, minVars, best>>
  BY DEF Decide
<1>2. dl' \in Nat /\ dl' >= dl
  BY <1>1 DEF IInv, TypeOK
<1>3. inLdiff = {} /\ inUdiff = {}
  BY <1>1 DEF IInv, PendingOnTop
<1>4. /\ clit' \in [Cons -> {"free", "true", "false"}] /\ clitLevel' \in [Cons -> Nat]
      /\ queue' \subseteq Literals /\ conQueue' \subseteq Cons
  <2>1. CASE \E l \in OpenLiterals : AssignLiteral(l)
    BY <2>1, OpenTyped DEF AssignLiteral, IInv, TypeOK, litVars
  <2>2. CASE \E c \in Cons : AssignCons(c, dl + 1)
    BY <1>1, <1>2, <2>2 DEF AssignCons, IInv, TypeOK
  <2> QED BY <2>1, <2>2 DEF Decide
<1> QED BY <1>1, <1>2, <1>3, <1>4, EnvironmentInv DEF IInv, TypeOK, minVars

LEMMA UnitPropagateInv ==
    ASSUME IInv, UnitPropagate
    PROVE  IInv'
<1>1. pc' = pc /\ dl' = dl
      /\ UNCHANGED <<boundVars, levels, diffVars, sumVars, inactiveLevel, todoVars, minVars, best>>
  BY DEF UnitPropagate
<1>2. /\ clit' \in [Cons -> {"free", "true", "false"}] /\ clitLevel' \in [Cons -> Nat]
      /\ queue' \subseteq Literals /\ conQueue' \subseteq Cons
  <2>1. CASE \E l \in OpenLiterals \ queue : AssignLiteral(l)
    BY <2>1, OpenTyped DEF AssignLiteral, IInv, TypeOK, litVars
  <2>2. CASE \E c \in Cons : AssignCons(c, dl)
    BY <2>2 DEF AssignCons, IInv, TypeOK
  <2> QED BY <2>1, <2>2 DEF UnitPropagate
<1>3. dl' \in Nat /\ dl' >= dl
  BY <1>1 DEF IInv, TypeOK
<1> QED BY <1>1, <1>2, <1>3, EnvironmentInv DEF IInv, TypeOK, minVars

LEMMA OtherThreadInv ==
    ASSUME IInv, OtherThread
    PROVE  IInv'
<1>1. Minimize \in Cons /\ best' \in Int
  BY ObjectivesAssumption DEF OtherThread
<1>2. UNCHANGED <<boundVars, levels, diffVars, sumVars, inactiveLevel, todoVars,
                  minVars, dl, litVars, queue, conQueue, pc>>
  BY DEF OtherThread
<1>3. dl' \in Nat /\ dl' >= dl
  BY <1>2 DEF IInv, TypeOK
<1> QED BY <1>1, <1>2, <1>3, EnvironmentInv DEF IInv, TypeOK, minVars, litVars

LEMMA CheckEndInv ==
    ASSUME IInv, CheckEnd
    PROVE  IInv'
<1>1. pc = "check" /\ pc' \in {"fixpoint", "propagate"}
      /\ UNCHANGED <<boundVars, levels, diffVars, sumVars, inactiveLevel, todoVars,
                     minVars, best, dl, litVars, queue, conQueue>>
  BY DEF CheckEnd
<1>2. inLdiff = {} /\ inUdiff = {}
  BY <1>1 DEF IInv, PendingOnTop
<1>3. dl' \in Nat /\ dl' >= dl
  BY <1>1 DEF IInv, TypeOK
<1> QED BY <1>1, <1>2, <1>3, EnvironmentInv DEF IInv, TypeOK, minVars, litVars

LEMMA OnModelInv ==
    ASSUME IInv, OnModel
    PROVE  IInv'
<1>1. pc = "fixpoint" /\ pc' = "propagate" /\ Minimize \in Cons /\ best' = Cost - 1
      /\ UNCHANGED <<boundVars, levels, diffVars, sumVars, inactiveLevel, todoVars,
                     minVars, dl, litVars, queue, conQueue>>
  BY DEF OnModel
<1>2. best' \in Int
  <2>1. lower \in [Vars -> Int] /\ upper \in [Vars -> Int]
    BY DEF IInv, TypeOK
  <2>2. Cost \in Int
    BY <1>1, <2>1, SumsTyped DEF Cost
  <2> QED BY <1>1, <2>2
<1>3. inLdiff = {} /\ inUdiff = {}
  BY <1>1 DEF IInv, PendingOnTop
<1>4. dl' \in Nat /\ dl' >= dl
  BY <1>1 DEF IInv, TypeOK
<1> QED BY <1>1, <1>2, <1>3, <1>4, EnvironmentInv DEF IInv, TypeOK, minVars, litVars


\* The lower bounds and their stacks after the last frame is undone.
LEMMA UndoLowerStack ==
    ASSUME IInv, Len(levels) > 1
    PROVE  LET lw == SubSeq(levels, 1, Len(levels) - 1)
               ss == Popped(lowerStack, Top.undoLower)
           IN  /\ Restored(lowerStack, lower, Top.undoLower) \in [Vars -> Int]
               /\ ss \in [Vars -> Seq(Entries)]
               /\ \A v \in Vars : StackOK(ss[v], lw, LowerFrames(lw, v))
<1> DEFINE n  == Len(levels)
           lw == SubSeq(levels, 1, n - 1)
           ss == Popped(lowerStack, Top.undoLower)
<1>1. levels \in Seq(Frames) /\ LevelsOK(levels) /\ n \in Nat /\ n \in 1..n
  BY DEF IInv, TypeOK, StacksOK
<1>2. /\ lw \in Seq(Frames) /\ Len(lw) = n - 1
      /\ \A i \in 1..Len(lw) : lw[i] = levels[i]
      /\ \A st \in Seq(Entries), D \in SUBSET (1..n) :
           StackOK(st, levels, D) =>
             LET su == IF n \in D THEN SubSeq(st, 1, Len(st) - 1) ELSE st
             IN  su \in Seq(Entries) /\ StackOK(su, lw, D \ {n})
  BY <1>1, StackPop
<1> HIDE DEF lw
<1>3. ASSUME NEW v \in Vars
      PROVE  /\ lowerStack[v] \in Seq(Entries) /\ lower[v] \in Int
             /\ StackOK(lowerStack[v], levels, LowerFrames(levels, v))
             /\ LowerFrames(levels, v) \in SUBSET (1..n)
             /\ v \in Top.undoLower <=> n \in LowerFrames(levels, v)
  <2>1. lowerStack[v] \in Seq(Entries) /\ lower[v] \in Int
    BY DEF IInv, TypeOK
  <2>2. StackOK(lowerStack[v], levels, LowerFrames(levels, v))
    BY DEF IInv, StacksOK
  <2> QED BY <1>1, <2>1, <2>2 DEF LowerFrames, Top
<1>4. ASSUME NEW v \in Vars, v \in Top.undoLower
      PROVE  lowerStack[v][Len(lowerStack[v])].value \in Int
  <2> DEFINE st == lowerStack[v]
  <2>1. st \in Seq(Entries)
    BY <1>3
  <2>2. Len(st) > 0
    BY <1>1, <1>3, <1>4, StackLast
  <2>3. st[Len(st)] \in Entries
    BY <2>1, <2>2
  <2> QED BY <2>3 DEF Entries
<1>5. Restored(lowerStack, lower, Top.undoLower) \in [Vars -> Int]
  BY <1>3, <1>4 DEF Restored
<1>6. ASSUME NEW v \in Vars
      PROVE  ss[v] \in Seq(Entries) /\ StackOK(ss[v], lw, LowerFrames(lw, v))
  <2> DEFINE D  == LowerFrames(levels, v)
             su == IF n \in D THEN SubSeq(lowerStack[v], 1, Len(lowerStack[v]) - 1)
                   ELSE lowerStack[v]
  <2>1. ss[v] = su
    BY <1>3 DEF Popped
  <2>2. su \in Seq(Entries) /\ StackOK(su, lw, D \ {n})
    BY <1>2, <1>3
  <2>3. LowerFrames(lw, v) = D \ {n}
    <3>1. \A i \in 1..(n - 1) : i \in 1..n /\ i # n
      BY <1>1
    <3>2. \A i \in 1..n : i # n => i \in 1..(n - 1)
      BY <1>1
    <3> QED BY <1>2, <3>1, <3>2 DEF LowerFrames
  <2> HIDE DEF su, D, ss
  <2> QED BY <2>1, <2>2, <2>3
<1>7. ss \in [Vars -> Seq(Entries)]
  BY <1>6 DEF Popped
<1> QED BY <1>5, <1>6, <1>7 DEF lw

\* The upper bounds and their stacks after the last frame is undone.
LEMMA UndoUpperStack ==
    ASSUME IInv, Len(levels) > 1
    PROVE  LET lw == SubSeq(levels, 1, Len(levels) - 1)
               ss == Popped(upperStack, Top.undoUpper)
           IN  /\ Restored(upperStack, upper, Top.undoUpper) \in [Vars -> Int]
               /\ ss \in [Vars -> Seq(Entries)]
               /\ \A v \in Vars : StackOK(ss[v], lw, UpperFrames(lw, v))
<1> DEFINE n  == Len(levels)
           lw == SubSeq(levels, 1, n - 1)
           ss == Popped(upperStack, Top.undoUpper)
<1>1. levels \in Seq(Frames) /\ LevelsOK(levels) /\ n \in Nat /\ n \in 1..n
  BY DEF IInv, TypeOK, StacksOK
<1>2. /\ lw \in Seq(Frames) /\ Len(lw) = n - 1
      /\ \A i \in 1..Len(lw) : lw[i] = levels[i]
      /\ \A st \in Seq(Entries), D \in SUBSET (1..n) :
           StackOK(st, levels, D) =>
             LET su == IF n \in D THEN SubSeq(st, 1, Len(st) - 1) ELSE st
             IN  su \in Seq(Entries) /\ StackOK(su, lw, D \ {n})
  BY <1>1, StackPop
<1> HIDE DEF lw
<1>3. ASSUME NEW v \in Vars
      PROVE  /\ upperStack[v] \in Seq(Entries) /\ upper[v] \in Int
             /\ StackOK(upperStack[v], levels, UpperFrames(levels, v))
             /\ UpperFrames(levels, v) \in SUBSET (1..n)
             /\ v \in Top.undoUpper <=> n \in UpperFrames(levels, v)
  <2>1. upperStack[v] \in Seq(Entries) /\ upper[v] \in Int
    BY DEF IInv, TypeOK
  <2>2. StackOK(upperStack[v], levels, UpperFrames(levels, v))
    BY DEF IInv, StacksOK
  <2> QED BY <1>1, <2>1, <2>2 DEF UpperFrames, Top
<1>4. ASSUME NEW v \in Vars, v \in Top.undoUpper
      PROVE  upperStack[v][Len(upperStack[v])].value \in Int
  <2> DEFINE st == upperStack[v]
  <2>1. st \in Seq(Entries)
    BY <1>3
  <2>2. Len(st) > 0
    BY <1>1, <1>3, <1>4, StackLast
  <2>3. st[Len(st)] \in Entries
    BY <2>1, <2>2
  <2> QED BY <2>3 DEF Entries
<1>5. Restored(upperStack, upper, Top.undoUpper) \in [Vars -> Int]
  BY <1>3, <1>4 DEF Restored
<1>6. ASSUME NEW v \in Vars
      PROVE  ss[v] \in Seq(Entries) /\ StackOK(ss[v], lw, UpperFrames(lw, v))
  <2> DEFINE D  == UpperFrames(levels, v)
             su == IF n \in D THEN SubSeq(upperStack[v], 1, Len(upperStack[v]) - 1)
                   ELSE upperStack[v]
  <2>1. ss[v] = su
    BY <1>3 DEF Popped
  <2>2. su \in Seq(Entries) /\ StackOK(su, lw, D \ {n})
    BY <1>2, <1>3
  <2>3. UpperFrames(lw, v) = D \ {n}
    <3>1. \A i \in 1..(n - 1) : i \in 1..n /\ i # n
      BY <1>1
    <3>2. \A i \in 1..n : i # n => i \in 1..(n - 1)
      BY <1>1
    <3> QED BY <1>2, <3>1, <3>2 DEF UpperFrames
  <2> HIDE DEF su, D, ss
  <2> QED BY <2>1, <2>2, <2>3
<1>7. ss \in [Vars -> Seq(Entries)]
  BY <1>6 DEF Popped
<1> QED BY <1>5, <1>6, <1>7 DEF lw

LEMMA TakenBackTyped ==
    ASSUME NEW c \in Cons, NEW vl, NEW vu,
           lower \in [Vars -> Int], upper \in [Vars -> Int],
           lower' \in [Vars -> Int], upper' \in [Vars -> Int],
           ldiff \in [Vars -> Int], udiff \in [Vars -> Int]
    PROVE  /\ Sum(NumVars, [v \in Vars |-> Positive(TakenBack(c, v, vl, lower, ldiff))
                                         + Positive(TakenBack(c, v, vu, upper, udiff))]) \in Int
           /\ Sum(NumVars, [v \in Vars |-> NonPositive(TakenBack(c, v, vl, lower, ldiff))
                                         + NonPositive(TakenBack(c, v, vu, upper, udiff))]) \in Int
<1>1. \A v \in Vars : /\ TakenBack(c, v, vl, lower, ldiff) \in Int
                      /\ TakenBack(c, v, vu, upper, udiff) \in Int
  <2>1. \A v \in Vars : /\ Coef[c][v] \in Int
                        /\ lower[v] - lower'[v] - ldiff[v] \in Int
                        /\ upper[v] - upper'[v] - udiff[v] \in Int
    BY CoefAssumption
  <2>2. \A x, y \in Int : x * y \in Int
    OBVIOUS
  <2> QED BY <2>1, <2>2 DEF TakenBack
<1>2. \A x \in Int : Positive(x) \in Int /\ NonPositive(x) \in Int
  BY DEF Positive, NonPositive
<1> QED BY <1>1, <1>2, SumOfVars

LEMMA UndoFrameInv ==
    ASSUME IInv, HasFrame, dl > 0, UndoFrame
    PROVE  /\ lower' \in [Vars -> Int] /\ upper' \in [Vars -> Int]
           /\ lowerStack' \in [Vars -> Seq(Entries)] /\ upperStack' \in [Vars -> Seq(Entries)]
           /\ levels' \in Seq(Frames) /\ levels' # <<>>
           /\ StacksOK(levels', lowerStack', upperStack')
           /\ Top'.level < dl
           /\ \A v \in Vars : ldiff'[v] = 0 /\ udiff'[v] = 0
           /\ ldiff' \in [Vars -> Int] /\ udiff' \in [Vars -> Int]
           /\ inLdiff' = {} /\ inUdiff' = {}
           /\ watches' \in [Vars -> SUBSET Cons]
           /\ csLower' \in [Cons -> Int] /\ csUpper' \in [Cons -> Int]
           /\ inactiveLevel' \in [Cons -> Nat]
           /\ todo' = {} /\ marked' \in [Cons -> BOOLEAN]
           /\ \A c \in Cons : marked'[c] = FALSE
<1> DEFINE n  == Len(levels)
           lw == SubSeq(levels, 1, n - 1)
<1>1. /\ levels \in Seq(Frames) /\ LevelsOK(levels) /\ n \in Nat /\ n \in 1..n
      /\ levels[n].level = dl /\ dl \in Nat
  BY DEF IInv, TypeOK, StacksOK, HasFrame, Top
<1>2. n > 1
  BY <1>1 DEF LevelsOK
<1>3. /\ lw \in Seq(Frames) /\ Len(lw) = n - 1
      /\ \A i \in 1..Len(lw) : lw[i] = levels[i]
      /\ LevelsOK(lw)
  BY <1>1, <1>2, StackPop
<1>4. levels' = lw
  BY DEF UndoFrame
<1> HIDE DEF lw
<1>5. levels' # <<>> /\ Top'.level < dl
  <2>1. Len(lw) > 0 /\ Len(lw) \in 1..Len(lw)
    BY <1>2, <1>3, <1>1
  <2>2. Top' = levels[n - 1]
    BY <1>3, <1>4, <2>1 DEF Top
  <2>3. levels[n - 1].level < levels[n].level
    <3>1. n - 1 \in 1..n /\ n - 1 < n
      BY <1>1, <1>2
    <3> QED BY <1>1, <3>1 DEF LevelsOK
  <2> QED BY <1>1, <1>4, <2>1, <2>2, <2>3
<1>6. /\ lower' = Restored(lowerStack, lower, Top.undoLower)
      /\ upper' = Restored(upperStack, upper, Top.undoUpper)
      /\ lowerStack' = Popped(lowerStack, Top.undoLower)
      /\ upperStack' = Popped(upperStack, Top.undoUpper)
  BY DEF UndoFrame
<1>7. /\ lower' \in [Vars -> Int] /\ upper' \in [Vars -> Int]
      /\ lowerStack' \in [Vars -> Seq(Entries)] /\ upperStack' \in [Vars -> Seq(Entries)]
      /\ \A v \in Vars : /\ StackOK(lowerStack'[v], lw, LowerFrames(lw, v))
                         /\ StackOK(upperStack'[v], lw, UpperFrames(lw, v))
  BY <1>2, <1>6, UndoLowerStack, UndoUpperStack DEF lw
<1>8. StacksOK(levels', lowerStack', upperStack')
  BY <1>3, <1>4, <1>7 DEF StacksOK
<1>9. /\ \A v \in Vars : ldiff'[v] = 0 /\ udiff'[v] = 0
      /\ ldiff' \in [Vars -> Int] /\ udiff' \in [Vars -> Int]
      /\ inLdiff' = {} /\ inUdiff' = {}
  <2>1. /\ ldiff' = [v \in Vars |-> IF v \in Top.undoLower THEN 0 ELSE ldiff[v]]
        /\ udiff' = [v \in Vars |-> IF v \in Top.undoUpper THEN 0 ELSE udiff[v]]
        /\ inLdiff' = {} /\ inUdiff' = {}
    BY DEF UndoFrame, Dropped
  <2>2. \A v \in Vars : ldiff'[v] = 0 /\ udiff'[v] = 0
    BY <2>1 DEF IInv, PendingListed, PendingOnTop
  <2> QED BY <2>1, <2>2
<1>10. watches' \in [Vars -> SUBSET Cons] /\ inactiveLevel' \in [Cons -> Nat]
  BY DEF UndoFrame, IInv, TypeOK
<1>11. csLower' \in [Cons -> Int] /\ csUpper' \in [Cons -> Int]
  <2> DEFINE down(c) == Sum(NumVars, [v \in Vars |->
                              Positive(TakenBack(c, v, Top.undoLower, lower, ldiff))
                            + Positive(TakenBack(c, v, Top.undoUpper, upper, udiff))])
             up(c) == Sum(NumVars, [v \in Vars |->
                              NonPositive(TakenBack(c, v, Top.undoLower, lower, ldiff))
                            + NonPositive(TakenBack(c, v, Top.undoUpper, upper, udiff))])
  <2>1. \A c \in Cons : down(c) \in Int /\ up(c) \in Int
    <3>1. /\ lower \in [Vars -> Int] /\ upper \in [Vars -> Int]
          /\ ldiff \in [Vars -> Int] /\ udiff \in [Vars -> Int]
      BY DEF IInv, TypeOK
    <3> QED BY <1>7, <3>1, TakenBackTyped
  <2>2. /\ csLower' = [c \in Cons |-> csLower[c] - down(c)]
        /\ csUpper' = [c \in Cons |-> csUpper[c] - up(c)]
    BY DEF UndoFrame
  <2>3. \A c \in Cons : csLower[c] \in Int /\ csUpper[c] \in Int
    BY DEF IInv, TypeOK
  <2> HIDE DEF down, up
  <2> QED BY <2>1, <2>2, <2>3
<1>12. todo' = {} /\ marked' \in [Cons -> BOOLEAN] /\ \A c \in Cons : marked'[c] = FALSE
  <2>1. todo' = {} /\ marked' = [c \in Cons |-> marked[c] /\ c \notin todo]
    BY DEF UndoFrame
  <2>2. marked \in [Cons -> BOOLEAN] /\ \A c \in Cons : marked[c] <=> c \in todo
    BY DEF IInv, TypeOK, TodoMatchesFlags
  <2>3. \A c \in Cons : marked'[c] = FALSE
    BY <2>1, <2>2, Zenon
  <2> QED BY <2>1, <2>2, <2>3
<1> QED BY <1>3, <1>4, <1>5, <1>7, <1>8, <1>9, <1>10, <1>11, <1>12

LEMMA UndoInv ==
    ASSUME IInv, Undo
    PROVE  IInv'
<1>1. /\ dl > 0 /\ dl' = dl - 1 /\ dl' \in Nat /\ pc' = "propagate"
      /\ queue' = {} /\ conQueue' = {} /\ UNCHANGED <<minVars, best>>
  BY DEF Undo, IInv, TypeOK
<1>2. /\ clit' \in [Cons -> {"free", "true", "false"}] /\ clitLevel' \in [Cons -> Nat]
  BY DEF Undo, IInv, TypeOK
<1>3. CASE HasFrame
  <2>1. UndoFrame
    BY <1>3 DEF Undo
  <2>2. /\ lower' \in [Vars -> Int] /\ upper' \in [Vars -> Int]
        /\ lowerStack' \in [Vars -> Seq(Entries)] /\ upperStack' \in [Vars -> Seq(Entries)]
        /\ levels' \in Seq(Frames) /\ levels' # <<>>
        /\ StacksOK(levels', lowerStack', upperStack')
        /\ Top'.level < dl
        /\ \A v \in Vars : ldiff'[v] = 0 /\ udiff'[v] = 0
        /\ ldiff' \in [Vars -> Int] /\ udiff' \in [Vars -> Int]
        /\ inLdiff' = {} /\ inUdiff' = {}
        /\ watches' \in [Vars -> SUBSET Cons]
        /\ csLower' \in [Cons -> Int] /\ csUpper' \in [Cons -> Int]
        /\ inactiveLevel' \in [Cons -> Nat]
        /\ todo' = {} /\ marked' \in [Cons -> BOOLEAN]
        /\ \A c \in Cons : marked'[c] = FALSE
    BY <1>1, <1>3, <2>1, UndoFrameInv
  <2>3. TypeOK'
    BY <1>1, <1>2, <2>2 DEF IInv, TypeOK, minVars
  <2>4. Top'.level \in Nat
    <3>1. levels' \in Seq(Frames) /\ Len(levels') \in 1..Len(levels')
      BY <2>2
    <3> QED BY <3>1, FrameLevel DEF Top
  <2>5. Top'.level <= dl'
    BY <1>1, <2>2, <2>4 DEF IInv, TypeOK
  <2>6. TodoMatchesFlags' /\ PendingListed' /\ PendingOnTop'
    BY <2>2 DEF TodoMatchesFlags, PendingListed, PendingOnTop
  <2> QED BY <1>1, <2>2, <2>3, <2>5, <2>6 DEF IInv
<1>4. CASE ~HasFrame
  <2>1. UNCHANGED <<boundVars, levels, diffVars, sumVars, inactiveLevel, todoVars>>
    BY <1>4 DEF Undo
  <2>2. TypeOK'
    BY <1>1, <1>2, <2>1 DEF IInv, TypeOK, boundVars, diffVars, sumVars, todoVars, minVars
  <2>3. Top' = Top /\ Top.level <= dl' /\ inLdiff = {} /\ inUdiff = {}
    <3>1. Top.level \in Nat /\ Top.level <= dl /\ Top.level # dl /\ dl \in Nat
      BY <1>4, TopTyped DEF IInv, HasFrame, TypeOK
    <3> QED BY <1>1, <2>1, <3>1 DEF Top, IInv, PendingOnTop
  <2>4. TodoMatchesFlags' /\ PendingListed' /\ PendingOnTop'
    BY <2>1, <2>3 DEF IInv, TodoMatchesFlags, PendingListed, PendingOnTop, diffVars, todoVars
  <2> QED BY <1>1, <2>1, <2>2, <2>3, <2>4 DEF IInv, boundVars
<1> QED BY <1>3, <1>4

\* Without a step nothing changes.
LEMMA StutterInv ==
    ASSUME IInv, UNCHANGED vars
    PROVE  IInv'
BY DEF IInv, TypeOK, StacksOK, LowerFrames, UpperFrames, Top, TodoMatchesFlags,
       PendingListed, PendingOnTop, vars, boundVars, diffVars, sumVars, todoVars,
       minVars, litVars

-----------------------------------------------------------------------------
(* The theorems.                                                           *)

\* The invariant holds in every state the solver can be in.
THEOREM Invariance == Spec => []IInv
<1>1. Init => IInv
  BY InitInv
<1>2. IInv /\ [Next]_vars => IInv'
  <2> SUFFICES ASSUME IInv, [Next]_vars
               PROVE  IInv'
    OBVIOUS
  <2>1. CASE Decide
    BY <2>1, DecideInv
  <2>2. CASE UnitPropagate
    BY <2>2, UnitPropagateInv
  <2>3. CASE OtherThread
    BY <2>3, OtherThreadInv
  <2>4. CASE \E l \in queue : PropagateLiteral(l)
    BY <2>4, PropagateLiteralInv
  <2>5. CASE \E c \in Cons : PropagateCons(c)
    BY <2>5, PropagateConsInv
  <2>6. CASE CheckStart
    BY <2>6, CheckStartInv
  <2>7. CASE \E c \in Cons : CheckItem(c)
    BY <2>7, CheckItemInv
  <2>8. CASE CheckEnd
    BY <2>8, CheckEndInv
  <2>9. CASE Undo
    BY <2>9, UndoInv
  <2>10. CASE OnModel
    BY <2>10, OnModelInv
  <2>11. CASE UNCHANGED vars
    BY <2>11, StutterInv
  <2> QED BY <2>1, <2>2, <2>3, <2>4, <2>5, <2>6, <2>7, <2>8, <2>9, <2>10, <2>11
          DEF Next
<1> QED BY <1>1, <1>2, PTL DEF Spec

\* Type correctness of the solver state.
THEOREM TypeCorrect == Spec => []TypeOK
<1>1. IInv => TypeOK
  BY DEF IInv
<1> QED BY <1>1, Invariance, PTL

\* For every number of levels: the frames are ordered, and a variable has a
\* saved bound for the level of a frame exactly if the frame lists it, so
\* that undo never pops a bound that is not there or not of the level.
THEOREM UndoFindsItsBounds == Spec => []FramesMatchStacks
<1>1. IInv => FramesMatchStacks
  BY DEF IInv, StacksOK, LevelsOK, StackOK, LowerFrames, UpperFrames,
         FramesMatchStacks, SavedAt
<1> QED BY <1>1, Invariance, PTL

\* The todo list holds exactly the constraints whose flag is set, also after
\* a conflict in the middle of the list and after undo: no constraint is
\* propagated twice or never again.
THEOREM TodoListExact == Spec => []TodoMatchesFlags
<1>1. IInv => TodoMatchesFlags
  BY DEF IInv
<1> QED BY <1>1, Invariance, PTL

\* A variable is in a diff list exactly if its sums miss a change.
THEOREM PendingListExact == Spec => []PendingListed
<1>1. IInv => PendingListed
  BY DEF IInv
<1> QED BY <1>1, Invariance, PTL

-----------------------------------------------------------------------------
(* Refinement: the bounds of a level are found in the first entry of the   *)
(* stack that was saved on a higher level. At is BoundAt for a variable    *)
(* with the stack st and bound x.                                          *)

At(st, x, l) ==
    LET later == {i \in DOMAIN st : st[i].level > l}
    IN  IF later = {} THEN x
        ELSE st[CHOOSE i \in later : \A j \in later : i <= j].value

\* Without an entry of a higher level, it is the current bound.
LEMMA AtNone ==
    ASSUME NEW st \in Seq(Entries), NEW x, NEW l \in Nat,
           \A i \in 1..Len(st) : st[i].level <= l
    PROVE  At(st, x, l) = x
<1>1. DOMAIN st = 1..Len(st)
  OBVIOUS
<1>2. \A i \in 1..Len(st) : ~(st[i].level > l)
  BY EntryLevel
<1>3. {i \in DOMAIN st : st[i].level > l} = {}
  BY <1>1, <1>2
<1> QED BY <1>3 DEF At

\* Otherwise it is the value of the first of these entries.
LEMMA AtFirst ==
    ASSUME NEW st \in Seq(Entries), NEW x, NEW l \in Nat,
           NEW i \in 1..Len(st), st[i].level > l,
           \A j \in 1..Len(st) : st[j].level > l => i <= j
    PROVE  At(st, x, l) = st[i].value
<1> DEFINE later == {j \in DOMAIN st : st[j].level > l}
           k == CHOOSE j \in later : \A m \in later : j <= m
<1>1. DOMAIN st = 1..Len(st)
  OBVIOUS
<1>2. i \in later /\ \A m \in later : i <= m
  BY <1>1
<1>3. later \subseteq 1..Len(st)
  BY <1>1
<1>4. At(st, x, l) = st[k].value
  BY <1>2 DEF At
<1> HIDE DEF later
<1>5. k \in later /\ \A m \in later : k <= m
  BY <1>2
<1>6. k = i
  <2> HIDE DEF k
  <2> QED BY <1>2, <1>3, <1>5
<1> QED BY <1>4, <1>6

\* There is a first one.
LEMMA FirstEntry ==
    ASSUME NEW st \in Seq(Entries), NEW l \in Nat,
           NEW k \in 1..Len(st), st[k].level > l
    PROVE  \E i \in 1..Len(st) :
              /\ st[i].level > l
              /\ \A j \in 1..Len(st) : st[j].level > l => i <= j
<1> DEFINE later == {j \in 1..Len(st) : st[j].level > l}
<1>1. later \subseteq Nat /\ later # {}
  OBVIOUS
<1>2. PICK i \in later : \A j \in later : i <= j
  <2> HIDE DEF later
  <2> QED BY <1>1, LeastNatural
<1> QED BY <1>2

\* The bound itself does not matter for levels below the last entry, so that
\* it can change when it has been saved.
LEMMA AtBelow ==
    ASSUME NEW st \in Seq(Entries), NEW x, NEW y, NEW l \in Nat,
           NEW k \in 1..Len(st), st[k].level > l
    PROVE  At(st, x, l) = At(st, y, l)
<1>1. PICK i \in 1..Len(st) :
              /\ st[i].level > l
              /\ \A j \in 1..Len(st) : st[j].level > l => i <= j
  BY FirstEntry
<1> QED BY <1>1, AtFirst

\* Saving the bound on level d keeps the bounds of lower levels.
LEMMA AtSave ==
    ASSUME NEW st \in Seq(Entries), NEW x \in Int, NEW y, NEW l \in Nat,
           NEW d \in Nat, l < d
    PROVE  At(Append(st, [level |-> d, value |-> x]), y, l) = At(st, x, l)
<1> DEFINE e  == [level |-> d, value |-> x]
           su == Append(st, e)
           n  == Len(st)
<1>1. e \in Entries /\ e.level = d /\ e.value = x
  BY DEF Entries
<1>2. /\ su \in Seq(Entries) /\ Len(su) = n + 1 /\ n \in Nat
      /\ \A k \in 1..n : su[k] = st[k]
      /\ su[n + 1] = e
  BY <1>1
<1> HIDE DEF su, e
<1>3. CASE \E k \in 1..n : st[k].level > l
  <2>1. PICK i \in 1..n : /\ st[i].level > l
                          /\ \A j \in 1..n : st[j].level > l => i <= j
    BY <1>3, FirstEntry
  <2>2. i \in 1..Len(su) /\ su[i] = st[i]
    BY <1>2
  <2>3. \A j \in 1..Len(su) : su[j].level > l => i <= j
    BY <1>2, <2>1
  <2>4. At(su, y, l) = st[i].value
    BY <1>2, <2>1, <2>2, <2>3, AtFirst
  <2>5. At(st, x, l) = st[i].value
    BY <2>1, AtFirst
  <2> QED BY <2>4, <2>5 DEF su, e
<1>4. CASE \A k \in 1..n : ~(st[k].level > l)
  <2>1. \A k \in 1..n : st[k].level <= l
    BY <1>4, EntryLevel
  <2>2. At(st, x, l) = x
    BY <2>1, AtNone
  <2>3. n + 1 \in 1..Len(su) /\ su[n + 1].level > l
    BY <1>1, <1>2
  <2>4. \A j \in 1..Len(su) : su[j].level > l => n + 1 <= j
    BY <1>2, <1>4
  <2>5. At(su, y, l) = su[n + 1].value
    BY <1>2, <2>3, <2>4, AtFirst
  <2> QED BY <1>1, <1>2, <2>2, <2>5 DEF su, e
<1> QED BY <1>3, <1>4

\* Restoring the last saved bound keeps the bounds of lower levels.
LEMMA AtRestore ==
    ASSUME NEW st \in Seq(Entries), NEW y, NEW l \in Nat,
           Len(st) > 0, st[Len(st)].level > l
    PROVE  At(SubSeq(st, 1, Len(st) - 1), st[Len(st)].value, l) = At(st, y, l)
<1> DEFINE n  == Len(st)
           su == SubSeq(st, 1, n - 1)
<1>1. /\ su \in Seq(Entries) /\ Len(su) = n - 1 /\ n \in Nat /\ n \in 1..n
      /\ \A k \in 1..(n - 1) : su[k] = st[k]
  BY DropLast
<1> HIDE DEF su
<1>2. PICK i \in 1..n : /\ st[i].level > l
                        /\ \A j \in 1..n : st[j].level > l => i <= j
  BY <1>1, FirstEntry
<1>3. At(st, y, l) = st[i].value
  BY <1>2, AtFirst
<1>4. CASE i = n
  <2>1. ASSUME NEW k \in 1..Len(su)
        PROVE  su[k].level <= l
    <3>1. k \in 1..n /\ k < n /\ su[k] = st[k]
      BY <1>1
    <3>2. ~(st[k].level > l)
      BY <1>2, <1>4, <3>1
    <3> QED BY <3>1, <3>2, EntryLevel
  <2>2. At(su, st[n].value, l) = st[n].value
    BY <1>1, <2>1, AtNone
  <2> QED BY <1>3, <1>4, <2>2 DEF su
<1>5. CASE i # n
  <2>1. i \in 1..Len(su) /\ su[i] = st[i]
    BY <1>1, <1>5
  <2>2. \A j \in 1..Len(su) : su[j].level > l => i <= j
    BY <1>1, <1>2
  <2>3. At(su, st[n].value, l) = st[i].value
    BY <1>1, <1>2, <2>1, <2>2, AtFirst
  <2> QED BY <1>3, <2>3 DEF su
<1> QED BY <1>4, <1>5

-----------------------------------------------------------------------------
(* The bounds of all levels, as ImplementsTrail reads them from the state. *)

LowerAt(l) == [v \in Vars |-> BoundAt(lowerStack, lower, v, l)]
UpperAt(l) == [v \in Vars |-> BoundAt(upperStack, upper, v, l)]
Bounds == [l \in 0..dl |-> [lo |-> LowerAt(l), up |-> UpperAt(l)]]

\* Entries of the stacks belong to levels up to the decision level.
LEMMA EntriesUpToLevel ==
    ASSUME IInv, NEW v \in Vars
    PROVE  /\ lowerStack[v] \in Seq(Entries) /\ upperStack[v] \in Seq(Entries)
           /\ \A k \in 1..Len(lowerStack[v]) : lowerStack[v][k].level <= dl
           /\ \A k \in 1..Len(upperStack[v]) : upperStack[v][k].level <= dl
<1>1. /\ levels \in Seq(Frames) /\ LevelsOK(levels) /\ dl \in Nat /\ Top.level <= dl
      /\ lowerStack[v] \in Seq(Entries) /\ upperStack[v] \in Seq(Entries)
      /\ StackOK(lowerStack[v], levels, LowerFrames(levels, v))
      /\ StackOK(upperStack[v], levels, UpperFrames(levels, v))
  BY DEF IInv, TypeOK, StacksOK
<1>2. ASSUME NEW i \in 1..Len(levels)
      PROVE  levels[i].level <= dl
  <2>1. Len(levels) \in 1..Len(levels) /\ Len(levels) \in Nat
    BY <1>1
  <2>2. levels[i].level \in Nat /\ levels[Len(levels)].level \in Nat
    BY <1>1, <2>1, FrameLevel
  <2>3. i < Len(levels) \/ i = Len(levels)
    BY <2>1
  <2>4. levels[i].level <= levels[Len(levels)].level
    BY <1>1, <2>1, <2>2, <2>3 DEF LevelsOK
  <2> QED BY <1>1, <2>2, <2>4 DEF Top
<1> QED BY <1>1, <1>2 DEF StackOK

LEMMA BoundOfStack ==
    ASSUME NEW stack, NEW bound, NEW v, NEW l
    PROVE  BoundAt(stack, bound, v, l) = At(stack[v], bound[v], l)
BY DEF BoundAt, At

\* On the decision level these are the bounds of the state.
LEMMA BoundsOnTop ==
    ASSUME IInv, NEW l \in Nat, l >= dl
    PROVE  LowerAt(l) = lower /\ UpperAt(l) = upper
<1>1. /\ lower \in [Vars -> Int] /\ upper \in [Vars -> Int] /\ dl \in Nat
  BY DEF IInv, TypeOK
<1>2. ASSUME NEW v \in Vars
      PROVE  /\ BoundAt(lowerStack, lower, v, l) = lower[v]
             /\ BoundAt(upperStack, upper, v, l) = upper[v]
  <2>1. /\ \A k \in 1..Len(lowerStack[v]) : lowerStack[v][k].level <= l
        /\ \A k \in 1..Len(upperStack[v]) : upperStack[v][k].level <= l
    <3>1. \A m \in Nat : m <= dl => m <= l
      BY <1>1
    <3> QED BY <3>1, EntriesUpToLevel, EntryLevel
  <2>2. /\ At(lowerStack[v], lower[v], l) = lower[v]
        /\ At(upperStack[v], upper[v], l) = upper[v]
    BY <2>1, EntriesUpToLevel, AtNone
  <2> QED BY <2>2, BoundOfStack
<1> QED BY <1>1, <1>2 DEF LowerAt, UpperAt

\* What the abstract specification calls depth is the decision level.
LEMMA DepthIsLevel ==
    ASSUME dl \in Nat
    PROVE  Trail!Depth = dl
<1>1. dl \in 0..dl /\ \A e \in 0..dl : e <= dl
  OBVIOUS
<1>2. \A d \in 0..dl : (\A e \in 0..dl : e <= d) => d = dl
  BY <1>1
<1> QED BY <1>1, <1>2 DEF Trail!Depth

\* The abstract steps, in terms of Bounds.
LEMMA AbstractSteps ==
    ASSUME dl \in Nat
    PROVE  /\ Bounds' = [l \in 0..(dl + 1) |-> Bounds[IF l > dl THEN dl ELSE l]] => Trail!NewLevel
           /\ dl > 0 /\ Bounds' = [l \in 0..(dl - 1) |-> Bounds[l]] => Trail!Backtrack
           /\ \A v \in Vars :
                \A lo \in Bounds[dl].lo[v]..Bounds[dl].up[v], up \in Bounds[dl].lo[v]..Bounds[dl].up[v] :
                  lo <= up /\ Bounds' = [Bounds EXCEPT ![dl].lo[v] = lo, ![dl].up[v] = up] => Trail!Tighten(v)
<1>1. Trail!Depth = dl
  BY DepthIsLevel
<1>2. Bounds' = [l \in 0..(dl + 1) |-> Bounds[IF l > dl THEN dl ELSE l]] => Trail!NewLevel
  BY <1>1 DEF Trail!NewLevel, Bounds, LowerAt, UpperAt
<1>3. dl > 0 /\ Bounds' = [l \in 0..(dl - 1) |-> Bounds[l]] => Trail!Backtrack
  BY <1>1 DEF Trail!Backtrack, Bounds, LowerAt, UpperAt
<1>4. ASSUME NEW v \in Vars,
             NEW lo \in Bounds[dl].lo[v]..Bounds[dl].up[v], NEW up \in Bounds[dl].lo[v]..Bounds[dl].up[v],
             lo <= up, Bounds' = [Bounds EXCEPT ![dl].lo[v] = lo, ![dl].up[v] = up]
      PROVE  Trail!Tighten(v)
  <2>1. \E a \in Bounds[Trail!Depth].lo[v]..Bounds[Trail!Depth].up[v],
            b \in Bounds[Trail!Depth].lo[v]..Bounds[Trail!Depth].up[v] :
           /\ a <= b
           /\ Bounds' = [Bounds EXCEPT ![Trail!Depth].lo[v] = a, ![Trail!Depth].up[v] = b]
    BY <1>1, <1>4
  <2> QED BY <2>1, Zenon DEF Trail!Tighten, Bounds, LowerAt, UpperAt
<1> QED BY <1>2, <1>3, <1>4

-----------------------------------------------------------------------------
(* The steps of SolverState.                                               *)

LEMMA KeptBounds ==
    ASSUME UNCHANGED <<boundVars, dl>>
    PROVE  Bounds' = Bounds
BY DEF Bounds, LowerAt, UpperAt, boundVars

LEMMA InitTrail ==
    ASSUME Init
    PROVE  Trail!Init
<1>1. IInv
  BY InitInv
<1>2. dl = 0 /\ lower = InitLower /\ upper = InitUpper
  BY DEF Init
<1>3. LowerAt(0) = InitLower /\ UpperAt(0) = InitUpper
  BY <1>1, <1>2, BoundsOnTop
<1>4. 0..0 = {0}
  OBVIOUS
<1>5. Bounds = [l \in {0} |-> [lo |-> InitLower, up |-> InitUpper]]
  BY <1>2, <1>3, <1>4 DEF Bounds
<1> QED BY <1>5, Zenon DEF Trail!Init, Bounds, LowerAt, UpperAt

\* A new level starts with the bounds of the one below.
LEMMA DecideTrail ==
    ASSUME IInv, Decide
    PROVE  Trail!NewLevel
<1>1. dl \in Nat /\ dl' = dl + 1 /\ UNCHANGED boundVars
  BY DEF Decide, IInv, TypeOK
<1>2. \A l \in 0..(dl + 1) : LowerAt(l)' = LowerAt(l) /\ UpperAt(l)' = UpperAt(l)
  BY <1>1 DEF LowerAt, UpperAt, boundVars
<1>3. LowerAt(dl + 1) = LowerAt(dl) /\ UpperAt(dl + 1) = UpperAt(dl)
  BY <1>1, BoundsOnTop
<1>4. Bounds' = [l \in 0..(dl + 1) |-> [lo |-> LowerAt(l), up |-> UpperAt(l)]]
  <2>1. Bounds' = [l \in 0..dl' |-> [lo |-> LowerAt(l)', up |-> UpperAt(l)']]
    BY DEF Bounds
  <2> QED BY <1>1, <1>2, <2>1
<1>5. ASSUME NEW l \in 0..(dl + 1)
      PROVE  Bounds[IF l > dl THEN dl ELSE l] = [lo |-> LowerAt(l), up |-> UpperAt(l)]
  <2>1. CASE l > dl
    <3>1. l = dl + 1 /\ dl \in 0..dl
      BY <1>1, <2>1
    <3> QED BY <1>3, <2>1, <3>1 DEF Bounds
  <2>2. CASE ~(l > dl)
    <3>1. l \in 0..dl
      BY <1>1, <2>2
    <3> QED BY <2>2, <3>1 DEF Bounds
  <2> QED BY <2>1, <2>2
<1>6. Bounds' = [l \in 0..(dl + 1) |-> Bounds[IF l > dl THEN dl ELSE l]]
  BY <1>4, <1>5
<1> QED BY <1>1, <1>6, AbstractSteps

\* What update_upper and update_lower do to the stack st of a bound x on level
\* d: it keeps the bounds of lower levels, and d has the new bound y.
Saving(st, x, d) == IF d > 0 /\ ~Pushed(st, d) THEN Append(st, [level |-> d, value |-> x]) ELSE st

LEMMA AtUpdate ==
    ASSUME NEW st \in Seq(Entries), NEW x \in Int, NEW y \in Int, NEW d \in Nat,
           \A k \in 1..Len(st) : st[k].level <= d
    PROVE  /\ \A l \in 0..(d - 1) : At(Saving(st, x, d), y, l) = At(st, x, l)
           /\ At(Saving(st, x, d), y, d) = y
<1>1. ASSUME NEW l \in 0..(d - 1)
      PROVE  At(Saving(st, x, d), y, l) = At(st, x, l)
  <2>1. l \in Nat /\ l < d /\ d > 0
    OBVIOUS
  <2>2. CASE Pushed(st, d)
    <3>1. Len(st) \in 1..Len(st) /\ st[Len(st)].level > l
      BY <2>1, <2>2 DEF Pushed
    <3> QED BY <2>1, <2>2, <3>1, AtBelow DEF Saving
  <2>3. CASE ~Pushed(st, d)
    BY <2>1, <2>3, AtSave DEF Saving
  <2> QED BY <2>2, <2>3
<1>2. At(Saving(st, x, d), y, d) = y
  <2> DEFINE e == [level |-> d, value |-> x]
             su == Saving(st, x, d)
  <2>1. e \in Entries /\ e.level = d
    BY DEF Entries
  <2>2. su = st \/ su = Append(st, e)
    BY DEF Saving
  <2> HIDE DEF e, su
  <2>3. CASE su = st
    BY <2>3, AtNone DEF su
  <2>4. CASE su = Append(st, e)
    <3>1. /\ su \in Seq(Entries) /\ Len(su) = Len(st) + 1
          /\ \A k \in 1..Len(st) : su[k] = st[k]
          /\ su[Len(st) + 1] = e
      BY <2>1, <2>4
    <3>2. ASSUME NEW k \in 1..Len(su)
          PROVE  su[k].level <= d
      <4>1. k \in 1..Len(st) \/ k = Len(st) + 1
        BY <3>1
      <4> QED BY <2>1, <3>1, <4>1
    <3> QED BY <3>1, <3>2, AtNone DEF su
  <2> QED BY <2>2, <2>3, <2>4
<1> QED BY <1>1, <1>2

\* Bounds of one variable that move on the current level.
LEMMA TightenTrail ==
    ASSUME IInv, dl' = dl, NEW v \in Vars,
           NEW x \in lower[v]..upper[v], NEW y \in lower[v]..upper[v], x <= y,
           \A l \in 0..(dl - 1) : LowerAt(l)' = LowerAt(l) /\ UpperAt(l)' = UpperAt(l),
           LowerAt(dl)' = [lower EXCEPT ![v] = x], UpperAt(dl)' = [upper EXCEPT ![v] = y]
    PROVE  Trail!Tighten(v)
<1>1. dl \in Nat /\ dl \in 0..dl /\ lower \in [Vars -> Int] /\ upper \in [Vars -> Int]
  BY DEF IInv, TypeOK
<1>2. Bounds[dl] = [lo |-> lower, up |-> upper]
  BY <1>1, BoundsOnTop DEF Bounds
<1>3. Bounds' = [l \in 0..dl |-> [lo |-> LowerAt(l)', up |-> UpperAt(l)']]
  BY DEF Bounds
<1>4. [Bounds EXCEPT ![dl].lo[v] = x, ![dl].up[v] = y]
        = [l \in 0..dl |-> IF l = dl THEN [lo |-> [lower EXCEPT ![v] = x], up |-> [upper EXCEPT ![v] = y]]
                           ELSE [lo |-> LowerAt(l), up |-> UpperAt(l)]]
  <2>1. /\ Bounds = [l \in 0..dl |-> Bounds[l]]
        /\ \A l \in 0..dl : Bounds[l] = [lo |-> LowerAt(l), up |-> UpperAt(l)]
    BY DEF Bounds
  <2>2. [Bounds EXCEPT ![dl].lo[v] = x, ![dl].up[v] = y]
          = [l \in 0..dl |-> IF l = dl THEN [lo |-> [lower EXCEPT ![v] = x], up |-> [upper EXCEPT ![v] = y]]
                             ELSE Bounds[l]]
    <3> DEFINE a == [lower EXCEPT ![v] = x]
               b == [upper EXCEPT ![v] = y]
               r == [lo |-> a, up |-> upper]
               t == [lo |-> a, up |-> b]
               G == [Bounds EXCEPT ![dl].lo[v] = x]
    <3>1. G = [Bounds EXCEPT ![dl] = [Bounds[dl] EXCEPT !.lo = [Bounds[dl].lo EXCEPT ![v] = x]]]
      BY <2>1
    <3>2. [Bounds[dl] EXCEPT !.lo = [Bounds[dl].lo EXCEPT ![v] = x]] = r
      <4>1. Bounds[dl].lo = lower
        BY <1>2
      <4> HIDE DEF a
      <4>2. [[lo |-> lower, up |-> upper] EXCEPT !.lo = a] = r
        OBVIOUS
      <4> QED BY <1>2, <4>1, <4>2 DEF a
    <3>3. [Bounds EXCEPT ![dl].lo[v] = x, ![dl].up[v] = y] = [G EXCEPT ![dl].up[v] = y]
      OBVIOUS
    <3> HIDE DEF G
    <3>4. G = [l \in 0..dl |-> IF l = dl THEN r ELSE Bounds[l]]
      <4> HIDE DEF r
      <4> QED BY <1>1, <2>1, <3>1, <3>2
    <3>5. [G EXCEPT ![dl].up[v] = y] = [G EXCEPT ![dl] = [G[dl] EXCEPT !.up = [G[dl].up EXCEPT ![v] = y]]]
      BY <3>4
    <3>6. [G[dl] EXCEPT !.up = [G[dl].up EXCEPT ![v] = y]] = t
      <4> HIDE DEF a
      <4>1. G[dl] = r /\ r.up = upper
        BY <1>1, <3>4
      <4> HIDE DEF b
      <4>2. [[lo |-> a, up |-> upper] EXCEPT !.up = b] = t
        OBVIOUS
      <4> QED BY <4>1, <4>2 DEF b
    <3>7. [G EXCEPT ![dl] = t] = [l \in 0..dl |-> IF l = dl THEN t ELSE Bounds[l]]
      <4> HIDE DEF r, t
      <4> QED BY <1>1, <3>4
    <3> HIDE DEF t
    <3>8. [Bounds EXCEPT ![dl].lo[v] = x, ![dl].up[v] = y] = [l \in 0..dl |-> IF l = dl THEN t ELSE Bounds[l]]
      BY <3>3, <3>5, <3>6, <3>7
    <3> QED BY <3>8 DEF t
  <2> QED BY <2>1, <2>2
<1>5. ASSUME NEW l \in 0..dl
      PROVE  [lo |-> LowerAt(l)', up |-> UpperAt(l)']
               = IF l = dl THEN [lo |-> [lower EXCEPT ![v] = x], up |-> [upper EXCEPT ![v] = y]]
                 ELSE [lo |-> LowerAt(l), up |-> UpperAt(l)]
  <2>1. CASE l = dl
    BY <2>1
  <2>2. CASE l # dl
    <3>1. l \in 0..(dl - 1)
      BY <1>1, <2>2
    <3> QED BY <2>2, <3>1
  <2> QED BY <2>1, <2>2
<1>6. Bounds' = [Bounds EXCEPT ![dl].lo[v] = x, ![dl].up[v] = y]
  BY <1>3, <1>4, <1>5
<1>7. x \in Bounds[dl].lo[v]..Bounds[dl].up[v] /\ y \in Bounds[dl].lo[v]..Bounds[dl].up[v]
  BY <1>2
<1> QED BY <1>1, <1>6, <1>7, AbstractSteps

LEMMA UpperTrail ==
    ASSUME IInv, dl' = dl, NEW v \in Vars, NEW value \in Int,
           lower[v] <= value, value < upper[v], UpdateUpper(v, value)
    PROVE  Trail!Tighten(v)
<1>1. /\ dl \in Nat /\ lower \in [Vars -> Int] /\ upper \in [Vars -> Int]
      /\ upperStack \in [Vars -> Seq(Entries)]
  BY DEF IInv, TypeOK
<1>2. /\ upper' = [upper EXCEPT ![v] = value] /\ lower' = lower /\ lowerStack' = lowerStack
      /\ \A w \in Vars : upperStack'[w] = IF w = v THEN Saving(upperStack[w], upper[w], dl) ELSE upperStack[w]
  BY <1>1 DEF UpdateUpper, Saving
<1>3. ASSUME NEW w \in Vars
      PROVE  /\ \A l \in 0..(dl - 1) : BoundAt(upperStack', upper', w, l) = BoundAt(upperStack, upper, w, l)
             /\ BoundAt(upperStack', upper', w, dl) = upper'[w]
  <2>1. /\ upperStack[w] \in Seq(Entries) /\ upper[w] \in Int /\ upper'[w] \in Int
        /\ \A k \in 1..Len(upperStack[w]) : upperStack[w][k].level <= dl
    BY <1>1, <1>2, EntriesUpToLevel
  <2>2. CASE w = v
    <3>1. upperStack'[w] = Saving(upperStack[w], upper[w], dl)
      BY <1>2, <2>2
    <3>2. /\ \A l \in 0..(dl - 1) : At(upperStack'[w], upper'[w], l) = At(upperStack[w], upper[w], l)
          /\ At(upperStack'[w], upper'[w], dl) = upper'[w]
      <4>1. dl \in Nat
        BY <1>1
      <4> QED BY <2>1, <3>1, <4>1, AtUpdate
    <3> QED BY <3>2, BoundOfStack
  <2>3. CASE w # v
    <3>1. upperStack'[w] = upperStack[w] /\ upper'[w] = upper[w]
      BY <1>1, <1>2, <2>3
    <3>2. At(upperStack[w], upper[w], dl) = upper[w]
      BY <1>1, <2>1, AtNone
    <3> QED BY <3>1, <3>2, BoundOfStack
  <2> QED BY <2>2, <2>3
<1>4. \A l \in 0..(dl - 1) : LowerAt(l)' = LowerAt(l) /\ UpperAt(l)' = UpperAt(l)
  BY <1>2, <1>3 DEF LowerAt, UpperAt
<1>5. LowerAt(dl)' = lower
  <2>1. LowerAt(dl)' = LowerAt(dl)
    BY <1>2 DEF LowerAt
  <2> QED BY <1>1, <2>1, BoundsOnTop
<1>6. UpperAt(dl)' = [upper EXCEPT ![v] = value]
  <2>1. UpperAt(dl)' = [w \in Vars |-> BoundAt(upperStack', upper', w, dl)]
    BY DEF UpperAt
  <2> QED BY <1>1, <1>2, <1>3, <2>1
<1>7. lower[v] \in lower[v]..upper[v] /\ value \in lower[v]..upper[v] /\ lower = [lower EXCEPT ![v] = lower[v]]
  BY <1>1
<1> QED BY <1>4, <1>5, <1>6, <1>7, TightenTrail

LEMMA LowerTrail ==
    ASSUME IInv, dl' = dl, NEW v \in Vars, NEW value \in Int,
           lower[v] < value + 1, value + 1 <= upper[v], UpdateLower(v, value)
    PROVE  Trail!Tighten(v)
<1>1. /\ dl \in Nat /\ lower \in [Vars -> Int] /\ upper \in [Vars -> Int]
      /\ lowerStack \in [Vars -> Seq(Entries)] /\ value + 1 \in Int
  BY DEF IInv, TypeOK
<1>2. /\ lower' = [lower EXCEPT ![v] = value + 1] /\ upper' = upper /\ upperStack' = upperStack
      /\ \A w \in Vars : lowerStack'[w] = IF w = v THEN Saving(lowerStack[w], lower[w], dl) ELSE lowerStack[w]
  BY <1>1 DEF UpdateLower, Saving
<1>3. ASSUME NEW w \in Vars
      PROVE  /\ \A l \in 0..(dl - 1) : BoundAt(lowerStack', lower', w, l) = BoundAt(lowerStack, lower, w, l)
             /\ BoundAt(lowerStack', lower', w, dl) = lower'[w]
  <2>1. /\ lowerStack[w] \in Seq(Entries) /\ lower[w] \in Int /\ lower'[w] \in Int
        /\ \A k \in 1..Len(lowerStack[w]) : lowerStack[w][k].level <= dl
    BY <1>1, <1>2, EntriesUpToLevel
  <2>2. CASE w = v
    <3>1. lowerStack'[w] = Saving(lowerStack[w], lower[w], dl)
      BY <1>2, <2>2
    <3>2. /\ \A l \in 0..(dl - 1) : At(lowerStack'[w], lower'[w], l) = At(lowerStack[w], lower[w], l)
          /\ At(lowerStack'[w], lower'[w], dl) = lower'[w]
      <4>1. dl \in Nat
        BY <1>1
      <4> QED BY <2>1, <3>1, <4>1, AtUpdate
    <3> QED BY <3>2, BoundOfStack
  <2>3. CASE w # v
    <3>1. lowerStack'[w] = lowerStack[w] /\ lower'[w] = lower[w]
      BY <1>1, <1>2, <2>3
    <3>2. At(lowerStack[w], lower[w], dl) = lower[w]
      BY <1>1, <2>1, AtNone
    <3> QED BY <3>1, <3>2, BoundOfStack
  <2> QED BY <2>2, <2>3
<1>4. \A l \in 0..(dl - 1) : LowerAt(l)' = LowerAt(l) /\ UpperAt(l)' = UpperAt(l)
  BY <1>2, <1>3 DEF LowerAt, UpperAt
<1>5. UpperAt(dl)' = upper
  <2>1. UpperAt(dl)' = UpperAt(dl)
    BY <1>2 DEF UpperAt
  <2> QED BY <1>1, <2>1, BoundsOnTop
<1>6. LowerAt(dl)' = [lower EXCEPT ![v] = value + 1]
  <2>1. LowerAt(dl)' = [w \in Vars |-> BoundAt(lowerStack', lower', w, dl)]
    BY DEF LowerAt
  <2> QED BY <1>1, <1>2, <1>3, <2>1
<1>7. upper[v] \in lower[v]..upper[v] /\ value + 1 \in lower[v]..upper[v] /\ upper = [upper EXCEPT ![v] = upper[v]]
  BY <1>1
<1> QED BY <1>1, <1>4, <1>5, <1>6, <1>7, TightenTrail

LEMMA PropagateTrail ==
    ASSUME IInv, NEW l \in queue, PropagateLiteral(l)
    PROVE  Bounds' = Bounds \/ \E v \in Vars : Trail!Tighten(v)
<1>1. /\ l.var \in Vars /\ l.value \in Int /\ l.kind \in {"le", "gt"} /\ dl' = dl
      /\ lower[l.var] \in Int /\ upper[l.var] \in Int
  BY DEF PropagateLiteral, IInv, TypeOK, Literals
<1>2. CASE UNCHANGED boundVars
  BY <1>1, <1>2, KeptBounds
<1>3. CASE ~Crosses(l) /\ Tightens(l) /\ l.kind = "le" /\ UpdateUpper(l.var, l.value)
  <2>1. lower[l.var] <= l.value /\ l.value < upper[l.var]
    BY <1>1, <1>3 DEF Crosses, Tightens
  <2> QED BY <1>1, <1>3, <2>1, UpperTrail
<1>4. CASE ~Crosses(l) /\ Tightens(l) /\ l.kind = "gt" /\ UpdateLower(l.var, l.value)
  <2>1. lower[l.var] < l.value + 1 /\ l.value + 1 <= upper[l.var]
    BY <1>1, <1>4 DEF Crosses, Tightens
  <2> QED BY <1>1, <1>4, <2>1, LowerTrail
<1> QED BY <1>1, <1>2, <1>3, <1>4 DEF PropagateLiteral

\* Undoing a frame pops what its level saved.
LEMMA UndoTrail ==
    ASSUME IInv, Undo
    PROVE  Trail!Backtrack
<1>1. dl \in Nat /\ dl > 0 /\ dl' = dl - 1
  BY DEF Undo, IInv, TypeOK
<1>2. ASSUME NEW l \in 0..(dl - 1)
      PROVE  LowerAt(l)' = LowerAt(l) /\ UpperAt(l)' = UpperAt(l)
  <2>1. CASE ~HasFrame
    <3>1. UNCHANGED boundVars
      BY <2>1 DEF Undo
    <3> QED BY <3>1 DEF LowerAt, UpperAt, boundVars
  <2>2. CASE HasFrame
    <3>1. /\ lower' = Restored(lowerStack, lower, Top.undoLower)
          /\ upper' = Restored(upperStack, upper, Top.undoUpper)
          /\ lowerStack' = Popped(lowerStack, Top.undoLower)
          /\ upperStack' = Popped(upperStack, Top.undoUpper)
      BY <2>2 DEF Undo, UndoFrame
    <3>2. /\ levels \in Seq(Frames) /\ LevelsOK(levels)
          /\ Len(levels) \in 1..Len(levels) /\ levels[Len(levels)].level = dl
      BY <2>2 DEF IInv, TypeOK, StacksOK, HasFrame, Top
    <3>3. l \in Nat /\ l < dl
      BY <1>1
    <3>4. ASSUME NEW v \in Vars
          PROVE  BoundAt(lowerStack', lower', v, l) = BoundAt(lowerStack, lower, v, l)
      <4> DEFINE st == lowerStack[v]
      <4>1. st \in Seq(Entries) /\ StackOK(st, levels, LowerFrames(levels, v))
        BY DEF IInv, TypeOK, StacksOK
      <4>2. CASE v \in Top.undoLower
        <5>1. Len(levels) \in LowerFrames(levels, v)
          BY <3>2, <4>2 DEF LowerFrames, Top
        <5>2. Len(st) > 0 /\ st[Len(st)].level > l
          BY <3>2, <3>3, <4>1, <5>1, StackLast
        <5>3. lower'[v] = st[Len(st)].value /\ lowerStack'[v] = SubSeq(st, 1, Len(st) - 1)
          BY <3>1, <4>2 DEF Restored, Popped
        <5> HIDE DEF st
        <5>4. At(lowerStack'[v], lower'[v], l) = At(st, lower[v], l)
          BY <3>3, <4>1, <5>2, <5>3, AtRestore
        <5> QED BY <5>4, BoundOfStack DEF st
      <4>3. CASE v \notin Top.undoLower
        <5>1. lower'[v] = lower[v] /\ lowerStack'[v] = lowerStack[v]
          BY <3>1, <4>3 DEF Restored, Popped
        <5> QED BY <5>1, BoundOfStack
      <4> QED BY <4>2, <4>3
    <3>5. ASSUME NEW v \in Vars
          PROVE  BoundAt(upperStack', upper', v, l) = BoundAt(upperStack, upper, v, l)
      <4> DEFINE st == upperStack[v]
      <4>1. st \in Seq(Entries) /\ StackOK(st, levels, UpperFrames(levels, v))
        BY DEF IInv, TypeOK, StacksOK
      <4>2. CASE v \in Top.undoUpper
        <5>1. Len(levels) \in UpperFrames(levels, v)
          BY <3>2, <4>2 DEF UpperFrames, Top
        <5>2. Len(st) > 0 /\ st[Len(st)].level > l
          BY <3>2, <3>3, <4>1, <5>1, StackLast
        <5>3. upper'[v] = st[Len(st)].value /\ upperStack'[v] = SubSeq(st, 1, Len(st) - 1)
          BY <3>1, <4>2 DEF Restored, Popped
        <5> HIDE DEF st
        <5>4. At(upperStack'[v], upper'[v], l) = At(st, upper[v], l)
          BY <3>3, <4>1, <5>2, <5>3, AtRestore
        <5> QED BY <5>4, BoundOfStack DEF st
      <4>3. CASE v \notin Top.undoUpper
        <5>1. upper'[v] = upper[v] /\ upperStack'[v] = upperStack[v]
          BY <3>1, <4>3 DEF Restored, Popped
        <5> QED BY <5>1, BoundOfStack
      <4> QED BY <4>2, <4>3
    <3> QED BY <3>4, <3>5 DEF LowerAt, UpperAt
  <2> QED BY <2>1, <2>2
<1>3. Bounds' = [l \in 0..(dl - 1) |-> Bounds[l]]
  <2>1. Bounds' = [l \in 0..(dl - 1) |-> [lo |-> LowerAt(l)', up |-> UpperAt(l)']]
    BY <1>1 DEF Bounds
  <2>2. \A l \in 0..(dl - 1) : Bounds[l] = [lo |-> LowerAt(l), up |-> UpperAt(l)]
    BY <1>1 DEF Bounds
  <2> QED BY <1>2, <2>1, <2>2
<1> QED BY <1>1, <1>3, AbstractSteps

-----------------------------------------------------------------------------
\* The solver keeps the bounds of every decision level: whatever the order in
\* which literals arrive, checks are cut short and levels are undone, only the
\* bounds of the deepest level change, they only get tighter, and undo restores
\* exactly those of the level below.
THEOREM BoundsImplementTrail == Spec => ImplementsTrail
<1>1. Init => Trail!Init
  BY InitTrail
<1>2. IInv /\ [Next]_vars => Trail!Next \/ Bounds' = Bounds
  <2> SUFFICES ASSUME IInv, [Next]_vars
               PROVE  Trail!Next \/ Bounds' = Bounds
    OBVIOUS
  <2>1. CASE Decide
    BY <2>1, DecideTrail DEF Trail!Next
  <2>2. CASE \E l \in queue : PropagateLiteral(l)
    BY <2>2, PropagateTrail DEF Trail!Next, Vars
  <2>3. CASE Undo
    BY <2>3, UndoTrail DEF Trail!Next
  <2>4. CASE UNCHANGED <<boundVars, dl>>
    BY <2>4, KeptBounds
  <2>5. UNCHANGED <<boundVars, dl>> \/ Decide \/ Undo \/ \E l \in queue : PropagateLiteral(l)
    BY DEF Next, UnitPropagate, OtherThread, PropagateCons, CheckStart, CheckItem, CheckEnd, OnModel, vars
  <2> QED BY <2>1, <2>2, <2>3, <2>4, <2>5
<1>3. Bounds' = Bounds <=> UNCHANGED [l \in 0..dl |-> [lo |-> [v \in Vars |-> BoundAt(lowerStack, lower, v, l)],
                                                       up |-> [v \in Vars |-> BoundAt(upperStack, upper, v, l)]]]
  BY DEF Bounds, LowerAt, UpperAt
<1> QED BY <1>1, <1>2, <1>3, Invariance, PTL DEF Spec, ImplementsTrail, Trail!Spec

-----------------------------------------------------------------------------
(***************************************************************************)
(* What the solver promises clasp, for any number of variables, levels and *)
(* constraints: at a fixpoint no constraint is violated, constraints that  *)
(* are left alone cannot matter, literals that are enforced follow, and a  *)
(* conflict on the top level means there is no solution. The argument is   *)
(* by levels: each level below the current one was left at a fixpoint, its *)
(* bounds and literals are what undo restores, and a constraint that is    *)
(* inactive was so for a reason that holds on the level of its mark.       *)
(*                                                                         *)
(* The first part is about the sums of the constraints, which belong to    *)
(* the bounds. A constraint that is inactive since a lower level is not    *)
(* told about bounds, at the latest when one of its variables changes it   *)
(* is removed from its watches. That its sums are right again when it      *)
(* becomes active rests on what has been left out: the bounds it was told  *)
(* are those of the level it became inactive on.                           *)
(***************************************************************************)

-----------------------------------------------------------------------------
(* The invariant.                                                          *)

\* A constraint is marked in the frame of the level before its inactive level.
MarksInv ==
    \A c \in Cons :
        /\ \A i \in 1..Len(levels) :
             c \in levels[i].inactive => inactiveLevel[c] = levels[i].level + 1
        /\ Marked(c) => \E i \in 1..Len(levels) : c \in levels[i].inactive

\* c has watched v in the frame i.
HeldAt(i, v, c) ==
    c \in watches[v] \/ \E k \in 1..Len(levels) : k > i /\ <<v, c>> \in levels[k].removed

\* A watch that is missing was removed in a frame where the constraint was
\* inactive since a lower level.
WatchesInv ==
    \A v \in Vars, c \in Cons :
        /\ Coef[c][v] # 0 => HeldAt(0, v, c)
        /\ \A k \in 1..Len(levels) :
             <<v, c>> \in levels[k].removed => RemovableAt(c, levels[k].level)

\* The change of a bound on the level of frame i that has been reported.
Gained(lv, st, x, d, i) ==
    At(st, x, lv[i].level) - At(st, x, lv[i].level - 1) - (IF i = Len(lv) THEN d ELSE 0)
GainedLower(v, i) == Gained(levels, lowerStack[v], lower[v], ldiff[v], i)
GainedUpper(v, i) == Gained(levels, upperStack[v], upper[v], udiff[v], i)

\* Bounds only get tighter, and those of a variable have not been reported in
\* a frame where an inactive constraint still watches it.
GainsInv ==
    \A v \in Vars, i \in 2..Len(levels) :
        /\ GainedLower(v, i) >= 0 /\ GainedUpper(v, i) <= 0
        /\ \A c \in Cons : RemovableAt(c, levels[i].level) /\ HeldAt(i, v, c)
                             => GainedLower(v, i) = 0 /\ GainedUpper(v, i) = 0

\* The bounds a constraint was told.
Told(c, st, x, d) == IF RemovableAt(c, Top.level) THEN At(st, x, inactiveLevel[c] - 1) ELSE x - d
ToldLower(c) == [v \in Vars |-> Told(c, lowerStack[v], lower[v], ldiff[v])]
ToldUpper(c) == [v \in Vars |-> Told(c, upperStack[v], upper[v], udiff[v])]

\* The sums are those of the bounds told.
SumsInv ==
    \A c \in Cons : /\ csLower[c] = LowerSum(c, ToldLower(c), ToldUpper(c))
                    /\ csUpper[c] = UpperSum(c, ToldLower(c), ToldUpper(c))

\* The inductive invariant.
SInv == IInv /\ MarksInv /\ WatchesInv /\ GainsInv /\ SumsInv

-----------------------------------------------------------------------------
(* Sums.                                                                   *)

\* Sums over the variables are additive.
LEMMA SumOfSum ==
    ASSUME NEW f \in [Vars -> Int], NEW g \in [Vars -> Int], NEW h \in [Vars -> Int],
           \A v \in Vars : h[v] = f[v] + g[v]
    PROVE  Sum(NumVars, h) = Sum(NumVars, f) + Sum(NumVars, g)
BY SumAdd, NumVarsAssumption DEF Vars

\* When the bounds x and y of a variable become x2 and y2, its part of the lower
\* sum changes by d and its part of the upper sum by e.
Moves(co, x, y, x2, y2, d, e) ==
    /\ co * (IF co > 0 THEN x2 ELSE y2) = co * (IF co > 0 THEN x ELSE y) + d
    /\ co * (IF co > 0 THEN y2 ELSE x2) = co * (IF co > 0 THEN y ELSE x) + e

\* The same for all parts of the sums of c.
PartsMove(c, lo, up, lo2, up2, f, g) ==
    \A v \in Vars : Moves(Coef[c][v], lo[v], up[v], lo2[v], up2[v], f[v], g[v])

\* Sums change with their parts.
LEMMA SumsMove ==
    ASSUME NEW c \in Cons,
           NEW lo \in [Vars -> Int], NEW up \in [Vars -> Int],
           NEW lo2 \in [Vars -> Int], NEW up2 \in [Vars -> Int],
           NEW f \in [Vars -> Int], NEW g \in [Vars -> Int],
           PartsMove(c, lo, up, lo2, up2, f, g)
    PROVE  /\ LowerSum(c, lo2, up2) = LowerSum(c, lo, up) + Sum(NumVars, f)
           /\ UpperSum(c, lo2, up2) = UpperSum(c, lo, up) + Sum(NumVars, g)
<1> DEFINE l1 == [v \in Vars |-> Coef[c][v] * (IF Coef[c][v] > 0 THEN lo[v] ELSE up[v])]
           l2 == [v \in Vars |-> Coef[c][v] * (IF Coef[c][v] > 0 THEN lo2[v] ELSE up2[v])]
           u1 == [v \in Vars |-> Coef[c][v] * (IF Coef[c][v] > 0 THEN up[v] ELSE lo[v])]
           u2 == [v \in Vars |-> Coef[c][v] * (IF Coef[c][v] > 0 THEN up2[v] ELSE lo2[v])]
<1>1. \A x, y \in Int : x * y \in Int
  OBVIOUS
<1>2. \A v \in Vars : Coef[c][v] \in Int
  BY CoefAssumption
<1>3. /\ l1 \in [Vars -> Int] /\ l2 \in [Vars -> Int]
      /\ u1 \in [Vars -> Int] /\ u2 \in [Vars -> Int]
  BY <1>1, <1>2
<1>4. \A v \in Vars : l2[v] = l1[v] + f[v] /\ u2[v] = u1[v] + g[v]
  BY DEF Moves, PartsMove
<1>5. LowerSum(c, lo2, up2) = Sum(NumVars, l2) /\ LowerSum(c, lo, up) = Sum(NumVars, l1)
  BY DEF LowerSum
<1>6. UpperSum(c, lo2, up2) = Sum(NumVars, u2) /\ UpperSum(c, lo, up) = Sum(NumVars, u1)
  BY DEF UpperSum
<1> HIDE DEF l1, l2, u1, u2
<1>7. Sum(NumVars, l2) = Sum(NumVars, l1) + Sum(NumVars, f)
  <2>1. l1 \in [Vars -> Int] /\ l2 \in [Vars -> Int] /\ f \in [Vars -> Int]
    BY <1>3
  <2>2. \A v \in Vars : l2[v] = l1[v] + f[v]
    BY <1>4
  <2> QED BY <2>1, <2>2, SumOfSum
<1>8. Sum(NumVars, u2) = Sum(NumVars, u1) + Sum(NumVars, g)
  <2>1. u1 \in [Vars -> Int] /\ u2 \in [Vars -> Int] /\ g \in [Vars -> Int]
    BY <1>3
  <2>2. \A v \in Vars : u2[v] = u1[v] + g[v]
    BY <1>4
  <2> QED BY <2>1, <2>2, SumOfSum
<1> QED BY <1>5, <1>6, <1>7, <1>8

\* A lower bound that grew by a and an upper bound that shrank by -b: the
\* signs of the products tell which sums they belong to.
LEMMA ChangesSplit ==
    ASSUME NEW co \in Int, NEW x \in Int, NEW y \in Int,
           NEW a \in Int, NEW b \in Int, a >= 0, b <= 0
    PROVE  Moves(co, x, y, x + a, y + b, Positive(co * a) + Positive(co * b),
                                         Negative(co * a) + Negative(co * b))
<1>1. \A p, q \in Int : p * q \in Int /\ co * (p + q) = co * p + co * q
  OBVIOUS
<1>2. \A p, q \in Nat : p * q >= 0 /\ (-p) * q <= 0 /\ p * (-q) <= 0 /\ (-p) * (-q) >= 0
  <2>1. \A p, q \in Nat : p * q \in Nat
    OBVIOUS
  <2>2. \A p, q \in Nat : (-p) * q = -(p * q) /\ p * (-q) = -(p * q) /\ (-p) * (-q) = p * q
    OBVIOUS
  <2> QED BY <2>1, <2>2
<1>3. a \in Nat /\ -b \in Nat /\ b = -(-b)
  OBVIOUS
<1> DEFINE A == co * a
           B == co * b
           X == co * x
           Y == co * y
<1>4. /\ co * (x + a) = X + A /\ co * (y + b) = Y + B
      /\ X \in Int /\ Y \in Int /\ A \in Int /\ B \in Int
  BY <1>1
<1>5. CASE co > 0
  <2>1. A >= 0 /\ B <= 0
    <3>1. co \in Nat
      BY <1>5
    <3> QED BY <1>2, <1>3, <3>1
  <2> HIDE DEF A, B, X, Y
  <2>2. /\ Positive(A) = A /\ Positive(B) = 0 /\ Negative(A) = 0 /\ Negative(B) = B
    BY <1>4, <2>1 DEF Positive, Negative
  <2>3. X + A = X + (A + 0) /\ Y + B = Y + (0 + B)
    BY <1>4
  <2> QED BY <1>4, <1>5, <2>2, <2>3 DEF A, B, X, Y, Moves
<1>6. CASE ~(co > 0)
  <2>1. A <= 0 /\ B >= 0
    <3>1. -co \in Nat /\ co = -(-co)
      BY <1>6
    <3> QED BY <1>2, <1>3, <3>1
  <2> HIDE DEF A, B, X, Y
  <2>2. /\ Positive(A) = 0 /\ Positive(B) = B /\ Negative(A) = A /\ Negative(B) = 0
    BY <1>4, <2>1 DEF Positive, Negative
  <2>3. X + A = X + (A + 0) /\ Y + B = Y + (0 + B)
    BY <1>4
  <2> QED BY <1>4, <1>6, <2>2, <2>3 DEF A, B, X, Y, Moves
<1> QED BY <1>5, <1>6

-----------------------------------------------------------------------------
(* Bounds and levels.                                                      *)

\* The bound of a level is an integer.
LEMMA AtTyped ==
    ASSUME NEW st \in Seq(Entries), NEW x \in Int, NEW l \in Nat
    PROVE  At(st, x, l) \in Int
<1>1. CASE \A i \in 1..Len(st) : st[i].level <= l
  BY <1>1, AtNone
<1>2. CASE ~(\A i \in 1..Len(st) : st[i].level <= l)
  <2>1. PICK k \in 1..Len(st) : ~(st[k].level <= l)
    BY <1>2
  <2>2. st[k].level > l
    BY <2>1, EntryLevel
  <2>3. PICK i \in 1..Len(st) : /\ st[i].level > l
                                /\ \A j \in 1..Len(st) : st[j].level > l => i <= j
    BY <2>2, FirstEntry
  <2>4. At(st, x, l) = st[i].value
    BY <2>3, AtFirst
  <2>5. st[i] \in Entries
    BY EntryLevel
  <2> QED BY <2>4, <2>5 DEF Entries
<1> QED BY <1>1, <1>2

\* The levels of frames grow.
LEMMA FramesUpToTop ==
    ASSUME TypeOK, LevelsOK(levels), NEW i \in 1..Len(levels)
    PROVE  /\ Len(levels) \in Nat /\ Len(levels) \in 1..Len(levels)
           /\ levels[i].level \in Nat /\ Top.level \in Nat
           /\ levels[i].level <= Top.level
           /\ i # Len(levels) => levels[i].level < Top.level
           /\ i # 1 => levels[i].level > 0 /\ levels[i].level - 1 \in Nat
<1>1. levels \in Seq(Frames) /\ Len(levels) \in Nat /\ Len(levels) \in 1..Len(levels) /\ 1 \in 1..Len(levels)
  BY DEF TypeOK, LevelsOK
<1>2. levels[i].level \in Nat /\ Top.level \in Nat /\ levels[1].level = 0
  BY <1>1, FrameLevel DEF Top, LevelsOK
<1>3. /\ i < Len(levels) => levels[i].level < Top.level
      /\ i > 1 => levels[1].level < levels[i].level
  BY <1>1 DEF LevelsOK, Top
<1>4. (i < Len(levels) \/ i = Len(levels)) /\ (i = 1 \/ i > 1)
  BY <1>1
<1>5. i = Len(levels) => levels[i].level = Top.level
  BY DEF Top
<1> QED BY <1>1, <1>2, <1>3, <1>4, <1>5

\* From the level of the last frame on, bounds are the current ones.
LEMMA AtFrames ==
    ASSUME NEW lv \in Seq(Frames), LevelsOK(lv), NEW D,
           NEW st \in Seq(Entries), StackOK(st, lv, D),
           NEW x, NEW l \in Nat, l >= lv[Len(lv)].level
    PROVE  At(st, x, l) = x
<1>1. ASSUME NEW i \in 1..Len(lv)
      PROVE  lv[i].level <= l
  <2>1. Len(lv) \in 1..Len(lv)
    BY DEF LevelsOK
  <2>2. lv[i].level \in Nat /\ lv[Len(lv)].level \in Nat
    BY <2>1, FrameLevel
  <2>3. i < Len(lv) \/ i = Len(lv)
    BY <2>1
  <2>4. lv[i].level <= lv[Len(lv)].level
    BY <2>1, <2>2, <2>3 DEF LevelsOK
  <2> QED BY <2>2, <2>4
<1>2. \A k \in 1..Len(st) : st[k].level <= l
  BY <1>1 DEF StackOK
<1> QED BY <1>2, AtNone

\* From the topmost frame on the bound of a level is the current one.
LEMMA AtTop ==
    ASSUME IInv, NEW v \in Vars, NEW l \in Nat, l >= Top.level
    PROVE  At(lowerStack[v], lower[v], l) = lower[v] /\ At(upperStack[v], upper[v], l) = upper[v]
<1>1. /\ LevelsOK(levels) /\ levels \in Seq(Frames)
      /\ lowerStack[v] \in Seq(Entries) /\ upperStack[v] \in Seq(Entries)
      /\ StackOK(lowerStack[v], levels, LowerFrames(levels, v))
      /\ StackOK(upperStack[v], levels, UpperFrames(levels, v))
  BY DEF IInv, TypeOK, StacksOK
<1> QED BY <1>1, AtFrames DEF Top

\* Nothing is pending unless the last frame is that of the decision level.
LEMMA NothingPending ==
    ASSUME IInv, Top.level # dl \/ pc \in {"check", "fixpoint"}, NEW v \in Vars
    PROVE  ldiff[v] = 0 /\ udiff[v] = 0
BY DEF IInv, PendingOnTop, PendingListed

\* The inactive level is one above that of a frame.
LEMMA MarkedAbove ==
    ASSUME IInv, MarksInv, NEW c \in Cons, Marked(c)
    PROVE  /\ inactiveLevel[c] \in Nat /\ inactiveLevel[c] - 1 \in Nat
           /\ \E i \in 1..Len(levels) : inactiveLevel[c] - 1 = levels[i].level
<1>1. inactiveLevel[c] \in Nat /\ inactiveLevel[c] > 0 /\ levels \in Seq(Frames)
  BY DEF IInv, TypeOK, Marked
<1>2. PICK i \in 1..Len(levels) : inactiveLevel[c] = levels[i].level + 1
  BY DEF MarksInv
<1>3. levels[i].level \in Nat
  BY <1>1, FrameLevel
<1> QED BY <1>1, <1>2, <1>3

\* The bounds a constraint was told are numbers.
LEMMA ToldTyped ==
    ASSUME IInv, MarksInv, NEW c \in Cons
    PROVE  ToldLower(c) \in [Vars -> Int] /\ ToldUpper(c) \in [Vars -> Int]
<1>1. ASSUME NEW v \in Vars
      PROVE  /\ Told(c, lowerStack[v], lower[v], ldiff[v]) \in Int
             /\ Told(c, upperStack[v], upper[v], udiff[v]) \in Int
  <2>1. /\ lowerStack[v] \in Seq(Entries) /\ upperStack[v] \in Seq(Entries)
        /\ lower[v] \in Int /\ upper[v] \in Int /\ ldiff[v] \in Int /\ udiff[v] \in Int
    BY DEF IInv, TypeOK
  <2>2. CASE RemovableAt(c, Top.level)
    <3>1. inactiveLevel[c] - 1 \in Nat
      BY <2>2, MarkedAbove DEF RemovableAt
    <3> QED BY <2>1, <2>2, <3>1, AtTyped DEF Told
  <2>3. CASE ~RemovableAt(c, Top.level)
    <3>1. lower[v] - ldiff[v] \in Int /\ upper[v] - udiff[v] \in Int
      BY <2>1
    <3> QED BY <2>3, <3>1 DEF Told
  <2> QED BY <2>2, <2>3
<1> QED BY <1>1 DEF ToldLower, ToldUpper

\* What a frame gained is an integer.
LEMMA GainedTyped ==
    ASSUME IInv, NEW v \in Vars, NEW i \in 2..Len(levels)
    PROVE  GainedLower(v, i) \in Int /\ GainedUpper(v, i) \in Int
<1>1. /\ TypeOK /\ LevelsOK(levels)
      /\ lowerStack[v] \in Seq(Entries) /\ upperStack[v] \in Seq(Entries)
      /\ lower[v] \in Int /\ upper[v] \in Int /\ ldiff[v] \in Int /\ udiff[v] \in Int
  BY DEF IInv, TypeOK, StacksOK
<1>2. levels[i].level \in Nat /\ levels[i].level - 1 \in Nat
  <2>1. i \in 1..Len(levels) /\ i # 1
    BY <1>1 DEF TypeOK
  <2> QED BY <1>1, <2>1, FramesUpToTop
<1>3. /\ At(lowerStack[v], lower[v], levels[i].level) \in Int
      /\ At(lowerStack[v], lower[v], levels[i].level - 1) \in Int
      /\ At(upperStack[v], upper[v], levels[i].level) \in Int
      /\ At(upperStack[v], upper[v], levels[i].level - 1) \in Int
  BY <1>1, <1>2, AtTyped
<1> QED BY <1>1, <1>3 DEF GainedLower, GainedUpper, Gained

-----------------------------------------------------------------------------
(* Steps that may add a frame and tighten bounds, but report nothing.      *)

\* Steps that leave bounds, frames and sums alone.
LEMMA KeepSums ==
    ASSUME SInv, UNCHANGED <<boundVars, levels, diffVars, sumVars, inactiveLevel>>
    PROVE  MarksInv' /\ WatchesInv' /\ GainsInv' /\ SumsInv'
<1> USE DEF SInv, boundVars, diffVars, sumVars
<1>1. MarksInv'
  BY DEF MarksInv, Marked
<1>2. WatchesInv'
  BY DEF WatchesInv, HeldAt, RemovableAt, Marked
<1>3. GainsInv'
  BY DEF GainsInv, GainedLower, GainedUpper, HeldAt, RemovableAt, Marked
<1>4. SumsInv'
  BY DEF SumsInv, ToldLower, ToldUpper, Told, RemovableAt, Marked, Top
<1> QED BY <1>1, <1>2, <1>3, <1>4

\* The invariant holds initially.
LEMMA InitSums ==
    ASSUME Init
    PROVE  SInv
<1>1. IInv
  BY InitInv
<1>2. /\ levels = <<Frame(0)>> /\ Len(levels) = 1 /\ levels[1] = Frame(0)
      /\ Frame(0).inactive = {} /\ Frame(0).removed = {}
  BY DEF Init, Frame
<1>3. /\ inactiveLevel = [c \in Cons |-> 0]
      /\ \A c \in Cons : ~Marked(c)
  BY DEF Init, Marked
<1>4. MarksInv
  BY <1>2, <1>3 DEF MarksInv
<1>5. WatchesInv
  BY <1>2, <1>3 DEF WatchesInv, HeldAt, Init
<1>6. GainsInv
  <2>1. 2..Len(levels) = {}
    BY <1>2
  <2> QED BY <2>1 DEF GainsInv
<1>7. SumsInv
  <2>1. ASSUME NEW c \in Cons
        PROVE  ToldLower(c) = InitLower /\ ToldUpper(c) = InitUpper
    <3>1. \A v \in Vars : /\ lower[v] - ldiff[v] = InitLower[v]
                          /\ upper[v] - udiff[v] = InitUpper[v]
      BY BoundsAssumption DEF Init
    <3> QED BY <1>3, <3>1, BoundsAssumption DEF ToldLower, ToldUpper, Told, RemovableAt
  <2> QED BY <2>1 DEF SumsInv, Init
<1> QED BY <1>1, <1>4, <1>5, <1>6, <1>7 DEF SInv

\* What such a step does.
Grows ==
    /\ dl' = dl /\ UNCHANGED <<sumVars, inactiveLevel>>
    /\ Top'.level = dl
    /\ \/ Len(levels') = Len(levels)
       \/ /\ Len(levels') = Len(levels) + 1 /\ Top.level < dl
          /\ levels'[Len(levels')].inactive = {} /\ levels'[Len(levels')].removed = {}
    /\ \A i \in 1..Len(levels) : /\ levels'[i].level = levels[i].level
                                 /\ levels'[i].inactive = levels[i].inactive
                                 /\ levels'[i].removed = levels[i].removed
    /\ \A v \in Vars :
         /\ \A l \in 0..(dl - 1) : /\ At(lowerStack'[v], lower'[v], l) = At(lowerStack[v], lower[v], l)
                                   /\ At(upperStack'[v], upper'[v], l) = At(upperStack[v], upper[v], l)
         /\ lower'[v] - ldiff'[v] = lower[v] - ldiff[v]
         /\ upper'[v] - udiff'[v] = upper[v] - udiff[v]

\* A new frame marks and removes nothing.
LEMMA GrowMarks ==
    ASSUME SInv, Grows
    PROVE  MarksInv' /\ WatchesInv'
<1>1. Len(levels) \in Nat /\ MarksInv /\ WatchesInv /\ inactiveLevel' = inactiveLevel /\ watches' = watches
  BY DEF SInv, IInv, TypeOK, Grows, sumVars
<1>2. /\ \A i \in 1..Len(levels) : i \in 1..Len(levels')
      /\ \A i \in 1..Len(levels') : i \in 1..Len(levels) \/ (levels'[i].inactive = {} /\ levels'[i].removed = {})
  BY <1>1 DEF Grows
<1>3. MarksInv'
  BY <1>1, <1>2 DEF MarksInv, Marked, Grows
<1>4. WatchesInv'
  BY <1>1, <1>2 DEF WatchesInv, HeldAt, RemovableAt, Marked, Grows
<1> QED BY <1>3, <1>4

\* A new frame has gained nothing that was not reported, the others keep theirs.
LEMMA GrowGains ==
    ASSUME SInv, IInv', Grows, NEW v \in Vars, NEW i \in 2..Len(levels')
    PROVE  \/ /\ i \in 2..Len(levels)
              /\ GainedLower(v, i)' = GainedLower(v, i) /\ GainedUpper(v, i)' = GainedUpper(v, i)
           \/ GainedLower(v, i)' = 0 /\ GainedUpper(v, i)' = 0
<1> DEFINE n == Len(levels)
           m == Len(levels')
           low(l) == At(lowerStack[v], lower[v], l)
           upp(l) == At(upperStack[v], upper[v], l)
           low2(l) == At(lowerStack'[v], lower'[v], l)
           upp2(l) == At(upperStack'[v], upper'[v], l)
<1>0. IInv /\ TypeOK /\ LevelsOK(levels) /\ levels \in Seq(Frames)
  BY DEF SInv, IInv, TypeOK, StacksOK
<1>1. /\ n \in Nat /\ dl \in Nat /\ Top.level <= dl
      /\ lower[v] \in Int /\ upper[v] \in Int /\ ldiff[v] \in Int /\ udiff[v] \in Int
      /\ lowerStack[v] \in Seq(Entries) /\ upperStack[v] \in Seq(Entries)
  BY <1>0 DEF IInv, TypeOK
<1>2. /\ levels' \in Seq(Frames) /\ m \in Nat /\ LevelsOK(levels')
      /\ lower'[v] \in Int /\ upper'[v] \in Int /\ ldiff'[v] \in Int /\ udiff'[v] \in Int
      /\ lowerStack'[v] \in Seq(Entries) /\ upperStack'[v] \in Seq(Entries)
      /\ StackOK(lowerStack'[v], levels', LowerFrames(levels', v))
      /\ StackOK(upperStack'[v], levels', UpperFrames(levels', v))
  BY DEF IInv, TypeOK, StacksOK
<1>3. /\ \A l \in 0..(dl - 1) : low2(l) = low(l) /\ upp2(l) = upp(l)
      /\ lower'[v] - ldiff'[v] = lower[v] - ldiff[v]
      /\ upper'[v] - udiff'[v] = upper[v] - udiff[v]
      /\ m = n \/ (m = n + 1 /\ Top.level < dl)
      /\ \A j \in 1..n : levels'[j].level = levels[j].level
      /\ levels'[m].level = dl /\ dl' = dl
  BY DEF Grows, Top
<1>4. /\ GainedLower(v, i)' = low2(levels'[i].level) - low2(levels'[i].level - 1) - (IF i = m THEN ldiff'[v] ELSE 0)
      /\ GainedUpper(v, i)' = upp2(levels'[i].level) - upp2(levels'[i].level - 1) - (IF i = m THEN udiff'[v] ELSE 0)
      /\ GainedLower(v, i) = low(levels[i].level) - low(levels[i].level - 1) - (IF i = n THEN ldiff[v] ELSE 0)
      /\ GainedUpper(v, i) = upp(levels[i].level) - upp(levels[i].level - 1) - (IF i = n THEN udiff[v] ELSE 0)
  BY DEF GainedLower, GainedUpper, Gained
<1>5. low2(dl) = lower'[v] /\ upp2(dl) = upper'[v]
  <2>1. dl >= levels'[m].level
    BY <1>1, <1>3
  <2> QED BY <1>1, <1>2, <2>1, AtFrames
<1>6. low(dl) = lower[v] /\ upp(dl) = upper[v]
  BY <1>0, <1>1, AtTop
<1>7. Top.level # dl => ldiff[v] = 0 /\ udiff[v] = 0
  BY <1>0, NothingPending
<1> DEFINE t == Top.level
           k == levels[i].level
           k2 == levels'[i].level
<1>8. /\ t \in Nat /\ i \in 2..m /\ t <= dl
      /\ i \in 2..n => /\ k \in Nat /\ k <= t /\ k - 1 \in Nat /\ k2 = k
                       /\ i # n => k < t
                       /\ i = n => k = t
      /\ i = m => k2 = dl
  <2>1. i \in 2..n => i \in 1..n /\ i # 1
    BY <1>1
  <2> QED BY <1>0, <1>1, <1>3, <2>1, FramesUpToTop, TopTyped DEF Top
<1>9. /\ m = n \/ (m = n + 1 /\ t < dl)
      /\ t # dl => ldiff[v] = 0 /\ udiff[v] = 0
  BY <1>3, <1>7
<1>10. /\ GainedLower(v, i)' = low2(k2) - low2(k2 - 1) - (IF i = m THEN ldiff'[v] ELSE 0)
       /\ GainedUpper(v, i)' = upp2(k2) - upp2(k2 - 1) - (IF i = m THEN udiff'[v] ELSE 0)
       /\ GainedLower(v, i) = low(k) - low(k - 1) - (IF i = n THEN ldiff[v] ELSE 0)
       /\ GainedUpper(v, i) = upp(k) - upp(k - 1) - (IF i = n THEN udiff[v] ELSE 0)
  BY <1>4
<1>11. \A l \in Nat : low(l) \in Int /\ upp(l) \in Int
  BY <1>1, AtTyped
<1>12. t < dl => low(dl - 1) = lower[v] /\ upp(dl - 1) = upper[v]
  <2>1. t < dl => dl - 1 \in Nat /\ dl - 1 >= t
    BY <1>1, <1>8
  <2> QED BY <1>0, <2>1, AtTop
<1> HIDE DEF n, m, low, upp, low2, upp2, t, k, k2
<1>13. CASE i \in 2..n /\ k < dl
  <2>1. k \in 0..(dl - 1) /\ k - 1 \in 0..(dl - 1) /\ k2 = k
    BY <1>1, <1>8, <1>13
  <2>2. /\ low2(k2) = low(k) /\ upp2(k2) = upp(k)
        /\ low2(k2 - 1) = low(k - 1) /\ upp2(k2 - 1) = upp(k - 1)
    BY <1>3, <2>1
  <2>3. i # m
    BY <1>8, <1>13, <2>1
  <2>4. i = n => ldiff[v] = 0 /\ udiff[v] = 0
    BY <1>8, <1>9, <1>13
  <2>5. (IF i = n THEN ldiff[v] ELSE 0) = 0 /\ (IF i = n THEN udiff[v] ELSE 0) = 0
    BY <2>4
  <2>6. (IF i = m THEN ldiff'[v] ELSE 0) = 0 /\ (IF i = m THEN udiff'[v] ELSE 0) = 0
    BY <2>3
  <2>7. GainedLower(v, i)' = GainedLower(v, i) /\ GainedUpper(v, i)' = GainedUpper(v, i)
    BY <1>10, <2>2, <2>5, <2>6
  <2> QED BY <1>13, <2>7 DEF n
<1>14. CASE i \in 2..n /\ ~(k < dl)
  <2>1. k = dl /\ i = n /\ m = n /\ k2 = dl /\ dl - 1 \in 0..(dl - 1) /\ dl - 1 \in Nat
    BY <1>1, <1>8, <1>9, <1>14
  <2>2. low2(dl - 1) = low(dl - 1) /\ upp2(dl - 1) = upp(dl - 1)
    BY <1>3, <2>1
  <2>3. low(dl - 1) \in Int /\ upp(dl - 1) \in Int
    BY <1>11, <2>1
  <2>4. /\ GainedLower(v, i)' = lower'[v] - low(dl - 1) - ldiff'[v]
        /\ GainedUpper(v, i)' = upper'[v] - upp(dl - 1) - udiff'[v]
        /\ GainedLower(v, i) = lower[v] - low(dl - 1) - ldiff[v]
        /\ GainedUpper(v, i) = upper[v] - upp(dl - 1) - udiff[v]
    BY <1>5, <1>6, <1>10, <2>1, <2>2
  <2>5. /\ lower'[v] - ldiff'[v] = lower[v] - ldiff[v]
        /\ upper'[v] - udiff'[v] = upper[v] - udiff[v]
    BY <1>3
  <2>6. /\ lower[v] \in Int /\ upper[v] \in Int /\ ldiff[v] \in Int /\ udiff[v] \in Int
        /\ lower'[v] \in Int /\ upper'[v] \in Int /\ ldiff'[v] \in Int /\ udiff'[v] \in Int
    BY <1>1, <1>2
  <2>7. lower'[v] - low(dl - 1) - ldiff'[v] = lower[v] - low(dl - 1) - ldiff[v]
    <3> DEFINE x == lower[v]  x2 == lower'[v]  d == ldiff[v]  d2 == ldiff'[v]  y == low(dl - 1)
    <3>1. x \in Int /\ x2 \in Int /\ d \in Int /\ d2 \in Int /\ y \in Int /\ x2 - d2 = x - d
      BY <2>3, <2>5, <2>6
    <3> HIDE DEF x, x2, d, d2, y
    <3>2. x2 - y - d2 = x - y - d
      BY <3>1
    <3> QED BY <3>2 DEF x, x2, d, d2, y
  <2>8. upper'[v] - upp(dl - 1) - udiff'[v] = upper[v] - upp(dl - 1) - udiff[v]
    <3> DEFINE x == upper[v]  x2 == upper'[v]  d == udiff[v]  d2 == udiff'[v]  y == upp(dl - 1)
    <3>1. x \in Int /\ x2 \in Int /\ d \in Int /\ d2 \in Int /\ y \in Int /\ x2 - d2 = x - d
      BY <2>3, <2>5, <2>6
    <3> HIDE DEF x, x2, d, d2, y
    <3>2. x2 - y - d2 = x - y - d
      BY <3>1
    <3> QED BY <3>2 DEF x, x2, d, d2, y
  <2>10. GainedLower(v, i)' = GainedLower(v, i) /\ GainedUpper(v, i)' = GainedUpper(v, i)
    BY <2>4, <2>7, <2>8
  <2> QED BY <1>14, <2>10 DEF n
<1>15. CASE i \notin 2..n
  <2>1. i = m /\ t < dl /\ k2 = dl /\ dl - 1 \in 0..(dl - 1)
    BY <1>1, <1>2, <1>8, <1>9, <1>15
  <2>2. low2(dl - 1) = lower[v] /\ upp2(dl - 1) = upper[v]
    BY <1>3, <1>12, <2>1
  <2>3. ldiff[v] = 0 /\ udiff[v] = 0
    BY <1>1, <1>8, <1>9, <2>1
  <2>4. /\ GainedLower(v, i)' = lower'[v] - lower[v] - ldiff'[v]
        /\ GainedUpper(v, i)' = upper'[v] - upper[v] - udiff'[v]
    BY <1>5, <1>10, <2>1, <2>2
  <2>5. /\ lower'[v] - ldiff'[v] = lower[v] - ldiff[v]
        /\ upper'[v] - udiff'[v] = upper[v] - udiff[v]
    BY <1>3
  <2>6. /\ lower[v] \in Int /\ upper[v] \in Int
        /\ lower'[v] \in Int /\ upper'[v] \in Int /\ ldiff'[v] \in Int /\ udiff'[v] \in Int
    BY <1>1, <1>2
  <2>7. \A a, a2, d2 \in Int : a2 - d2 = a - 0 => a2 - a - d2 = 0
    OBVIOUS
  <2>8. lower'[v] - lower[v] - ldiff'[v] = 0
    BY <2>3, <2>5, <2>6, <2>7
  <2>9. upper'[v] - upper[v] - udiff'[v] = 0
    BY <2>3, <2>5, <2>6, <2>7
  <2> QED BY <2>4, <2>8, <2>9
<1> QED BY <1>13, <1>14, <1>15 DEF n

\* A constraint that was told the bounds of the last level when the new frame
\* puts it aside is the one case where these are read from the stacks now.
LEMMA GrowTold ==
    ASSUME SInv, IInv', Grows, NEW c \in Cons
    PROVE  ToldLower(c)' = ToldLower(c) /\ ToldUpper(c)' = ToldUpper(c)
<1>0. IInv /\ MarksInv /\ TypeOK /\ LevelsOK(levels)
  BY DEF SInv, IInv, StacksOK
<1>1. /\ dl \in Nat /\ Top.level \in Nat /\ Top.level <= dl /\ Top'.level = dl
      /\ inactiveLevel' = inactiveLevel /\ inactiveLevel[c] \in Nat
  BY <1>0, TopTyped DEF IInv, TypeOK, Grows
<1>2. ASSUME NEW v \in Vars
      PROVE  /\ Told(c, lowerStack[v], lower[v], ldiff[v])' = Told(c, lowerStack[v], lower[v], ldiff[v])
             /\ Told(c, upperStack[v], upper[v], udiff[v])' = Told(c, upperStack[v], upper[v], udiff[v])
  <2> DEFINE l == inactiveLevel[c] - 1
  <2>1. /\ \A j \in 0..(dl - 1) : /\ At(lowerStack'[v], lower'[v], j) = At(lowerStack[v], lower[v], j)
                                  /\ At(upperStack'[v], upper'[v], j) = At(upperStack[v], upper[v], j)
        /\ lower'[v] - ldiff'[v] = lower[v] - ldiff[v]
        /\ upper'[v] - udiff'[v] = upper[v] - udiff[v]
    BY DEF Grows
  <2>2. RemovableAt(c, Top.level)' <=> inactiveLevel[c] > 0 /\ inactiveLevel[c] <= dl
    BY <1>1 DEF RemovableAt, Marked
  <2>3. RemovableAt(c, Top.level) <=> inactiveLevel[c] > 0 /\ inactiveLevel[c] <= Top.level
    BY DEF RemovableAt, Marked
  <2>4. CASE RemovableAt(c, Top.level)
    <3>1. l \in 0..(dl - 1) /\ RemovableAt(c, Top.level)'
      BY <1>1, <2>2, <2>3, <2>4
    <3>2. /\ At(lowerStack'[v], lower'[v], l) = At(lowerStack[v], lower[v], l)
          /\ At(upperStack'[v], upper'[v], l) = At(upperStack[v], upper[v], l)
      BY <2>1, <3>1
    <3> QED BY <1>1, <2>4, <3>1, <3>2 DEF Told
  <2>5. CASE ~RemovableAt(c, Top.level) /\ RemovableAt(c, Top.level)'
    <3>1. Marked(c) /\ inactiveLevel[c] > Top.level /\ inactiveLevel[c] <= dl
      BY <1>1, <2>2, <2>3, <2>5 DEF Marked
    <3>2. PICK i \in 1..Len(levels) : l = levels[i].level
      BY <1>0, <3>1, MarkedAbove
    <3>3. levels[i].level <= Top.level /\ levels[i].level \in Nat
      BY <1>0, FramesUpToTop
    <3>4. l = Top.level /\ l \in 0..(dl - 1) /\ l \in Nat /\ l >= Top.level /\ Top.level # dl
      BY <1>1, <3>1, <3>2, <3>3
    <3>5. /\ At(lowerStack[v], lower[v], l) = lower[v] /\ At(upperStack[v], upper[v], l) = upper[v]
      BY <1>0, <3>4, AtTop
    <3>6. /\ At(lowerStack'[v], lower'[v], l) = lower[v] /\ At(upperStack'[v], upper'[v], l) = upper[v]
      BY <2>1, <3>4, <3>5
    <3>7. /\ lower[v] - ldiff[v] = lower[v] /\ upper[v] - udiff[v] = upper[v]
      <4>1. ldiff[v] = 0 /\ udiff[v] = 0
        BY <1>0, <3>4, NothingPending
      <4>2. lower[v] \in Int /\ upper[v] \in Int
        BY <1>0 DEF TypeOK
      <4> QED BY <4>1, <4>2
    <3> HIDE DEF l
    <3>8. /\ Told(c, lowerStack[v], lower[v], ldiff[v])' = At(lowerStack'[v], lower'[v], l)
          /\ Told(c, upperStack[v], upper[v], udiff[v])' = At(upperStack'[v], upper'[v], l)
      BY <1>1, <2>5 DEF Told, l
    <3> QED BY <2>5, <3>6, <3>7, <3>8 DEF Told
  <2>6. CASE ~RemovableAt(c, Top.level) /\ ~RemovableAt(c, Top.level)'
    BY <2>1, <2>6 DEF Told
  <2> QED BY <2>4, <2>5, <2>6
<1> QED BY <1>2 DEF ToldLower, ToldUpper

\* Tightening bounds without reporting them keeps the invariant.
LEMMA GrowSums ==
    ASSUME SInv, IInv', Grows
    PROVE  MarksInv' /\ WatchesInv' /\ GainsInv' /\ SumsInv'
<1>1. MarksInv' /\ WatchesInv'
  BY GrowMarks
<1>2. GainsInv'
  <2>1. ASSUME NEW v \in Vars, NEW i \in 2..Len(levels')
        PROVE  /\ GainedLower(v, i)' >= 0 /\ GainedUpper(v, i)' <= 0
               /\ \A c \in Cons : (RemovableAt(c, levels[i].level) /\ HeldAt(i, v, c))'
                                   => GainedLower(v, i)' = 0 /\ GainedUpper(v, i)' = 0
    <3>1. CASE GainedLower(v, i)' = 0 /\ GainedUpper(v, i)' = 0
      BY <3>1
    <3>2. CASE /\ i \in 2..Len(levels)
               /\ GainedLower(v, i)' = GainedLower(v, i) /\ GainedUpper(v, i)' = GainedUpper(v, i)
      <4>1. /\ GainedLower(v, i) >= 0 /\ GainedUpper(v, i) <= 0
            /\ \A c \in Cons : RemovableAt(c, levels[i].level) /\ HeldAt(i, v, c)
                                => GainedLower(v, i) = 0 /\ GainedUpper(v, i) = 0
        BY <3>2 DEF SInv, GainsInv
      <4>2. /\ Len(levels) \in Nat /\ watches' = watches /\ inactiveLevel' = inactiveLevel
        BY DEF SInv, IInv, TypeOK, Grows, sumVars
      <4>3. i \in 1..Len(levels)
        BY <3>2, <4>2
      <4>4. ASSUME NEW c \in Cons, HeldAt(i, v, c)'
            PROVE  HeldAt(i, v, c)
        <5>1. CASE c \in watches'[v]
          BY <4>2, <5>1 DEF HeldAt
        <5>2. CASE \E k \in 1..Len(levels') : k > i /\ <<v, c>> \in levels'[k].removed
          <6>1. PICK k \in 1..Len(levels') : k > i /\ <<v, c>> \in levels'[k].removed
            BY <5>2
          <6>2. k \in 1..Len(levels)
            BY <4>2, <6>1 DEF Grows
          <6> QED BY <6>1, <6>2 DEF HeldAt, Grows
        <5> QED BY <4>4, <5>1, <5>2 DEF HeldAt
      <4>5. \A c \in Cons : RemovableAt(c, levels[i].level)' => RemovableAt(c, levels[i].level)
        <5>1. levels'[i].level = levels[i].level
          BY <4>3 DEF Grows
        <5> QED BY <4>2, <5>1 DEF RemovableAt, Marked
      <4> QED BY <3>2, <4>1, <4>4, <4>5
    <3> QED BY <3>1, <3>2, GrowGains
  <2> QED BY <2>1 DEF GainsInv
<1>3. SumsInv'
  <2>1. \A c \in Cons : ToldLower(c)' = ToldLower(c) /\ ToldUpper(c)' = ToldUpper(c)
    BY GrowTold
  <2>2. csLower' = csLower /\ csUpper' = csUpper
    BY DEF Grows, sumVars
  <2> QED BY <2>1, <2>2 DEF SumsInv, SInv
<1> QED BY <1>1, <1>2, <1>3

-----------------------------------------------------------------------------
(* One bound at a time.                                                    *)

\* push_level_ adds at most one frame, an empty one for the decision level.
LEMMA PushAdds ==
    ASSUME IInv
    PROVE  /\ PushLevel \in Seq(Frames) /\ PushLevel[Len(PushLevel)].level = dl
           /\ \/ Len(PushLevel) = Len(levels)
              \/ /\ Len(PushLevel) = Len(levels) + 1 /\ Top.level < dl
                 /\ PushLevel[Len(PushLevel)].inactive = {} /\ PushLevel[Len(PushLevel)].removed = {}
           /\ \A i \in 1..Len(levels) : PushLevel[i] = levels[i]
<1>1. /\ levels \in Seq(Frames) /\ Top.level <= dl
      /\ PushLevel \in Seq(Frames) /\ PushLevel[Len(PushLevel)].level = dl
  BY PushLevelOK DEF IInv, TypeOK
<1>2. CASE Top.level < dl
  <2>1. PushLevel = Append(levels, Frame(dl))
    BY <1>2 DEF PushLevel
  <2>2. /\ Len(PushLevel) = Len(levels) + 1
        /\ PushLevel[Len(PushLevel)] = Frame(dl)
        /\ \A i \in 1..Len(levels) : PushLevel[i] = levels[i]
    <3> DEFINE F == Frame(dl)
    <3> HIDE DEF F
    <3> QED BY <1>1, <2>1 DEF F
  <2>3. Frame(dl).inactive = {} /\ Frame(dl).removed = {}
    BY DEF Frame
  <2> QED BY <1>1, <1>2, <2>2, <2>3
<1>3. CASE ~(Top.level < dl)
  BY <1>1, <1>3 DEF PushLevel
<1> QED BY <1>2, <1>3

\* Pushing a level is such a step,
LEMMA PushGrows ==
    ASSUME IInv, levels' = PushLevel,
           UNCHANGED <<boundVars, diffVars, sumVars, inactiveLevel, dl>>
    PROVE  Grows
<1>1. Top'.level = dl
  BY PushAdds DEF Top
<1>2. /\ UNCHANGED <<lower, upper, lowerStack, upperStack, ldiff, udiff>>
      /\ UNCHANGED <<sumVars, inactiveLevel>> /\ dl' = dl
  BY DEF boundVars, diffVars
<1>3. /\ \/ Len(levels') = Len(levels)
         \/ /\ Len(levels') = Len(levels) + 1 /\ Top.level < dl
            /\ levels'[Len(levels')].inactive = {} /\ levels'[Len(levels')].removed = {}
      /\ \A i \in 1..Len(levels) : levels'[i] = levels[i]
  BY PushAdds
<1> QED BY <1>1, <1>2, <1>3 DEF Grows

\* Saving a bound only adds to a list of the last frame.
LEMMA SaveAdds ==
    ASSUME IInv, NEW G \in Frames, NEW lw \in Seq(Frames),
           lw = [PushLevel EXCEPT ![Len(PushLevel)] = G],
           LET F == PushLevel[Len(PushLevel)] IN
             G.level = F.level /\ G.inactive = F.inactive /\ G.removed = F.removed
    PROVE  /\ lw[Len(lw)].level = dl
           /\ \/ Len(lw) = Len(levels)
              \/ /\ Len(lw) = Len(levels) + 1 /\ Top.level < dl
                 /\ lw[Len(lw)].inactive = {} /\ lw[Len(lw)].removed = {}
           /\ \A i \in 1..Len(levels) : /\ lw[i].level = levels[i].level
                                        /\ lw[i].inactive = levels[i].inactive
                                        /\ lw[i].removed = levels[i].removed
<1> DEFINE lv == PushLevel
<1>1. lv \in Seq(Frames) /\ Len(lv) > 0
  BY PushLevelOK DEF IInv
<1>2. /\ Len(lw) = Len(lv) /\ lw[Len(lw)] = G /\ Len(lv) \in 1..Len(lv)
      /\ \A i \in 1..Len(lv) : i # Len(lv) => lw[i] = lv[i]
  BY <1>1
<1>3. \A i \in 1..Len(lv) : /\ lw[i].level = lv[i].level
                            /\ lw[i].inactive = lv[i].inactive
                            /\ lw[i].removed = lv[i].removed
  BY <1>2
<1>4. Len(levels) \in Nat
  BY DEF IInv, TypeOK
<1>5. \A i \in 1..Len(levels) : i \in 1..Len(lv) /\ lv[i] = levels[i]
  BY <1>4, PushAdds
<1> QED BY <1>2, <1>3, <1>5, PushAdds

\* and so are update_upper_
LEMMA UpperGrows ==
    ASSUME IInv, NEW v \in Vars, NEW value \in Int, UpdateUpper(v, value),
           UNCHANGED <<sumVars, inactiveLevel, dl>>
    PROVE  Grows
<1> DEFINE lv == PushLevel
           n  == Len(lv)
           G  == [lv[n] EXCEPT !.undoUpper = @ \union {v}]
<1>1. /\ dl \in Nat /\ lower \in [Vars -> Int] /\ upper \in [Vars -> Int]
      /\ ldiff \in [Vars -> Int] /\ udiff \in [Vars -> Int]
      /\ upperStack \in [Vars -> Seq(Entries)]
  BY DEF IInv, TypeOK
<1>2. /\ upper' = [upper EXCEPT ![v] = value] /\ lower' = lower /\ lowerStack' = lowerStack
      /\ udiff' = [udiff EXCEPT ![v] = @ + (value - upper[v])] /\ ldiff' = ldiff
      /\ \A w \in Vars : upperStack'[w] = IF w = v THEN Saving(upperStack[w], upper[w], dl) ELSE upperStack[w]
  BY <1>1 DEF UpdateUpper, Saving
<1>3. ASSUME NEW w \in Vars
      PROVE  /\ \A l \in 0..(dl - 1) : At(upperStack'[w], upper'[w], l) = At(upperStack[w], upper[w], l)
             /\ upper'[w] - udiff'[w] = upper[w] - udiff[w]
  <2>1. /\ upperStack[w] \in Seq(Entries) /\ upper[w] \in Int /\ upper'[w] \in Int
        /\ \A k \in 1..Len(upperStack[w]) : upperStack[w][k].level <= dl
    BY <1>1, <1>2, EntriesUpToLevel
  <2>2. CASE w = v
    <3>1. upperStack'[w] = Saving(upperStack[w], upper[w], dl)
      BY <1>2, <2>2
    <3>2. \A l \in 0..(dl - 1) : At(upperStack'[w], upper'[w], l) = At(upperStack[w], upper[w], l)
      <4>1. dl \in Nat
        BY <1>1
      <4> QED BY <2>1, <3>1, <4>1, AtUpdate
    <3>3. upper'[w] - udiff'[w] = upper[w] - udiff[w]
      <4>1. upper'[w] = value /\ udiff'[w] = udiff[w] + (value - upper[w])
        BY <1>1, <1>2, <2>2
      <4>2. \A x, d \in Int : value - (d + (value - x)) = x - d
        OBVIOUS
      <4> QED BY <1>1, <4>1, <4>2
    <3> QED BY <3>2, <3>3
  <2>3. CASE w # v
    <3>1. upperStack'[w] = upperStack[w] /\ upper'[w] = upper[w] /\ udiff'[w] = udiff[w]
      BY <1>1, <1>2, <2>3
    <3> QED BY <3>1
  <2> QED BY <2>2, <2>3
<1>4. /\ Len(levels') = Len(levels') /\ Top'.level = dl
      /\ \/ Len(levels') = Len(levels)
         \/ /\ Len(levels') = Len(levels) + 1 /\ Top.level < dl
            /\ levels'[Len(levels')].inactive = {} /\ levels'[Len(levels')].removed = {}
      /\ \A i \in 1..Len(levels) : /\ levels'[i].level = levels[i].level
                                   /\ levels'[i].inactive = levels[i].inactive
                                   /\ levels'[i].removed = levels[i].removed
  <2>1. CASE levels' = lv
    BY <2>1, PushAdds DEF Top
  <2>2. CASE levels' = [lv EXCEPT ![n] = G]
    <3>1. lv \in Seq(Frames) /\ n \in 1..n
      BY PushLevelOK DEF IInv
    <3>2. /\ G \in Frames /\ G.level = lv[n].level
          /\ G.inactive = lv[n].inactive /\ G.removed = lv[n].removed
      <4> DEFINE H == lv[n]
      <4>1. H \in Frames
        BY <3>1
      <4> HIDE DEF H
      <4>2. LET K == [H EXCEPT !.undoUpper = @ \union {v}] IN
            K \in Frames /\ K.level = H.level /\ K.inactive = H.inactive /\ K.removed = H.removed
        BY <4>1 DEF Frames
      <4> QED BY <4>2 DEF H
    <3>3. levels' \in Seq(Frames)
      <4> HIDE DEF G
      <4> QED BY <2>2, <3>1, <3>2
    <3> HIDE DEF G
    <3> QED BY <2>2, <3>2, <3>3, SaveAdds DEF Top
  <2> QED BY <2>1, <2>2 DEF UpdateUpper
<1> QED BY <1>2, <1>3, <1>4 DEF Grows

\* and update_lower_,
LEMMA LowerGrows ==
    ASSUME IInv, NEW v \in Vars, NEW value \in Int, UpdateLower(v, value),
           UNCHANGED <<sumVars, inactiveLevel, dl>>
    PROVE  Grows
<1> DEFINE lv == PushLevel
           n  == Len(lv)
           G  == [lv[n] EXCEPT !.undoLower = @ \union {v}]
           y  == value + 1
<1>1. /\ dl \in Nat /\ lower \in [Vars -> Int] /\ upper \in [Vars -> Int]
      /\ ldiff \in [Vars -> Int] /\ udiff \in [Vars -> Int]
      /\ lowerStack \in [Vars -> Seq(Entries)] /\ y \in Int
  BY DEF IInv, TypeOK
<1>2. /\ lower' = [lower EXCEPT ![v] = y] /\ upper' = upper /\ upperStack' = upperStack
      /\ ldiff' = [ldiff EXCEPT ![v] = @ + (y - lower[v])] /\ udiff' = udiff
      /\ \A w \in Vars : lowerStack'[w] = IF w = v THEN Saving(lowerStack[w], lower[w], dl) ELSE lowerStack[w]
  BY <1>1 DEF UpdateLower, Saving
<1> HIDE DEF y
<1>3. ASSUME NEW w \in Vars
      PROVE  /\ \A l \in 0..(dl - 1) : At(lowerStack'[w], lower'[w], l) = At(lowerStack[w], lower[w], l)
             /\ lower'[w] - ldiff'[w] = lower[w] - ldiff[w]
  <2>1. /\ lowerStack[w] \in Seq(Entries) /\ lower[w] \in Int /\ lower'[w] \in Int
        /\ \A k \in 1..Len(lowerStack[w]) : lowerStack[w][k].level <= dl
    BY <1>1, <1>2, EntriesUpToLevel
  <2>2. CASE w = v
    <3>1. lowerStack'[w] = Saving(lowerStack[w], lower[w], dl)
      BY <1>2, <2>2
    <3>2. \A l \in 0..(dl - 1) : At(lowerStack'[w], lower'[w], l) = At(lowerStack[w], lower[w], l)
      <4>1. dl \in Nat
        BY <1>1
      <4> QED BY <2>1, <3>1, <4>1, AtUpdate
    <3>3. lower'[w] - ldiff'[w] = lower[w] - ldiff[w]
      <4>1. lower'[w] = y /\ ldiff'[w] = ldiff[w] + (y - lower[w])
        BY <1>1, <1>2, <2>2
      <4>2. \A x, d \in Int : y - (d + (y - x)) = x - d
        BY <1>1
      <4> QED BY <1>1, <4>1, <4>2
    <3> QED BY <3>2, <3>3
  <2>3. CASE w # v
    <3>1. lowerStack'[w] = lowerStack[w] /\ lower'[w] = lower[w] /\ ldiff'[w] = ldiff[w]
      BY <1>1, <1>2, <2>3
    <3> QED BY <3>1
  <2> QED BY <2>2, <2>3
<1>4. /\ Top'.level = dl
      /\ \/ Len(levels') = Len(levels)
         \/ /\ Len(levels') = Len(levels) + 1 /\ Top.level < dl
            /\ levels'[Len(levels')].inactive = {} /\ levels'[Len(levels')].removed = {}
      /\ \A i \in 1..Len(levels) : /\ levels'[i].level = levels[i].level
                                   /\ levels'[i].inactive = levels[i].inactive
                                   /\ levels'[i].removed = levels[i].removed
  <2>1. CASE levels' = lv
    BY <2>1, PushAdds DEF Top
  <2>2. CASE levels' = [lv EXCEPT ![n] = G]
    <3>1. lv \in Seq(Frames) /\ n \in 1..n
      BY PushLevelOK DEF IInv
    <3>2. /\ G \in Frames /\ G.level = lv[n].level
          /\ G.inactive = lv[n].inactive /\ G.removed = lv[n].removed
      <4> DEFINE H == lv[n]
      <4>1. H \in Frames
        BY <3>1
      <4> HIDE DEF H
      <4>2. LET K == [H EXCEPT !.undoLower = @ \union {v}] IN
            K \in Frames /\ K.level = H.level /\ K.inactive = H.inactive /\ K.removed = H.removed
        BY <4>1 DEF Frames
      <4> QED BY <4>2 DEF H
    <3>3. levels' \in Seq(Frames)
      <4> HIDE DEF G
      <4> QED BY <2>2, <3>1, <3>2
    <3> HIDE DEF G
    <3> QED BY <2>2, <3>2, <3>3, SaveAdds DEF Top
  <2> QED BY <2>1, <2>2 DEF UpdateLower
<1> QED BY <1>2, <1>3, <1>4 DEF Grows

\* hence the propagation of an order literal
LEMMA PropagateSums ==
    ASSUME SInv, IInv', NEW l \in queue, PropagateLiteral(l)
    PROVE  MarksInv' /\ WatchesInv' /\ GainsInv' /\ SumsInv'
<1>1. /\ l.var \in Vars /\ l.value \in Int /\ IInv
      /\ UNCHANGED <<sumVars, inactiveLevel, dl>>
  BY DEF PropagateLiteral, SInv, IInv, TypeOK, Literals
<1>2. CASE levels' = PushLevel /\ UNCHANGED <<boundVars, diffVars>>
  BY <1>1, <1>2, PushGrows, GrowSums
<1>3. CASE UpdateUpper(l.var, l.value)
  BY <1>1, <1>3, UpperGrows, GrowSums
<1>4. CASE UpdateLower(l.var, l.value)
  BY <1>1, <1>4, LowerGrows, GrowSums
<1> QED BY <1>2, <1>3, <1>4 DEF PropagateLiteral

\* and that of the literal of a constraint.
LEMMA PropagateConsSums ==
    ASSUME SInv, IInv', NEW c \in Cons, PropagateCons(c)
    PROVE  MarksInv' /\ WatchesInv' /\ GainsInv' /\ SumsInv'
<1>1. IInv /\ levels' = PushLevel /\ UNCHANGED <<boundVars, diffVars, sumVars, inactiveLevel, dl>>
  BY DEF PropagateCons, SInv
<1> QED BY <1>1, PushGrows, GrowSums

-----------------------------------------------------------------------------
(* Reporting changes: which constraints are told.                          *)

\* A constraint that may be told about bounds watches all of its variables.
LEMMA ActiveWatches ==
    ASSUME IInv, WatchesInv, NEW v \in Vars, NEW c \in Cons,
           Coef[c][v] # 0, ~RemovableAt(c, Top.level)
    PROVE  c \in watches[v]
<1>1. SUFFICES ASSUME NEW k \in 1..Len(levels), <<v, c>> \in levels[k].removed
               PROVE  FALSE
  <2>1. HeldAt(0, v, c)
    BY DEF WatchesInv
  <2> QED BY <1>1, <2>1 DEF HeldAt
<1>2. Marked(c) /\ inactiveLevel[c] <= levels[k].level
  BY <1>1 DEF WatchesInv, RemovableAt
<1>3. levels[k].level <= Top.level /\ levels[k].level \in Nat /\ Top.level \in Nat
  BY FramesUpToTop DEF IInv, StacksOK
<1>4. inactiveLevel[c] \in Nat
  BY DEF IInv, TypeOK
<1>5. inactiveLevel[c] <= Top.level
  BY <1>2, <1>3, <1>4
<1> QED BY <1>2, <1>5 DEF RemovableAt

\* It is told the whole pending change.
LEMMA ChangeOfActive ==
    ASSUME IInv, WatchesInv, NEW v \in Vars, NEW c \in Cons, ~RemovableAt(c, Top.level)
    PROVE  /\ Change(c, v, inUdiff, udiff) = Coef[c][v] * udiff[v]
           /\ Change(c, v, inLdiff, ldiff) = Coef[c][v] * ldiff[v]
<1>1. Coef[c][v] \in Int /\ udiff[v] \in Int /\ ldiff[v] \in Int
  BY CoefAssumption DEF IInv, TypeOK
<1>2. v \notin inUdiff => udiff[v] = 0
  BY DEF IInv, PendingListed
<1>3. v \notin inLdiff => ldiff[v] = 0
  BY DEF IInv, PendingListed
<1>4. \A x \in Int : x * 0 = 0 /\ 0 * x = 0
  OBVIOUS
<1>5. Coef[c][v] # 0 => c \in watches[v]
  BY ActiveWatches
<1>6. c \notin watches[v] => Coef[c][v] * udiff[v] = 0 /\ Coef[c][v] * ldiff[v] = 0
  BY <1>1, <1>4, <1>5
<1>7. v \notin inUdiff => Coef[c][v] * udiff[v] = 0
  BY <1>1, <1>2, <1>4
<1>8. v \notin inLdiff => Coef[c][v] * ldiff[v] = 0
  BY <1>1, <1>3, <1>4
<1> QED BY <1>6, <1>7, <1>8 DEF Change

\* What update_constraints_ removes from the watches.
DroppedWatches == {p \in (inUdiff \union inLdiff) \X Cons :
                      p[2] \in watches[p[1]] /\ RemovableAt(p[2], Top.level)}

\* Reporting changes removes watches in the topmost frame only,
LEMMA FlushFrames ==
    ASSUME IInv, UpdateConstraints
    PROVE  /\ Len(levels') = Len(levels) /\ Top'.level = Top.level
           /\ \A i \in 1..Len(levels) :
                /\ levels'[i].level = levels[i].level
                /\ levels'[i].inactive = levels[i].inactive
                /\ levels'[i].removed = IF i = Len(levels) THEN levels[i].removed \union DroppedWatches
                                                          ELSE levels[i].removed
<1> DEFINE n == Len(levels)
           F == [Top EXCEPT !.removed = @ \union DroppedWatches]
<1>1. DroppedWatches \subseteq Vars \X Cons
  BY DEF IInv, TypeOK, DroppedWatches
<1>2. levels' = [levels EXCEPT ![n] = F]
  BY DEF UpdateConstraints, Top, DroppedWatches
<1>3. /\ F \in Frames /\ F.level = Top.level /\ F.inactive = Top.inactive
      /\ F.removed = Top.removed \union DroppedWatches
  BY <1>1, TopTyped DEF IInv, Frames
<1>4. levels \in Seq(Frames) /\ n \in 1..n
  BY TopTyped DEF IInv, TypeOK
<1> HIDE DEF F
<1>5. /\ Len(levels') = n /\ levels'[n] = F
      /\ \A i \in 1..n : i # n => levels'[i] = levels[i]
  BY <1>2, <1>3, <1>4
<1> QED BY <1>3, <1>4, <1>5 DEF Top

\* namely the watches of constraints inactive since a lower level.
LEMMA FlushWatches ==
    ASSUME IInv, UpdateConstraints, NEW v \in Vars, NEW c \in Cons
    PROVE  /\ c \in watches'[v] <=> c \in watches[v] /\ <<v, c>> \notin DroppedWatches
           /\ <<v, c>> \in DroppedWatches <=>
                (v \in inUdiff \/ v \in inLdiff) /\ c \in watches[v] /\ RemovableAt(c, Top.level)
<1>1. watches' = [w \in Vars |-> {d \in watches[w] : <<w, d>> \notin DroppedWatches}]
  BY DEF UpdateConstraints, DroppedWatches
<1>2. <<v, c>> \in DroppedWatches <=>
         (v \in inUdiff \/ v \in inLdiff) /\ c \in watches[v] /\ RemovableAt(c, Top.level)
  BY DEF DroppedWatches
<1> QED BY <1>1, <1>2

\* In the last frame it is as if the pending changes had been gained.
LEMMA FlushGains ==
    ASSUME IInv, UpdateConstraints, UNCHANGED boundVars, NEW v \in Vars, NEW i \in 2..Len(levels)
    PROVE  /\ i # Len(levels) => GainedLower(v, i)' = GainedLower(v, i) /\ GainedUpper(v, i)' = GainedUpper(v, i)
           /\ i = Len(levels) => /\ GainedLower(v, i)' = GainedLower(v, i) + ldiff[v]
                                 /\ GainedUpper(v, i)' = GainedUpper(v, i) + udiff[v]
           /\ ldiff'[v] = 0 /\ udiff'[v] = 0
<1> DEFINE n == Len(levels)
           k == levels[i].level
           low(l) == At(lowerStack[v], lower[v], l)
           upp(l) == At(upperStack[v], upper[v], l)
<1>1. /\ lowerStack[v] \in Seq(Entries) /\ upperStack[v] \in Seq(Entries)
      /\ lower[v] \in Int /\ upper[v] \in Int /\ ldiff[v] \in Int /\ udiff[v] \in Int
      /\ i \in 1..n /\ i # 1
  BY DEF IInv, TypeOK
<1>2. k \in Nat /\ k - 1 \in Nat
  BY <1>1, FramesUpToTop DEF IInv, StacksOK
<1>3. low(k) \in Int /\ upp(k) \in Int /\ low(k - 1) \in Int /\ upp(k - 1) \in Int
  BY <1>1, <1>2, AtTyped
<1>4. ldiff'[v] = 0 /\ udiff'[v] = 0
  BY DEF UpdateConstraints, IInv, PendingListed
<1>5. /\ GainedLower(v, i) = low(k) - low(k - 1) - (IF i = n THEN ldiff[v] ELSE 0)
      /\ GainedUpper(v, i) = upp(k) - upp(k - 1) - (IF i = n THEN udiff[v] ELSE 0)
  BY DEF GainedLower, GainedUpper, Gained
<1>6. /\ GainedLower(v, i)' = low(k) - low(k - 1) - 0
      /\ GainedUpper(v, i)' = upp(k) - upp(k - 1) - 0
  <2>1. Len(levels') = n /\ levels'[i].level = k
    BY <1>1, FlushFrames
  <2>2. UNCHANGED <<lower, upper, lowerStack, upperStack>>
    BY DEF boundVars
  <2> QED BY <1>4, <2>1, <2>2 DEF GainedLower, GainedUpper, Gained
<1> DEFINE a == low(k)  b == low(k - 1)  a2 == upp(k)  b2 == upp(k - 1)
           x == ldiff[v]  y == udiff[v]
<1>7. a \in Int /\ b \in Int /\ a2 \in Int /\ b2 \in Int /\ x \in Int /\ y \in Int
  BY <1>1, <1>3
<1>8. /\ GainedLower(v, i) = a - b - (IF i = n THEN x ELSE 0)
      /\ GainedUpper(v, i) = a2 - b2 - (IF i = n THEN y ELSE 0)
      /\ GainedLower(v, i)' = a - b - 0
      /\ GainedUpper(v, i)' = a2 - b2 - 0
  BY <1>5, <1>6
<1> HIDE DEF a, b, a2, b2, x, y, low, upp, n, k
<1>9. /\ a - b - 0 = (a - b - x) + x /\ a2 - b2 - 0 = (a2 - b2 - y) + y
  BY <1>7
<1>10. CASE i = n
  BY <1>4, <1>8, <1>9, <1>10 DEF x, y, n
<1>11. CASE i # n
  BY <1>4, <1>8, <1>11 DEF n
<1> QED BY <1>10, <1>11

-----------------------------------------------------------------------------
(* Reporting changes: what becomes of the invariant.                       *)

\* Watches are not added.
LEMMA FlushHeld ==
    ASSUME IInv, UpdateConstraints, NEW v \in Vars, NEW c \in Cons, NEW i \in Nat, HeldAt(i, v, c)'
    PROVE  HeldAt(i, v, c)
<1>1. CASE c \in watches'[v]
  BY <1>1, FlushWatches DEF HeldAt
<1>2. CASE \E k \in 1..Len(levels') : k > i /\ <<v, c>> \in levels'[k].removed
  <2>1. PICK k \in 1..Len(levels) : k > i /\ <<v, c>> \in levels'[k].removed
    BY <1>2, FlushFrames
  <2>2. <<v, c>> \in levels[k].removed \/ <<v, c>> \in DroppedWatches
    BY <2>1, FlushFrames
  <2> QED BY <2>1, <2>2, FlushWatches DEF HeldAt
<1> QED BY <1>1, <1>2 DEF HeldAt

\* Reporting the changes keeps marks, watches and gains.
LEMMA FlushKeepsInv ==
    ASSUME SInv, UpdateConstraints, UNCHANGED <<boundVars, inactiveLevel>>
    PROVE  MarksInv' /\ WatchesInv' /\ GainsInv'
<1>0. IInv /\ MarksInv /\ WatchesInv /\ GainsInv /\ Len(levels) \in Nat /\ Len(levels) \in 1..Len(levels)
  BY TopTyped DEF SInv, IInv
<1> DEFINE n == Len(levels)
<1>a. /\ Len(levels') = n /\ n \in Nat /\ n \in 1..n
      /\ \A i \in 1..n : /\ levels'[i].level = levels[i].level
                         /\ levels'[i].inactive = levels[i].inactive
  BY <1>0, FlushFrames
<1>b. /\ levels'[n].removed = levels[n].removed \union DroppedWatches
      /\ \A i \in 1..n : i # n => levels'[i].removed = levels[i].removed
  BY <1>0, FlushFrames
<1> HIDE DEF n
<1>1. MarksInv'
  BY <1>0, <1>a DEF MarksInv, Marked, n
<1>2. WatchesInv'
  <2>1. ASSUME NEW v \in Vars, NEW c \in Cons, Coef[c][v] # 0
        PROVE  HeldAt(0, v, c)'
    <3>1. HeldAt(0, v, c)
      BY <1>0, <2>1 DEF WatchesInv
    <3>2. CASE \E k \in 1..Len(levels) : k > 0 /\ <<v, c>> \in levels[k].removed
      <4>1. PICK k \in 1..Len(levels) : k > 0 /\ <<v, c>> \in levels[k].removed
        BY <3>2
      <4>2. k \in 1..Len(levels') /\ <<v, c>> \in levels'[k].removed
        BY <1>a, <1>b, <4>1 DEF n
      <4> QED BY <4>1, <4>2 DEF HeldAt
    <3>3. CASE c \in watches[v] /\ <<v, c>> \in DroppedWatches
      <4>1. n \in 1..Len(levels') /\ n > 0 /\ <<v, c>> \in levels'[n].removed
        BY <1>a, <1>b, <3>3
      <4> QED BY <4>1 DEF HeldAt
    <3>4. CASE c \in watches[v] /\ <<v, c>> \notin DroppedWatches
      BY <1>0, <3>4, FlushWatches DEF HeldAt
    <3> QED BY <3>1, <3>2, <3>3, <3>4 DEF HeldAt
  <2>2. ASSUME NEW v \in Vars, NEW c \in Cons, NEW k \in 1..Len(levels'), <<v, c>> \in levels'[k].removed
        PROVE  RemovableAt(c, levels[k].level)'
    <3>1. k \in 1..Len(levels) /\ levels'[k].level = levels[k].level
      BY <1>0, FlushFrames
    <3>2. <<v, c>> \in levels[k].removed \/ (k = Len(levels) /\ <<v, c>> \in DroppedWatches)
      BY <1>0, <2>2, <3>1, FlushFrames
    <3>3. RemovableAt(c, levels[k].level)
      BY <1>0, <3>1, <3>2, FlushWatches DEF WatchesInv, Top
    <3> QED BY <3>1, <3>3 DEF RemovableAt, Marked
  <2> QED BY <2>1, <2>2 DEF WatchesInv
<1>3. GainsInv'
  <2>1. ASSUME NEW v \in Vars, NEW i \in 2..Len(levels')
        PROVE  /\ GainedLower(v, i)' >= 0 /\ GainedUpper(v, i)' <= 0
               /\ \A c \in Cons : (RemovableAt(c, levels[i].level) /\ HeldAt(i, v, c))'
                                   => GainedLower(v, i)' = 0 /\ GainedUpper(v, i)' = 0
    <3>1. /\ i \in 2..Len(levels) /\ i \in 1..Len(levels) /\ i \in Nat
          /\ levels'[i].level = levels[i].level
      BY <1>a DEF n
    <3>2. /\ GainedLower(v, i) >= 0 /\ GainedUpper(v, i) <= 0
          /\ GainedLower(v, i) \in Int /\ GainedUpper(v, i) \in Int
          /\ ldiff[v] >= 0 /\ udiff[v] <= 0 /\ ldiff[v] \in Int /\ udiff[v] \in Int
      BY <1>0, <3>1, GainedTyped DEF GainsInv, IInv, PendingOnTop, TypeOK
    <3>3. /\ i # Len(levels) => GainedLower(v, i)' = GainedLower(v, i) /\ GainedUpper(v, i)' = GainedUpper(v, i)
          /\ i = Len(levels) => /\ GainedLower(v, i)' = GainedLower(v, i) + ldiff[v]
                                /\ GainedUpper(v, i)' = GainedUpper(v, i) + udiff[v]
      BY <1>0, <3>1, FlushGains
    <3>4. GainedLower(v, i)' >= 0 /\ GainedUpper(v, i)' <= 0
      <4> DEFINE a == GainedLower(v, i)  b == GainedUpper(v, i)  x == ldiff[v]  y == udiff[v]
      <4>1. a >= 0 /\ b <= 0 /\ a \in Int /\ b \in Int /\ x >= 0 /\ y <= 0 /\ x \in Int /\ y \in Int
        BY <3>2
      <4>2. \/ GainedLower(v, i)' = a /\ GainedUpper(v, i)' = b
            \/ GainedLower(v, i)' = a + x /\ GainedUpper(v, i)' = b + y
        BY <3>3
      <4> HIDE DEF a, b, x, y
      <4>3. a + x >= 0 /\ b + y <= 0
        BY <4>1
      <4> QED BY <4>1, <4>2, <4>3
    <3>5. ASSUME NEW c \in Cons, RemovableAt(c, levels[i].level)', HeldAt(i, v, c)'
          PROVE  GainedLower(v, i)' = 0 /\ GainedUpper(v, i)' = 0
      <4>1. RemovableAt(c, levels[i].level)
        BY <3>1, <3>5 DEF RemovableAt, Marked
      <4>2. HeldAt(i, v, c)
        BY <1>0, <3>1, <3>5, FlushHeld
      <4>3. GainedLower(v, i) = 0 /\ GainedUpper(v, i) = 0
        BY <1>0, <3>1, <4>1, <4>2 DEF GainsInv
      <4>4. CASE i # Len(levels)
        BY <3>3, <4>3, <4>4
      <4>5. CASE i = Len(levels)
        <5>1. c \in watches'[v]
          <6>1. ~\E k \in 1..Len(levels') : k > i
            BY <1>0, <4>5, FlushFrames
          <6> QED BY <3>5, <6>1 DEF HeldAt
        <5>2. v \notin inUdiff /\ v \notin inLdiff
          BY <1>0, <4>1, <4>5, <5>1, FlushWatches DEF Top
        <5>3. ldiff[v] = 0 /\ udiff[v] = 0
          BY <1>0, <5>2 DEF IInv, PendingListed
        <5> QED BY <3>3, <4>3, <4>5, <5>3
      <4> QED BY <4>4, <4>5
    <3> QED BY <3>4, <3>5
  <2> QED BY <2>1 DEF GainsInv
<1> QED BY <1>1, <1>2, <1>3

\* Constraints that are told add up the changes, the others do not count them.
LEMMA FlushSums ==
    ASSUME SInv, UpdateConstraints, UNCHANGED <<boundVars, inactiveLevel>>
    PROVE  SumsInv'
<1>0. IInv /\ MarksInv /\ WatchesInv
  BY DEF SInv
<1>1. ASSUME NEW c \in Cons
      PROVE  /\ csLower'[c] = LowerSum(c, ToldLower(c)', ToldUpper(c)')
             /\ csUpper'[c] = UpperSum(c, ToldLower(c)', ToldUpper(c)')
  <2> DEFINE f == [v \in Vars |-> Positive(Change(c, v, inUdiff, udiff))
                                + Positive(Change(c, v, inLdiff, ldiff))]
             g == [v \in Vars |-> Negative(Change(c, v, inUdiff, udiff))
                                + Negative(Change(c, v, inLdiff, ldiff))]
             lo == ToldLower(c)
             up == ToldUpper(c)
             lo2 == ToldLower(c)'
             up2 == ToldUpper(c)'
  <2>1. /\ csLower'[c] = csLower[c] + Sum(NumVars, f)
        /\ csUpper'[c] = csUpper[c] + Sum(NumVars, g)
    BY DEF UpdateConstraints
  <2>2. csLower[c] = LowerSum(c, lo, up) /\ csUpper[c] = UpperSum(c, lo, up)
    BY DEF SInv, SumsInv
  <2>3. lo \in [Vars -> Int] /\ up \in [Vars -> Int]
    BY <1>0, ToldTyped
  <2>4. \A v \in Vars : /\ Change(c, v, inUdiff, udiff) \in Int
                        /\ Change(c, v, inLdiff, ldiff) \in Int
    <3>1. \A v \in Vars : Coef[c][v] \in Int /\ udiff[v] \in Int /\ ldiff[v] \in Int
      BY <1>0, CoefAssumption DEF IInv, TypeOK
    <3>2. \A x, y \in Int : x * y \in Int
      OBVIOUS
    <3> QED BY <3>1, <3>2 DEF Change
  <2>5. f \in [Vars -> Int] /\ g \in [Vars -> Int]
    BY <2>4 DEF Positive, Negative
  <2>6. ASSUME NEW v \in Vars
        PROVE  /\ lo2[v] \in Int /\ up2[v] \in Int
               /\ Moves(Coef[c][v], lo[v], up[v], lo2[v], up2[v], f[v], g[v])
    <3> DEFINE co == Coef[c][v]
    <3>1. co \in Int /\ lo[v] \in Int /\ up[v] \in Int
      BY <2>3, CoefAssumption
    <3>2. UNCHANGED <<lower, upper, lowerStack, upperStack>> /\ Top'.level = Top.level
      BY <1>0, FlushFrames DEF boundVars
    <3>3. RemovableAt(c, Top.level)' <=> RemovableAt(c, Top.level)
      BY <3>2 DEF RemovableAt, Marked
    <3>4. CASE RemovableAt(c, Top.level)
      <4>1. lo2[v] = lo[v] /\ up2[v] = up[v]
        BY <3>2, <3>3, <3>4 DEF ToldLower, ToldUpper, Told
      <4>2. Change(c, v, inUdiff, udiff) = 0 /\ Change(c, v, inLdiff, ldiff) = 0
        BY <3>4 DEF Change
      <4>3. f[v] = 0 /\ g[v] = 0
        BY <4>2 DEF Positive, Negative
      <4>4. \A x \in Int : co * x \in Int /\ co * x + 0 = co * x
        BY <3>1
      <4> HIDE DEF f, g, lo, up, lo2, up2, co
      <4>5. /\ co * (IF co > 0 THEN lo[v] ELSE up[v]) + 0 = co * (IF co > 0 THEN lo[v] ELSE up[v])
            /\ co * (IF co > 0 THEN up[v] ELSE lo[v]) + 0 = co * (IF co > 0 THEN up[v] ELSE lo[v])
        BY <3>1, <4>4
      <4>6. Moves(co, lo[v], up[v], lo2[v], up2[v], f[v], g[v])
        BY <4>1, <4>3, <4>5 DEF Moves
      <4> QED BY <3>1, <4>1, <4>6 DEF co
    <3>5. CASE ~RemovableAt(c, Top.level)
      <4> DEFINE a == ldiff[v]
                 b == udiff[v]
      <4>1. /\ a \in Int /\ b \in Int /\ a >= 0 /\ b <= 0 /\ lower[v] \in Int /\ upper[v] \in Int
        BY <1>0 DEF IInv, TypeOK, PendingOnTop
      <4>2. lo[v] = lower[v] - a /\ up[v] = upper[v] - b
        BY <3>5 DEF ToldLower, ToldUpper, Told
      <4>3. lo2[v] = lower[v] - 0 /\ up2[v] = upper[v] - 0
        <5>1. ldiff'[v] = 0 /\ udiff'[v] = 0
          BY <1>0 DEF UpdateConstraints, IInv, PendingListed
        <5> QED BY <3>2, <3>3, <3>5, <5>1 DEF ToldLower, ToldUpper, Told
      <4>4. Change(c, v, inUdiff, udiff) = co * b /\ Change(c, v, inLdiff, ldiff) = co * a
        BY <1>0, <3>5, ChangeOfActive
      <4>5. /\ f[v] = Positive(co * b) + Positive(co * a)
            /\ g[v] = Negative(co * b) + Negative(co * a)
        BY <4>4
      <4> HIDE DEF f, g, lo, up, lo2, up2, co, a, b
      <4>6. lo2[v] = lo[v] + a /\ up2[v] = up[v] + b /\ lo2[v] \in Int /\ up2[v] \in Int
        BY <4>1, <4>2, <4>3
      <4>7. Moves(co, lo[v], up[v], lo[v] + a, up[v] + b, Positive(co * a) + Positive(co * b),
                                                          Negative(co * a) + Negative(co * b))
        BY <3>1, <4>1, ChangesSplit
      <4>8. /\ Positive(co * b) + Positive(co * a) = Positive(co * a) + Positive(co * b)
            /\ Negative(co * b) + Negative(co * a) = Negative(co * a) + Negative(co * b)
        <5>1. \A x, y \in Int : x * y \in Int /\ x + y = y + x
          OBVIOUS
        <5>2. \A x \in Int : Positive(x) \in Int /\ Negative(x) \in Int
          BY DEF Positive, Negative
        <5> QED BY <3>1, <4>1, <5>1, <5>2
      <4>9. Moves(co, lo[v], up[v], lo2[v], up2[v], f[v], g[v])
        BY <4>5, <4>6, <4>7, <4>8
      <4> QED BY <4>6, <4>9 DEF co
    <3> QED BY <3>4, <3>5
  <2>7. lo2 \in [Vars -> Int] /\ up2 \in [Vars -> Int]
    <3>1. \A v \in Vars : lo2[v] \in Int /\ up2[v] \in Int
      BY <2>6
    <3>2. lo2 = [v \in Vars |-> lo2[v]] /\ up2 = [v \in Vars |-> up2[v]]
      BY DEF ToldLower, ToldUpper
    <3> HIDE DEF lo2, up2
    <3> QED BY <3>1, <3>2
  <2> HIDE DEF f, g, lo, up, lo2, up2
  <2>8. /\ LowerSum(c, lo2, up2) = LowerSum(c, lo, up) + Sum(NumVars, f)
        /\ UpperSum(c, lo2, up2) = UpperSum(c, lo, up) + Sum(NumVars, g)
    <3>1. PartsMove(c, lo, up, lo2, up2, f, g)
      BY <2>6 DEF PartsMove
    <3> QED BY <2>3, <2>5, <2>7, <3>1, SumsMove
  <2> QED BY <2>1, <2>2, <2>8 DEF lo2, up2
<1> QED BY <1>1 DEF SumsInv

-----------------------------------------------------------------------------
(* Checking.                                                               *)

\* The start of a check, with and without reporting.
LEMMA CheckStartSums ==
    ASSUME SInv, CheckStart
    PROVE  MarksInv' /\ WatchesInv' /\ GainsInv' /\ SumsInv'
<1>1. UNCHANGED <<boundVars, inactiveLevel>>
  BY DEF CheckStart
<1>2. CASE UNCHANGED <<levels, diffVars, sumVars>>
  <2>1. UNCHANGED <<boundVars, levels, diffVars, sumVars, inactiveLevel>>
    BY <1>1, <1>2
  <2> QED BY <2>1, KeepSums
<1>3. CASE UpdateConstraints
  BY <1>1, <1>3, FlushKeepsInv, FlushSums
<1> QED BY <1>2, <1>3 DEF CheckStart

\* A constraint becomes inactive from the next level on.
LEMMA MarkSums ==
    ASSUME SInv, NEW c \in Cons, ~Marked(c), UNCHANGED <<boundVars, diffVars, sumVars>>,
           inactiveLevel' = [inactiveLevel EXCEPT ![c] = Top.level + 1],
           levels' = [levels EXCEPT ![Len(levels)].inactive = @ \union {c}]
    PROVE  MarksInv' /\ WatchesInv' /\ GainsInv' /\ SumsInv'
<1> DEFINE n == Len(levels)
           F == [Top EXCEPT !.inactive = @ \union {c}]
<1>0. IInv /\ MarksInv /\ WatchesInv /\ GainsInv /\ SumsInv /\ n \in Nat /\ n \in 1..n
  BY TopTyped DEF SInv, IInv
<1>1. /\ F \in Frames /\ F.level = Top.level /\ F.removed = Top.removed
      /\ F.inactive = Top.inactive \union {c}
  BY <1>0, TopTyped DEF IInv, Frames
<1>2. /\ Len(levels') = n /\ levels'[n] = F
      /\ \A i \in 1..n : i # n => levels'[i] = levels[i]
  <2>1. levels' = [levels EXCEPT ![n] = F] /\ levels \in Seq(Frames)
    BY <1>0 DEF Top, IInv, TypeOK
  <2> HIDE DEF F
  <2> QED BY <1>0, <1>1, <2>1
<1>3. /\ \A i \in 1..n : levels'[i].level = levels[i].level /\ levels'[i].removed = levels[i].removed
      /\ levels'[n].inactive = levels[n].inactive \union {c}
      /\ \A i \in 1..n : i # n => levels'[i].inactive = levels[i].inactive
      /\ Top'.level = Top.level
  BY <1>0, <1>1, <1>2 DEF Top
<1>4. /\ inactiveLevel'[c] = Top.level + 1 /\ inactiveLevel[c] = 0 /\ Top.level \in Nat
      /\ \A d \in Cons : d # c => inactiveLevel'[d] = inactiveLevel[d]
  <2> DEFINE x == Top.level + 1
  <2>1. inactiveLevel \in [Cons -> Nat] /\ inactiveLevel' = [inactiveLevel EXCEPT ![c] = x] /\ Top.level \in Nat
    BY <1>0, TopTyped DEF IInv, TypeOK
  <2>2. inactiveLevel[c] = 0
    BY <2>1 DEF Marked
  <2> HIDE DEF x
  <2>3. inactiveLevel'[c] = x /\ \A d \in Cons : d # c => inactiveLevel'[d] = inactiveLevel[d]
    BY <2>1
  <2> QED BY <2>1, <2>2, <2>3 DEF x
<1>5. \A i \in 1..n : levels[i].level \in Nat /\ levels[i].level <= Top.level
  BY <1>0, FramesUpToTop DEF IInv, StacksOK
<1> HIDE DEF n, F
<1>6. ASSUME NEW d \in Cons, NEW i \in 1..n
      PROVE  RemovableAt(d, levels[i].level)' <=> RemovableAt(d, levels[i].level)
  <2>1. CASE d = c
    <3>1. ~(Top.level + 1 <= levels[i].level)
      BY <1>4, <1>5
    <3> QED BY <1>3, <1>4, <2>1, <3>1 DEF RemovableAt, Marked
  <2>2. CASE d # c
    BY <1>3, <1>4, <2>2 DEF RemovableAt, Marked
  <2> QED BY <2>1, <2>2
<1>7. MarksInv'
  <2>1. ASSUME NEW d \in Cons, NEW i \in 1..n, d \in levels'[i].inactive
        PROVE  inactiveLevel'[d] = levels'[i].level + 1
    <3>1. CASE d \in levels[i].inactive
      <4>1. inactiveLevel[d] = levels[i].level + 1
        BY <1>0, <3>1 DEF MarksInv, n
      <4>2. d # c
        BY <1>4, <1>5, <4>1
      <4> QED BY <1>3, <1>4, <4>1, <4>2
    <3>2. CASE d \notin levels[i].inactive
      <4>1. i = n /\ d = c
        BY <1>3, <2>1, <3>2
      <4> QED BY <1>3, <1>4, <4>1 DEF Top, n
    <3> QED BY <3>1, <3>2
  <2>2. ASSUME NEW d \in Cons, Marked(d)'
        PROVE  \E i \in 1..n : d \in levels'[i].inactive
    <3>1. CASE d = c
      BY <1>0, <1>3, <3>1 DEF n
    <3>2. CASE d # c
      <4>1. Marked(d)
        BY <1>4, <2>2, <3>2 DEF Marked
      <4>2. PICK i \in 1..n : d \in levels[i].inactive
        BY <1>0, <4>1 DEF MarksInv, n
      <4> QED BY <1>3, <4>2
    <3> QED BY <3>1, <3>2
  <2>3. Len(levels') = n
    BY <1>2
  <2> QED BY <2>1, <2>2, <2>3 DEF MarksInv
<1>8. ASSUME NEW v \in Vars, NEW d \in Cons, NEW i \in Nat
      PROVE  HeldAt(i, v, d)' <=> HeldAt(i, v, d)
  <2>1. watches' = watches /\ Len(levels') = n
    BY <1>2 DEF sumVars
  <2> QED BY <1>3, <2>1 DEF HeldAt, n
<1>9. WatchesInv'
  <2>1. ASSUME NEW v \in Vars, NEW d \in Cons, Coef[d][v] # 0
        PROVE  HeldAt(0, v, d)'
    BY <1>0, <1>8, <2>1 DEF WatchesInv
  <2>2. ASSUME NEW v \in Vars, NEW d \in Cons, NEW k \in 1..n, <<v, d>> \in levels'[k].removed
        PROVE  RemovableAt(d, levels[k].level)'
    BY <1>0, <1>3, <1>6, <2>2 DEF WatchesInv, n
  <2>3. Len(levels') = n
    BY <1>2
  <2> QED BY <2>1, <2>2, <2>3 DEF WatchesInv
<1>10. GainsInv'
  <2>1. ASSUME NEW v \in Vars, NEW i \in 2..n
        PROVE  /\ GainedLower(v, i)' >= 0 /\ GainedUpper(v, i)' <= 0
               /\ \A d \in Cons : (RemovableAt(d, levels[i].level) /\ HeldAt(i, v, d))'
                                   => GainedLower(v, i)' = 0 /\ GainedUpper(v, i)' = 0
    <3>1. i \in 1..n /\ i \in Nat
      BY <1>0 DEF n
    <3>2. GainedLower(v, i)' = GainedLower(v, i) /\ GainedUpper(v, i)' = GainedUpper(v, i)
      <4>1. UNCHANGED <<lower, upper, lowerStack, upperStack, ldiff, udiff>>
        BY DEF boundVars, diffVars
      <4> QED BY <1>2, <1>3, <3>1, <4>1 DEF GainedLower, GainedUpper, Gained, n
    <3> QED BY <1>0, <1>6, <1>8, <3>1, <3>2 DEF GainsInv, n
  <2>2. Len(levels') = n
    BY <1>2
  <2> QED BY <2>1, <2>2 DEF GainsInv
<1>11. SumsInv'
  <2>1. ASSUME NEW d \in Cons
        PROVE  ToldLower(d)' = ToldLower(d) /\ ToldUpper(d)' = ToldUpper(d)
    <3>1. UNCHANGED <<lower, upper, lowerStack, upperStack, ldiff, udiff>>
      BY DEF boundVars, diffVars
    <3>2. RemovableAt(d, Top.level)' <=> RemovableAt(d, Top.level)
      BY <1>0, <1>3, <1>6 DEF Top, n, RemovableAt
    <3>3. RemovableAt(d, Top.level) => inactiveLevel'[d] = inactiveLevel[d]
      BY <1>4 DEF RemovableAt
    <3>4. ASSUME NEW v \in Vars
          PROVE  /\ Told(d, lowerStack[v], lower[v], ldiff[v])' = Told(d, lowerStack[v], lower[v], ldiff[v])
                 /\ Told(d, upperStack[v], upper[v], udiff[v])' = Told(d, upperStack[v], upper[v], udiff[v])
      BY <3>1, <3>2, <3>3 DEF Told
    <3> QED BY <3>4 DEF ToldLower, ToldUpper
  <2>2. csLower' = csLower /\ csUpper' = csUpper
    BY DEF sumVars
  <2> QED BY <1>0, <2>1, <2>2 DEF SumsInv
<1> QED BY <1>7, <1>9, <1>10, <1>11

\* Checking a constraint may mark it, on the level of the topmost frame.
LEMMA CheckItemSums ==
    ASSUME SInv, NEW c \in Cons, CheckItem(c)
    PROVE  MarksInv' /\ WatchesInv' /\ GainsInv' /\ SumsInv'
<1>1. UNCHANGED <<boundVars, diffVars, sumVars>>
  BY DEF CheckItem
<1>2. CASE UNCHANGED <<inactiveLevel, levels>>
  <2>1. UNCHANGED <<boundVars, levels, diffVars, sumVars, inactiveLevel>>
    BY <1>1, <1>2
  <2> QED BY <2>1, KeepSums
<1>3. CASE MarkInactive(c)
  <2>1. CASE Removable(c) /\ ~Marked(c)
    BY <1>1, <1>3, <2>1, MarkSums DEF MarkInactive
  <2>2. CASE ~(Removable(c) /\ ~Marked(c))
    BY <1>2, <1>3, <2>2 DEF MarkInactive
  <2> QED BY <2>1, <2>2
<1> QED BY <1>2, <1>3 DEF CheckItem, SkipFalse, SkipOpen, Satisfied, Violated, Enforce

-----------------------------------------------------------------------------
(* Undo: the frame and its bounds.                                         *)

\* The bounds after undoing a frame are those of the level below.
LEMMA UndoBounds ==
    ASSUME IInv, HasFrame, dl > 0, UndoFrame
    PROVE  /\ Len(levels) \in Nat /\ Len(levels) > 1 /\ Len(levels') = Len(levels) - 1
           /\ \A i \in 1..(Len(levels) - 1) : levels'[i] = levels[i]
           /\ \A i \in 1..(Len(levels) - 1) : levels[i].level \in Nat /\ levels[i].level < dl
           /\ Top.level = dl /\ dl \in Nat /\ Top'.level \in Nat /\ Top'.level <= dl - 1
           /\ \A v \in Vars :
                /\ lower'[v] \in Int /\ upper'[v] \in Int
                /\ ldiff'[v] = 0 /\ udiff'[v] = 0
                /\ \A l \in 0..(dl - 1) : /\ At(lowerStack'[v], lower'[v], l) = At(lowerStack[v], lower[v], l)
                                          /\ At(upperStack'[v], upper'[v], l) = At(upperStack[v], upper[v], l)
                /\ \A l \in Nat : l >= Top'.level => /\ At(lowerStack'[v], lower'[v], l) = lower'[v]
                                                     /\ At(upperStack'[v], upper'[v], l) = upper'[v]
                /\ v \notin Top.undoLower => lower'[v] = lower[v] /\ ldiff[v] = 0
                /\ v \notin Top.undoUpper => upper'[v] = upper[v] /\ udiff[v] = 0
<1> DEFINE n == Len(levels)
<1>1. /\ levels \in Seq(Frames) /\ LevelsOK(levels) /\ n \in Nat /\ n \in 1..n
      /\ levels[n].level = dl /\ dl \in Nat /\ Top.level = dl /\ TypeOK
  BY DEF IInv, TypeOK, StacksOK, HasFrame, Top
<1>2. n > 1
  BY <1>1 DEF LevelsOK
<1>3. /\ lower' \in [Vars -> Int] /\ upper' \in [Vars -> Int]
      /\ lowerStack' \in [Vars -> Seq(Entries)] /\ upperStack' \in [Vars -> Seq(Entries)]
      /\ levels' \in Seq(Frames) /\ levels' # <<>>
      /\ StacksOK(levels', lowerStack', upperStack')
      /\ Top'.level < dl
      /\ \A v \in Vars : ldiff'[v] = 0 /\ udiff'[v] = 0
  BY UndoFrameInv
<1>4. Len(levels') = n - 1 /\ \A i \in 1..(n - 1) : levels'[i] = levels[i]
  BY <1>1, <1>2, DropLast DEF UndoFrame
<1>5. \A i \in 1..(n - 1) : levels[i].level \in Nat /\ levels[i].level < dl
  BY <1>1, <1>2, FrameLevel DEF LevelsOK
<1>6. Top'.level \in Nat /\ Top'.level <= dl - 1
  <2>1. Len(levels') \in 1..Len(levels')
    BY <1>1, <1>2, <1>4
  <2>2. Top'.level \in Nat
    BY <1>3, <2>1, FrameLevel DEF Top
  <2> QED BY <1>1, <1>3, <2>2
<1>7. /\ lower' = Restored(lowerStack, lower, Top.undoLower)
      /\ upper' = Restored(upperStack, upper, Top.undoUpper)
      /\ lowerStack' = Popped(lowerStack, Top.undoLower)
      /\ upperStack' = Popped(upperStack, Top.undoUpper)
  BY DEF UndoFrame
<1>8. ASSUME NEW v \in Vars, NEW l \in 0..(dl - 1)
      PROVE  /\ At(lowerStack'[v], lower'[v], l) = At(lowerStack[v], lower[v], l)
             /\ At(upperStack'[v], upper'[v], l) = At(upperStack[v], upper[v], l)
  <2>1. l \in Nat /\ l < dl
    BY <1>1
  <2>2. At(lowerStack'[v], lower'[v], l) = At(lowerStack[v], lower[v], l)
    <3> DEFINE st == lowerStack[v]
    <3>1. st \in Seq(Entries) /\ StackOK(st, levels, LowerFrames(levels, v))
      BY DEF IInv, TypeOK, StacksOK
    <3>2. CASE v \in Top.undoLower
      <4>1. n \in LowerFrames(levels, v)
        BY <1>1, <3>2 DEF LowerFrames, Top
      <4>2. Len(st) > 0 /\ st[Len(st)].level > l
        BY <1>1, <2>1, <3>1, <4>1, StackLast
      <4>3. lower'[v] = st[Len(st)].value /\ lowerStack'[v] = SubSeq(st, 1, Len(st) - 1)
        BY <1>7, <3>2 DEF Restored, Popped
      <4> HIDE DEF st
      <4>4. At(lowerStack'[v], lower'[v], l) = At(st, lower[v], l)
        BY <2>1, <3>1, <4>2, <4>3, AtRestore
      <4> QED BY <4>4 DEF st
    <3>3. CASE v \notin Top.undoLower
      BY <1>7, <3>3 DEF Restored, Popped
    <3> QED BY <3>2, <3>3
  <2>3. At(upperStack'[v], upper'[v], l) = At(upperStack[v], upper[v], l)
    <3> DEFINE st == upperStack[v]
    <3>1. st \in Seq(Entries) /\ StackOK(st, levels, UpperFrames(levels, v))
      BY DEF IInv, TypeOK, StacksOK
    <3>2. CASE v \in Top.undoUpper
      <4>1. n \in UpperFrames(levels, v)
        BY <1>1, <3>2 DEF UpperFrames, Top
      <4>2. Len(st) > 0 /\ st[Len(st)].level > l
        BY <1>1, <2>1, <3>1, <4>1, StackLast
      <4>3. upper'[v] = st[Len(st)].value /\ upperStack'[v] = SubSeq(st, 1, Len(st) - 1)
        BY <1>7, <3>2 DEF Restored, Popped
      <4> HIDE DEF st
      <4>4. At(upperStack'[v], upper'[v], l) = At(st, upper[v], l)
        BY <2>1, <3>1, <4>2, <4>3, AtRestore
      <4> QED BY <4>4 DEF st
    <3>3. CASE v \notin Top.undoUpper
      BY <1>7, <3>3 DEF Restored, Popped
    <3> QED BY <3>2, <3>3
  <2> QED BY <2>2, <2>3
<1>9. ASSUME NEW v \in Vars, NEW l \in Nat, l >= Top'.level
      PROVE  At(lowerStack'[v], lower'[v], l) = lower'[v] /\ At(upperStack'[v], upper'[v], l) = upper'[v]
  <2>1. /\ levels' \in Seq(Frames) /\ LevelsOK(levels') /\ l >= levels'[Len(levels')].level
        /\ lowerStack'[v] \in Seq(Entries) /\ upperStack'[v] \in Seq(Entries)
        /\ StackOK(lowerStack'[v], levels', LowerFrames(levels', v))
        /\ StackOK(upperStack'[v], levels', UpperFrames(levels', v))
    BY <1>3, <1>9 DEF StacksOK, Top
  <2> QED BY <2>1, AtFrames
<1>10. ASSUME NEW v \in Vars
       PROVE  /\ v \notin Top.undoLower => lower'[v] = lower[v] /\ ldiff[v] = 0
              /\ v \notin Top.undoUpper => upper'[v] = upper[v] /\ udiff[v] = 0
  <2>1. /\ v \notin Top.undoLower => lower'[v] = lower[v]
        /\ v \notin Top.undoUpper => upper'[v] = upper[v]
    BY <1>7 DEF Restored
  <2>2. /\ v \notin Top.undoLower => v \notin inLdiff
        /\ v \notin Top.undoUpper => v \notin inUdiff
    BY DEF IInv, PendingOnTop
  <2> QED BY <2>1, <2>2 DEF IInv, PendingListed
<1> QED BY <1>1, <1>2, <1>3, <1>4, <1>5, <1>6, <1>8, <1>9, <1>10

\* What the level had gained is what has been reported of its changes.
LEMMA UndoGained ==
    ASSUME IInv, HasFrame, dl > 0, UndoFrame, NEW v \in Vars
    PROVE  /\ GainedLower(v, Len(levels)) = lower[v] - lower'[v] - ldiff[v]
           /\ GainedUpper(v, Len(levels)) = upper[v] - upper'[v] - udiff[v]
<1> DEFINE n == Len(levels)
<1>1. Top.level = dl /\ dl \in Nat /\ dl - 1 \in Nat /\ dl - 1 \in 0..(dl - 1) /\ Top'.level <= dl - 1
  BY UndoBounds
<1>2. /\ GainedLower(v, n) = At(lowerStack[v], lower[v], dl) - At(lowerStack[v], lower[v], dl - 1) - ldiff[v]
      /\ GainedUpper(v, n) = At(upperStack[v], upper[v], dl) - At(upperStack[v], upper[v], dl - 1) - udiff[v]
  BY <1>1 DEF GainedLower, GainedUpper, Gained, Top
<1>3. At(lowerStack[v], lower[v], dl) = lower[v] /\ At(upperStack[v], upper[v], dl) = upper[v]
  BY <1>1, AtTop
<1>4. At(lowerStack[v], lower[v], dl - 1) = lower'[v] /\ At(upperStack[v], upper[v], dl - 1) = upper'[v]
  <2>1. Top'.level \in Nat /\ dl - 1 >= Top'.level
    BY <1>1, UndoBounds
  <2>2. /\ At(lowerStack'[v], lower'[v], dl - 1) = At(lowerStack[v], lower[v], dl - 1)
        /\ At(upperStack'[v], upper'[v], dl - 1) = At(upperStack[v], upper[v], dl - 1)
    BY <1>1, UndoBounds
  <2>3. /\ At(lowerStack'[v], lower'[v], dl - 1) = lower'[v]
        /\ At(upperStack'[v], upper'[v], dl - 1) = upper'[v]
    BY <1>1, <2>1, UndoBounds
  <2> QED BY <2>2, <2>3
<1> QED BY <1>2, <1>3, <1>4

\* Constraints that become active again are those of the level.
LEMMA UndoMarks ==
    ASSUME IInv, MarksInv, HasFrame, dl > 0, UndoFrame, NEW c \in Cons
    PROVE  /\ c \in Top.inactive => inactiveLevel'[c] = 0 /\ inactiveLevel[c] = dl + 1
           /\ c \notin Top.inactive => inactiveLevel'[c] = inactiveLevel[c]
           /\ inactiveLevel[c] \in Nat
           /\ \A l \in 0..(dl - 1) : RemovableAt(c, l)' <=> RemovableAt(c, l)
<1>1. inactiveLevel[c] \in Nat /\ Top.level = dl /\ dl \in Nat /\ Len(levels) \in 1..Len(levels)
  BY UndoBounds, TopTyped DEF IInv, TypeOK
<1>2. /\ c \in Top.inactive => inactiveLevel'[c] = 0
      /\ c \notin Top.inactive => inactiveLevel'[c] = inactiveLevel[c]
  BY DEF UndoFrame
<1>3. c \in Top.inactive => inactiveLevel[c] = dl + 1
  BY <1>1 DEF MarksInv, Top
<1>4. ASSUME NEW l \in 0..(dl - 1)
      PROVE  RemovableAt(c, l)' <=> RemovableAt(c, l)
  <2>1. CASE c \in Top.inactive
    <3>1. ~(dl + 1 <= l)
      BY <1>1
    <3> QED BY <1>2, <1>3, <2>1, <3>1 DEF RemovableAt, Marked
  <2>2. CASE c \notin Top.inactive
    BY <1>2, <2>2 DEF RemovableAt, Marked
  <2> QED BY <2>1, <2>2
<1> QED BY <1>1, <1>2, <1>3, <1>4

\* Undo adds the watches its frame removed.
LEMMA UndoWatched ==
    ASSUME IInv, UndoFrame, NEW v \in Vars, NEW c \in Cons
    PROVE  c \in watches'[v] <=> c \in watches[v] \/ <<v, c>> \in levels[Len(levels)].removed
<1>1. watches' = [w \in Vars |-> watches[w] \union {d \in Cons : <<w, d>> \in Top.removed}]
  BY DEF UndoFrame
<1>2. watches'[v] = watches[v] \union {d \in Cons : <<v, d>> \in Top.removed}
  BY <1>1
<1> QED BY <1>2 DEF Top

\* Undo keeps marks, watches and gains.
LEMMA UndoKeepsInv ==
    ASSUME SInv, HasFrame, dl > 0, UndoFrame
    PROVE  MarksInv' /\ WatchesInv' /\ GainsInv'
<1> DEFINE n == Len(levels)
<1>0. IInv /\ MarksInv /\ WatchesInv /\ GainsInv
  BY DEF SInv
<1>1. /\ n \in Nat /\ n > 1 /\ Len(levels') = n - 1 /\ dl \in Nat
      /\ \A i \in 1..(n - 1) : levels'[i] = levels[i]
      /\ \A i \in 1..(n - 1) : levels[i].level \in Nat /\ levels[i].level < dl
      /\ \A i \in 1..(n - 1) : levels[i].level \in 0..(dl - 1)
  BY <1>0, UndoBounds
<1>2. MarksInv'
  <2>1. ASSUME NEW c \in Cons, NEW i \in 1..(n - 1), c \in levels'[i].inactive
        PROVE  inactiveLevel'[c] = levels'[i].level + 1
    <3>1. i \in 1..n
      BY <1>1
    <3>2. inactiveLevel[c] = levels[i].level + 1
      BY <1>0, <1>1, <2>1, <3>1 DEF MarksInv
    <3>3. levels[i].level + 1 # dl + 1
      BY <1>1
    <3> QED BY <1>0, <1>1, <3>2, <3>3, UndoMarks
  <2>2. ASSUME NEW c \in Cons, Marked(c)'
        PROVE  \E i \in 1..(n - 1) : c \in levels'[i].inactive
    <3>1. c \notin Top.inactive
      <4>1. c \in Top.inactive => inactiveLevel'[c] = 0
        BY <1>0, UndoMarks
      <4> QED BY <2>2, <4>1 DEF Marked
    <3>2. Marked(c)
      BY <1>0, <2>2, <3>1, UndoMarks DEF Marked
    <3>3. PICK i \in 1..n : c \in levels[i].inactive
      BY <1>0, <3>2 DEF MarksInv
    <3>4. i # n
      BY <3>1, <3>3 DEF Top
    <3>5. i \in 1..(n - 1)
      BY <1>1, <3>4
    <3> QED BY <1>1, <3>3, <3>5
  <2> QED BY <1>1, <2>1, <2>2 DEF MarksInv
<1>3. ASSUME NEW v \in Vars, NEW c \in Cons, NEW i \in 0..(n - 1)
      PROVE  HeldAt(i, v, c)' <=> HeldAt(i, v, c)
  <2>1. c \in watches'[v] <=> c \in watches[v] \/ <<v, c>> \in levels[n].removed
    BY <1>0, UndoWatched
  <2>2. /\ n > i /\ n \in 1..n
        /\ \A k \in 1..n : k \in 1..(n - 1) \/ k = n
        /\ \A k \in 1..(n - 1) : k \in 1..n
    BY <1>1
  <2>3. HeldAt(i, v, c)' <=> c \in watches'[v] \/ \E k \in 1..(n - 1) : k > i /\ <<v, c>> \in levels[k].removed
    BY <1>1 DEF HeldAt
  <2>4. HeldAt(i, v, c) <=> c \in watches[v] \/ \E k \in 1..n : k > i /\ <<v, c>> \in levels[k].removed
    BY DEF HeldAt
  <2> HIDE DEF n
  <2> QED BY <2>1, <2>2, <2>3, <2>4
<1>4. WatchesInv'
  <2>1. ASSUME NEW v \in Vars, NEW c \in Cons, Coef[c][v] # 0
        PROVE  HeldAt(0, v, c)'
    <3>1. 0 \in 0..(n - 1)
      BY <1>1
    <3> QED BY <1>0, <1>3, <2>1, <3>1 DEF WatchesInv
  <2>2. ASSUME NEW v \in Vars, NEW c \in Cons, NEW k \in 1..(n - 1), <<v, c>> \in levels'[k].removed
        PROVE  RemovableAt(c, levels[k].level)'
    <3>1. k \in 1..n /\ levels'[k] = levels[k]
      BY <1>1
    <3>2. RemovableAt(c, levels[k].level)
      BY <1>0, <2>2, <3>1 DEF WatchesInv
    <3> DEFINE l == levels[k].level
    <3>3. l \in 0..(dl - 1) /\ levels'[k].level = l
      BY <1>1, <3>1
    <3>4. inactiveLevel'[c] = inactiveLevel[c]
      <4>1. inactiveLevel[c] <= l /\ inactiveLevel[c] \in Nat /\ l \in Nat /\ l < dl
        BY <1>0, <1>1, <3>2, UndoMarks DEF RemovableAt
      <4>2. inactiveLevel[c] # dl + 1
        <5> HIDE DEF l
        <5> QED BY <1>1, <4>1
      <4> QED BY <1>0, <4>2, UndoMarks
    <3> QED BY <3>2, <3>3, <3>4 DEF RemovableAt, Marked
  <2> QED BY <1>1, <2>1, <2>2 DEF WatchesInv
<1>5. GainsInv'
  <2>1. ASSUME NEW v \in Vars, NEW i \in 2..(n - 1)
        PROVE  /\ GainedLower(v, i)' >= 0 /\ GainedUpper(v, i)' <= 0
               /\ \A c \in Cons : (RemovableAt(c, levels[i].level) /\ HeldAt(i, v, c))'
                                   => GainedLower(v, i)' = 0 /\ GainedUpper(v, i)' = 0
    <3> DEFINE k == levels[i].level
    <3>1. /\ i \in 1..(n - 1) /\ i \in 2..n /\ i \in 0..(n - 1) /\ i # n /\ i \in 1..n /\ i # 1
      BY <1>1
    <3>2. /\ levels'[i] = levels[i] /\ k \in Nat /\ k - 1 \in Nat /\ k < dl
      BY <1>0, <1>1, <3>1, FramesUpToTop DEF IInv, StacksOK
    <3>3. k \in 0..(dl - 1) /\ k - 1 \in 0..(dl - 1)
      <4> HIDE DEF k
      <4> QED BY <1>1, <3>2
    <3>4. GainedLower(v, i)' = GainedLower(v, i) /\ GainedUpper(v, i)' = GainedUpper(v, i)
      <4>1. ldiff'[v] = 0 /\ udiff'[v] = 0
        BY <1>0, UndoBounds
      <4>2. /\ At(lowerStack'[v], lower'[v], k) = At(lowerStack[v], lower[v], k)
            /\ At(upperStack'[v], upper'[v], k) = At(upperStack[v], upper[v], k)
            /\ At(lowerStack'[v], lower'[v], k - 1) = At(lowerStack[v], lower[v], k - 1)
            /\ At(upperStack'[v], upper'[v], k - 1) = At(upperStack[v], upper[v], k - 1)
        BY <1>0, <3>3, UndoBounds
      <4>3. /\ GainedLower(v, i)' = At(lowerStack'[v], lower'[v], k) - At(lowerStack'[v], lower'[v], k - 1) - 0
            /\ GainedUpper(v, i)' = At(upperStack'[v], upper'[v], k) - At(upperStack'[v], upper'[v], k - 1) - 0
        BY <3>2, <4>1 DEF GainedLower, GainedUpper, Gained
      <4>4. /\ GainedLower(v, i) = At(lowerStack[v], lower[v], k) - At(lowerStack[v], lower[v], k - 1) - 0
            /\ GainedUpper(v, i) = At(upperStack[v], upper[v], k) - At(upperStack[v], upper[v], k - 1) - 0
        BY <3>1 DEF GainedLower, GainedUpper, Gained
      <4> QED BY <4>2, <4>3, <4>4
    <3>5. ASSUME NEW c \in Cons, RemovableAt(c, levels[i].level)', HeldAt(i, v, c)'
          PROVE  GainedLower(v, i)' = 0 /\ GainedUpper(v, i)' = 0
      <4>1. HeldAt(i, v, c)
        BY <1>3, <3>1, <3>5
      <4>2. Marked(c)' /\ inactiveLevel'[c] <= k
        BY <3>2, <3>5 DEF RemovableAt
      <4>3. c \notin Top.inactive
        BY <1>0, <4>2, UndoMarks DEF Marked
      <4>4. RemovableAt(c, k)
        BY <1>0, <4>2, <4>3, UndoMarks DEF RemovableAt, Marked
      <4> QED BY <1>0, <3>1, <3>4, <4>1, <4>4 DEF GainsInv
    <3> QED BY <1>0, <3>1, <3>4, <3>5 DEF GainsInv
  <2> QED BY <1>1, <2>1 DEF GainsInv
<1> QED BY <1>2, <1>4, <1>5

-----------------------------------------------------------------------------
(* Undo: the sums.                                                         *)

\* A variable of an active constraint takes back what had been gained.
LEMMA TakenBackOfActive ==
    ASSUME IInv, WatchesInv, HasFrame, dl > 0, UndoFrame,
           NEW v \in Vars, NEW c \in Cons, ~RemovableAt(c, Top.level)
    PROVE  /\ TakenBack(c, v, Top.undoLower, lower, ldiff) = Coef[c][v] * GainedLower(v, Len(levels))
           /\ TakenBack(c, v, Top.undoUpper, upper, udiff) = Coef[c][v] * GainedUpper(v, Len(levels))
<1> DEFINE co == Coef[c][v]
           a  == lower[v] - lower'[v] - ldiff[v]
           b  == upper[v] - upper'[v] - udiff[v]
<1>1. /\ co \in Int /\ lower[v] \in Int /\ upper[v] \in Int /\ ldiff[v] \in Int /\ udiff[v] \in Int
      /\ lower'[v] \in Int /\ upper'[v] \in Int
  BY CoefAssumption, UndoBounds DEF IInv, TypeOK
<1>2. a \in Int /\ b \in Int
  BY <1>1
<1>3. v \notin Top.undoLower => a = 0
  <2>1. v \notin Top.undoLower => lower'[v] = lower[v] /\ ldiff[v] = 0
    BY UndoBounds
  <2> QED BY <1>1, <2>1
<1>4. v \notin Top.undoUpper => b = 0
  <2>1. v \notin Top.undoUpper => upper'[v] = upper[v] /\ udiff[v] = 0
    BY UndoBounds
  <2> QED BY <1>1, <2>1
<1>5. c \in watches[v] \/ co = 0
  BY ActiveWatches
<1>6. /\ TakenBack(c, v, Top.undoLower, lower, ldiff) = IF v \in Top.undoLower /\ c \in watches[v] THEN co * a ELSE 0
      /\ TakenBack(c, v, Top.undoUpper, upper, udiff) = IF v \in Top.undoUpper /\ c \in watches[v] THEN co * b ELSE 0
  BY DEF TakenBack
<1>7. GainedLower(v, Len(levels)) = a /\ GainedUpper(v, Len(levels)) = b
  BY UndoGained
<1>8. \A x \in Int : x * 0 = 0 /\ 0 * x = 0
  OBVIOUS
<1> HIDE DEF a, b, co
<1>9. v \notin Top.undoLower \/ c \notin watches[v] => co * a = 0
  BY <1>1, <1>2, <1>3, <1>5, <1>8
<1>10. v \notin Top.undoUpper \/ c \notin watches[v] => co * b = 0
  BY <1>1, <1>2, <1>4, <1>5, <1>8
<1> QED BY <1>6, <1>7, <1>9, <1>10 DEF co

\* One of an inactive constraint has nothing to take back.
LEMMA TakenBackOfInactive ==
    ASSUME IInv, GainsInv, HasFrame, dl > 0, UndoFrame,
           NEW v \in Vars, NEW c \in Cons, RemovableAt(c, Top.level)
    PROVE  /\ TakenBack(c, v, Top.undoLower, lower, ldiff) = 0
           /\ TakenBack(c, v, Top.undoUpper, upper, udiff) = 0
<1> DEFINE n == Len(levels)
<1>1. CASE c \in watches[v]
  <2>1. n \in 2..n /\ RemovableAt(c, levels[n].level)
    BY UndoBounds DEF Top
  <2>2. HeldAt(n, v, c)
    BY <1>1 DEF HeldAt
  <2>3. GainedLower(v, n) = 0 /\ GainedUpper(v, n) = 0
    BY <2>1, <2>2 DEF GainsInv
  <2>4. lower[v] - lower'[v] - ldiff[v] = 0 /\ upper[v] - upper'[v] - udiff[v] = 0
    BY <2>3, UndoGained
  <2>5. Coef[c][v] * 0 = 0
    <3>1. Coef[c][v] \in Int
      BY CoefAssumption
    <3> QED BY <3>1
  <2> QED BY <2>4, <2>5 DEF TakenBack
<1>2. CASE c \notin watches[v]
  BY <1>2 DEF TakenBack
<1> QED BY <1>1, <1>2

\* The bounds the constraint was told, before and after the step.
LEMMA UndoTold ==
    ASSUME IInv, MarksInv, HasFrame, dl > 0, UndoFrame, NEW v \in Vars, NEW c \in Cons
    PROVE  /\ RemovableAt(c, Top.level) =>
                 /\ Told(c, lowerStack[v], lower[v], ldiff[v])' = Told(c, lowerStack[v], lower[v], ldiff[v])
                 /\ Told(c, upperStack[v], upper[v], udiff[v])' = Told(c, upperStack[v], upper[v], udiff[v])
           /\ ~RemovableAt(c, Top.level) =>
                 /\ Told(c, lowerStack[v], lower[v], ldiff[v])' = lower'[v]
                 /\ Told(c, upperStack[v], upper[v], udiff[v])' = upper'[v]
<1>1. /\ Top.level = dl /\ dl \in Nat /\ Top'.level \in Nat /\ Top'.level <= dl - 1
      /\ lower'[v] \in Int /\ upper'[v] \in Int /\ ldiff'[v] = 0 /\ udiff'[v] = 0
  BY UndoBounds
<1>2. /\ c \in Top.inactive => inactiveLevel'[c] = 0 /\ inactiveLevel[c] = dl + 1
      /\ c \notin Top.inactive => inactiveLevel'[c] = inactiveLevel[c]
      /\ inactiveLevel[c] \in Nat
  BY UndoMarks
<1>3. lower'[v] - ldiff'[v] = lower'[v] /\ upper'[v] - udiff'[v] = upper'[v]
  BY <1>1
<1>4. CASE RemovableAt(c, Top.level)
  <2> DEFINE l == inactiveLevel[c] - 1
  <2>1. inactiveLevel[c] > 0 /\ inactiveLevel[c] <= dl
    BY <1>1, <1>4 DEF RemovableAt, Marked
  <2>2. inactiveLevel'[c] = inactiveLevel[c]
    BY <1>1, <1>2, <2>1
  <2>3. l \in 0..(dl - 1) /\ l \in Nat
    BY <1>1, <1>2, <2>1
  <2>4. /\ At(lowerStack'[v], lower'[v], l) = At(lowerStack[v], lower[v], l)
        /\ At(upperStack'[v], upper'[v], l) = At(upperStack[v], upper[v], l)
    BY <2>3, UndoBounds
  <2>5. CASE RemovableAt(c, Top.level)'
    <3> HIDE DEF l
    <3>1. /\ Told(c, lowerStack[v], lower[v], ldiff[v])' = At(lowerStack'[v], lower'[v], l)
          /\ Told(c, upperStack[v], upper[v], udiff[v])' = At(upperStack'[v], upper'[v], l)
      BY <2>2, <2>5 DEF Told, l
    <3> QED BY <1>4, <2>4, <3>1 DEF Told, l
  <2>6. CASE ~RemovableAt(c, Top.level)'
    <3>1. ~(inactiveLevel[c] <= Top'.level)
      BY <2>1, <2>2, <2>6 DEF RemovableAt, Marked
    <3>2. l >= Top'.level
      BY <1>1, <1>2, <3>1
    <3>3. At(lowerStack'[v], lower'[v], l) = lower'[v] /\ At(upperStack'[v], upper'[v], l) = upper'[v]
      BY <2>3, <3>2, UndoBounds
    <3> HIDE DEF l
    <3>4. /\ Told(c, lowerStack[v], lower[v], ldiff[v])' = lower'[v]
          /\ Told(c, upperStack[v], upper[v], udiff[v])' = upper'[v]
      BY <1>3, <2>6 DEF Told
    <3> QED BY <1>4, <2>4, <3>3, <3>4 DEF Told, l
  <2> QED BY <1>4, <2>5, <2>6
<1>5. CASE ~RemovableAt(c, Top.level)
  <2>1. ~RemovableAt(c, Top.level)'
    <3>1. CASE inactiveLevel'[c] = 0
      BY <3>1 DEF RemovableAt, Marked
    <3>2. CASE inactiveLevel'[c] = inactiveLevel[c]
      <4>1. ~Marked(c) \/ ~(inactiveLevel[c] <= dl)
        BY <1>1, <1>5 DEF RemovableAt
      <4>2. ~(inactiveLevel[c] <= dl) => ~(inactiveLevel[c] <= Top'.level)
        BY <1>1, <1>2
      <4> QED BY <3>2, <4>1, <4>2 DEF RemovableAt, Marked
    <3> QED BY <1>2, <3>1, <3>2
  <2> QED BY <1>3, <1>5, <2>1 DEF Told
<1> QED BY <1>4, <1>5

\* Undo takes back from each constraint exactly what it was told.
LEMMA UndoSumsMove ==
    ASSUME SInv, HasFrame, dl > 0, UndoFrame
    PROVE  SumsInv'
<1>0. IInv /\ MarksInv /\ WatchesInv /\ GainsInv
  BY DEF SInv
<1>1. ASSUME NEW c \in Cons
      PROVE  /\ csLower'[c] = LowerSum(c, ToldLower(c)', ToldUpper(c)')
             /\ csUpper'[c] = UpperSum(c, ToldLower(c)', ToldUpper(c)')
  <2> DEFINE f == [v \in Vars |-> Positive(TakenBack(c, v, Top.undoLower, lower, ldiff))
                                + Positive(TakenBack(c, v, Top.undoUpper, upper, udiff))]
             g == [v \in Vars |-> NonPositive(TakenBack(c, v, Top.undoLower, lower, ldiff))
                                + NonPositive(TakenBack(c, v, Top.undoUpper, upper, udiff))]
             lo == ToldLower(c)
             up == ToldUpper(c)
             lo2 == ToldLower(c)'
             up2 == ToldUpper(c)'
  <2>1. /\ csLower'[c] = csLower[c] - Sum(NumVars, f)
        /\ csUpper'[c] = csUpper[c] - Sum(NumVars, g)
    BY DEF UndoFrame
  <2>2. csLower[c] = LowerSum(c, lo, up) /\ csUpper[c] = UpperSum(c, lo, up)
    BY DEF SInv, SumsInv
  <2>3. lo \in [Vars -> Int] /\ up \in [Vars -> Int]
    BY <1>0, ToldTyped
  <2>4. \A x \in Int : Positive(x) \in Int /\ NonPositive(x) \in Int /\ NonPositive(x) = Negative(x)
    BY DEF Positive, Negative, NonPositive
  <2>5. ASSUME NEW v \in Vars
        PROVE  /\ lo2[v] \in Int /\ up2[v] \in Int /\ f[v] \in Int /\ g[v] \in Int
               /\ Moves(Coef[c][v], lo2[v], up2[v], lo[v], up[v], f[v], g[v])
    <3> DEFINE co == Coef[c][v]
               tl == TakenBack(c, v, Top.undoLower, lower, ldiff)
               tu == TakenBack(c, v, Top.undoUpper, upper, udiff)
    <3>1. co \in Int /\ lo[v] \in Int /\ up[v] \in Int
      BY <2>3, CoefAssumption
    <3>2. f[v] = Positive(tl) + Positive(tu) /\ g[v] = NonPositive(tl) + NonPositive(tu)
      OBVIOUS
    <3>3. CASE RemovableAt(c, Top.level)
      <4>1. lo2[v] = lo[v] /\ up2[v] = up[v]
        BY <1>0, <3>3, UndoTold DEF ToldLower, ToldUpper
      <4>2. tl = 0 /\ tu = 0
        BY <1>0, <3>3, TakenBackOfInactive
      <4> HIDE DEF tl, tu, f, g, lo, up, lo2, up2, co
      <4>3. f[v] = 0 /\ g[v] = 0
        BY <3>2, <4>2 DEF Positive, NonPositive
      <4>4. \A x \in Int : co * x \in Int /\ co * x + 0 = co * x
        BY <3>1
      <4>5. /\ co * (IF co > 0 THEN lo[v] ELSE up[v]) + 0 = co * (IF co > 0 THEN lo[v] ELSE up[v])
            /\ co * (IF co > 0 THEN up[v] ELSE lo[v]) + 0 = co * (IF co > 0 THEN up[v] ELSE lo[v])
        BY <3>1, <4>4
      <4>6. Moves(co, lo2[v], up2[v], lo[v], up[v], f[v], g[v])
        BY <4>1, <4>3, <4>5 DEF Moves
      <4> QED BY <3>1, <4>1, <4>3, <4>6 DEF co
    <3>4. CASE ~RemovableAt(c, Top.level)
      <4> DEFINE a == GainedLower(v, Len(levels))
                 b == GainedUpper(v, Len(levels))
      <4>1. Len(levels) \in 2..Len(levels)
        BY <1>0, UndoBounds
      <4>2. a \in Int /\ b \in Int /\ a >= 0 /\ b <= 0
        BY <1>0, <4>1, GainedTyped DEF GainsInv
      <4>3. /\ lower[v] \in Int /\ upper[v] \in Int /\ ldiff[v] \in Int /\ udiff[v] \in Int
            /\ lower'[v] \in Int /\ upper'[v] \in Int
        BY <1>0, UndoBounds DEF IInv, TypeOK
      <4>4. a = lower[v] - lower'[v] - ldiff[v] /\ b = upper[v] - upper'[v] - udiff[v]
        BY <1>0, UndoGained
      <4>5. lo[v] = lower[v] - ldiff[v] /\ up[v] = upper[v] - udiff[v]
        BY <3>4 DEF ToldLower, ToldUpper, Told
      <4>6. lo2[v] = lower'[v] /\ up2[v] = upper'[v]
        BY <1>0, <3>4, UndoTold DEF ToldLower, ToldUpper
      <4>7. tl = co * a /\ tu = co * b
        BY <1>0, <3>4, TakenBackOfActive
      <4> HIDE DEF tl, tu, f, g, lo, up, lo2, up2, co, a, b
      <4>8. lo[v] = lo2[v] + a /\ up[v] = up2[v] + b /\ lo2[v] \in Int /\ up2[v] \in Int
        <5>1. \A x, y, d \in Int : x - d = y + (x - y - d)
          OBVIOUS
        <5> QED BY <4>3, <4>4, <4>5, <4>6, <5>1
      <4>9. Moves(co, lo2[v], up2[v], lo2[v] + a, up2[v] + b, Positive(co * a) + Positive(co * b),
                                                              Negative(co * a) + Negative(co * b))
        BY <3>1, <4>2, <4>8, ChangesSplit
      <4>10. tl \in Int /\ tu \in Int
        <5>1. \A x, y \in Int : x * y \in Int
          OBVIOUS
        <5> QED BY <3>1, <4>2, <4>7, <5>1
      <4>11. f[v] = Positive(tl) + Positive(tu) /\ g[v] = Negative(tl) + Negative(tu)
        BY <2>4, <3>2, <4>10
      <4>12. Moves(co, lo2[v], up2[v], lo[v], up[v], f[v], g[v])
        BY <4>7, <4>8, <4>9, <4>11
      <4>13. f[v] \in Int /\ g[v] \in Int
        BY <2>4, <3>2, <4>10
      <4> QED BY <4>8, <4>12, <4>13 DEF co
    <3> QED BY <3>3, <3>4
  <2>6. /\ lo2 \in [Vars -> Int] /\ up2 \in [Vars -> Int]
        /\ f \in [Vars -> Int] /\ g \in [Vars -> Int]
    <3>1. \A v \in Vars : lo2[v] \in Int /\ up2[v] \in Int /\ f[v] \in Int /\ g[v] \in Int
      BY <2>5
    <3>2. /\ lo2 = [v \in Vars |-> lo2[v]] /\ up2 = [v \in Vars |-> up2[v]]
          /\ f = [v \in Vars |-> f[v]] /\ g = [v \in Vars |-> g[v]]
      BY DEF ToldLower, ToldUpper
    <3> HIDE DEF lo2, up2, f, g
    <3> QED BY <3>1, <3>2
  <2> HIDE DEF f, g, lo, up, lo2, up2
  <2>7. /\ LowerSum(c, lo, up) = LowerSum(c, lo2, up2) + Sum(NumVars, f)
        /\ UpperSum(c, lo, up) = UpperSum(c, lo2, up2) + Sum(NumVars, g)
    <3>1. PartsMove(c, lo2, up2, lo, up, f, g)
      BY <2>5 DEF PartsMove
    <3> QED BY <2>3, <2>6, <3>1, SumsMove
  <2>8. /\ LowerSum(c, lo2, up2) \in Int /\ UpperSum(c, lo2, up2) \in Int
        /\ Sum(NumVars, f) \in Int /\ Sum(NumVars, g) \in Int
    BY <2>6, SumsTyped, SumOfVars
  <2>9. csLower'[c] = LowerSum(c, lo2, up2) /\ csUpper'[c] = UpperSum(c, lo2, up2)
    <3>1. \A x, y \in Int : (x + y) - y = x
      OBVIOUS
    <3> QED BY <2>1, <2>2, <2>7, <2>8, <3>1
  <2> QED BY <2>9 DEF lo2, up2
<1> QED BY <1>1 DEF SumsInv

\* Undo, with and without a frame of the level.
LEMMA UndoSums ==
    ASSUME SInv, Undo
    PROVE  MarksInv' /\ WatchesInv' /\ GainsInv' /\ SumsInv'
<1>1. CASE HasFrame
  BY <1>1, UndoKeepsInv, UndoSumsMove DEF Undo
<1>2. CASE ~HasFrame
  <2>1. UNCHANGED <<boundVars, levels, diffVars, sumVars, inactiveLevel>>
    BY <1>2 DEF Undo
  <2> QED BY <2>1, KeepSums
<1> QED BY <1>1, <1>2

\* The sums the constraints keep are those of the bounds they were told.
THEOREM SumsInvariance == Spec => []SInv
<1>1. Init => SInv
  BY InitSums
<1>2. SInv /\ IInv' /\ [Next]_vars => SInv'
  <2> SUFFICES ASSUME SInv, IInv', [Next]_vars
               PROVE  MarksInv' /\ WatchesInv' /\ GainsInv' /\ SumsInv'
    BY DEF SInv
  <2>1. CASE \E l \in queue : PropagateLiteral(l)
    BY <2>1, PropagateSums
  <2>2. CASE \E c \in Cons : PropagateCons(c)
    BY <2>2, PropagateConsSums
  <2>3. CASE CheckStart
    BY <2>3, CheckStartSums
  <2>4. CASE \E c \in Cons : CheckItem(c)
    BY <2>4, CheckItemSums
  <2>5. CASE Undo
    BY <2>5, UndoSums
  <2>6. CASE UNCHANGED <<boundVars, levels, diffVars, sumVars, inactiveLevel>>
    BY <2>6, KeepSums
  <2>7. CASE Decide \/ UnitPropagate \/ OtherThread \/ CheckEnd \/ OnModel \/ UNCHANGED vars
    BY <2>6, <2>7 DEF Decide, UnitPropagate, OtherThread, CheckEnd, OnModel, vars
  <2> QED BY <2>1, <2>2, <2>3, <2>4, <2>5, <2>7 DEF Next
<1> QED BY <1>1, <1>2, Invariance, PTL DEF Spec

\* What check_state_ checks holds in every state, not only where it is called.
THEOREM SumsAreOfBounds == Spec => []SumsMatchBounds
<1>1. SInv => SumsMatchBounds
  <2> SUFFICES ASSUME SInv
               PROVE  SumsMatchBounds
    OBVIOUS
  <2> DEFINE lo == [v \in Vars |-> lower[v] - ldiff[v]]
             up == [v \in Vars |-> upper[v] - udiff[v]]
  <2>1. ASSUME NEW c \in Cons, ~Marked(c)
        PROVE  csLower[c] = LowerSum(c, lo, up) /\ csUpper[c] = UpperSum(c, lo, up)
    <3>1. ToldLower(c) = lo /\ ToldUpper(c) = up
      BY <2>1 DEF ToldLower, ToldUpper, Told, RemovableAt
    <3> QED BY <3>1 DEF SInv, SumsInv
  <2> QED BY <2>1 DEF SumsMatchBounds
<1> QED BY <1>1, SumsInvariance, PTL

-----------------------------------------------------------------------------
(* Bounds of the levels and the sums over them.                            *)

\* The bounds lo2 and up2 leave values, all of which lo and up leave too.
Narrows(lo, up, lo2, up2) ==
    \A v \in Vars : lo[v] <= lo2[v] /\ lo2[v] <= up2[v] /\ up2[v] <= up[v]

\* Bounds get tighter from level to level.
BoundsInv ==
    \A k, l \in 0..dl : k <= l => Narrows(LowerAt(k), UpperAt(k), LowerAt(l), UpperAt(l))

\* Multiplying keeps or turns an inequality.
LEMMA ProductOrder ==
    ASSUME NEW co \in Int, NEW x \in Int, NEW y \in Int, x <= y
    PROVE  /\ co > 0 => co * x <= co * y
           /\ ~(co > 0) => co * y <= co * x
<1>1. co * (y - x) = co * y - co * x /\ co * x \in Int /\ co * y \in Int
  OBVIOUS
<1>2. \A p, q \in Nat : p * q >= 0 /\ (-p) * q <= 0
  <2>1. \A p, q \in Nat : p * q \in Nat /\ (-p) * q = -(p * q)
    OBVIOUS
  <2> QED BY <2>1
<1>3. y - x \in Nat
  OBVIOUS
<1>4. co > 0 => co * (y - x) >= 0
  BY <1>2, <1>3
<1>5. ~(co > 0) => co * (y - x) <= 0
  <2>1. ~(co > 0) => -co \in Nat /\ co = -(-co)
    OBVIOUS
  <2> QED BY <1>2, <1>3, <2>1
<1> DEFINE A == co * x
           B == co * y
<1>6. A \in Int /\ B \in Int /\ co * (y - x) = B - A
  BY <1>1
<1> HIDE DEF A, B
<1>7. (co > 0 => A <= B) /\ (~(co > 0) => B <= A)
  BY <1>4, <1>5, <1>6
<1> QED BY <1>7 DEF A, B

\* Sums over tighter bounds are closer together.
LEMMA NarrowSums ==
    ASSUME NEW c \in Cons,
           NEW lo \in [Vars -> Int], NEW up \in [Vars -> Int],
           NEW lo2 \in [Vars -> Int], NEW up2 \in [Vars -> Int],
           Narrows(lo, up, lo2, up2)
    PROVE  /\ LowerSum(c, lo, up) <= LowerSum(c, lo2, up2)
           /\ LowerSum(c, lo2, up2) <= UpperSum(c, lo2, up2)
           /\ UpperSum(c, lo2, up2) <= UpperSum(c, lo, up)
<1> DEFINE l1 == [v \in Vars |-> Coef[c][v] * (IF Coef[c][v] > 0 THEN lo[v] ELSE up[v])]
           l2 == [v \in Vars |-> Coef[c][v] * (IF Coef[c][v] > 0 THEN lo2[v] ELSE up2[v])]
           u1 == [v \in Vars |-> Coef[c][v] * (IF Coef[c][v] > 0 THEN up[v] ELSE lo[v])]
           u2 == [v \in Vars |-> Coef[c][v] * (IF Coef[c][v] > 0 THEN up2[v] ELSE lo2[v])]
<1>1. \A x, y \in Int : x * y \in Int
  OBVIOUS
<1>2. \A v \in Vars : Coef[c][v] \in Int
  BY CoefAssumption
<1>3. /\ l1 \in [Vars -> Int] /\ l2 \in [Vars -> Int]
      /\ u1 \in [Vars -> Int] /\ u2 \in [Vars -> Int]
  BY <1>1, <1>2
<1>4. ASSUME NEW v \in Vars
      PROVE  l1[v] <= l2[v] /\ l2[v] <= u2[v] /\ u2[v] <= u1[v]
  <2>1. /\ Coef[c][v] \in Int
        /\ lo[v] \in Int /\ up[v] \in Int /\ lo2[v] \in Int /\ up2[v] \in Int
        /\ lo[v] <= lo2[v] /\ lo2[v] <= up2[v] /\ up2[v] <= up[v]
    BY <1>2 DEF Narrows
  <2>2. CASE Coef[c][v] > 0
    <3>1. /\ Coef[c][v] * lo[v] <= Coef[c][v] * lo2[v]
          /\ Coef[c][v] * lo2[v] <= Coef[c][v] * up2[v]
          /\ Coef[c][v] * up2[v] <= Coef[c][v] * up[v]
      BY <2>1, <2>2, ProductOrder
    <3> QED BY <2>2, <3>1
  <2>3. CASE ~(Coef[c][v] > 0)
    <3>1. /\ Coef[c][v] * lo2[v] <= Coef[c][v] * lo[v]
          /\ Coef[c][v] * up2[v] <= Coef[c][v] * lo2[v]
          /\ Coef[c][v] * up[v] <= Coef[c][v] * up2[v]
      BY <2>1, <2>3, ProductOrder
    <3> QED BY <2>3, <3>1
  <2> QED BY <2>2, <2>3
<1>5. LowerSum(c, lo2, up2) = Sum(NumVars, l2) /\ LowerSum(c, lo, up) = Sum(NumVars, l1)
  BY DEF LowerSum
<1>6. UpperSum(c, lo2, up2) = Sum(NumVars, u2) /\ UpperSum(c, lo, up) = Sum(NumVars, u1)
  BY DEF UpperSum
<1> HIDE DEF l1, l2, u1, u2
<1>7. Sum(NumVars, l1) <= Sum(NumVars, l2)
  BY <1>3, <1>4, SumMonotone, NumVarsAssumption DEF Vars
<1>8. Sum(NumVars, l2) <= Sum(NumVars, u2)
  BY <1>3, <1>4, SumMonotone, NumVarsAssumption DEF Vars
<1>9. Sum(NumVars, u2) <= Sum(NumVars, u1)
  BY <1>3, <1>4, SumMonotone, NumVarsAssumption DEF Vars
<1> QED BY <1>5, <1>6, <1>7, <1>8, <1>9

\* The bounds of a level are numbers.
LEMMA LevelTyped ==
    ASSUME IInv, NEW l \in Nat
    PROVE  LowerAt(l) \in [Vars -> Int] /\ UpperAt(l) \in [Vars -> Int]
<1>1. ASSUME NEW v \in Vars
      PROVE  /\ BoundAt(lowerStack, lower, v, l) \in Int
             /\ BoundAt(upperStack, upper, v, l) \in Int
  <2>1. /\ lowerStack[v] \in Seq(Entries) /\ upperStack[v] \in Seq(Entries)
        /\ lower[v] \in Int /\ upper[v] \in Int
    BY DEF IInv, TypeOK
  <2> QED BY <2>1, AtTyped, BoundOfStack
<1> QED BY <1>1 DEF LowerAt, UpperAt

\* The current bounds leave values within those of all levels.
LEMMA CurrentNarrows ==
    ASSUME IInv, BoundsInv, NEW l \in 0..dl
    PROVE  /\ Narrows(LowerAt(l), UpperAt(l), lower, upper)
           /\ lower \in [Vars -> Int] /\ upper \in [Vars -> Int] /\ dl \in Nat
<1>1. dl \in Nat /\ dl \in 0..dl /\ l <= dl /\ lower \in [Vars -> Int] /\ upper \in [Vars -> Int]
  BY DEF IInv, TypeOK
<1>2. LowerAt(dl) = lower /\ UpperAt(dl) = upper
  BY <1>1, BoundsOnTop
<1> QED BY <1>1, <1>2 DEF BoundsInv

\* The same after a step.
LEMMA CurrentAfter ==
    ASSUME IInv', NEW l \in Nat, l >= dl'
    PROVE  LowerAt(l)' = lower' /\ UpperAt(l)' = upper'
<1>1. /\ TypeOK' /\ StacksOK(levels, lowerStack, upperStack)' /\ Top'.level <= dl'
  BY DEF IInv
<1>2. /\ levels' \in Seq(Frames) /\ LevelsOK(levels') /\ dl' \in Nat
      /\ lower' \in [Vars -> Int] /\ upper' \in [Vars -> Int]
  BY <1>1 DEF TypeOK, StacksOK
<1>3. levels'[Len(levels')].level \in Nat /\ levels'[Len(levels')].level <= dl'
  <2>1. Len(levels') \in 1..Len(levels')
    BY <1>2 DEF LevelsOK
  <2> QED BY <1>1, <1>2, <2>1, FrameLevel DEF Top
<1>4. l >= levels'[Len(levels')].level
  BY <1>2, <1>3
<1>5. ASSUME NEW v \in Vars
      PROVE  /\ At(lowerStack'[v], lower'[v], l) = lower'[v]
             /\ At(upperStack'[v], upper'[v], l) = upper'[v]
  <2>1. /\ lowerStack'[v] \in Seq(Entries) /\ upperStack'[v] \in Seq(Entries)
        /\ StackOK(lowerStack'[v], levels', LowerFrames(levels', v))
        /\ StackOK(upperStack'[v], levels', UpperFrames(levels', v))
    BY <1>1 DEF TypeOK, StacksOK
  <2> QED BY <1>2, <1>4, <2>1, AtFrames
<1>6. \A v \in Vars : /\ BoundAt(lowerStack', lower', v, l) = lower'[v]
                      /\ BoundAt(upperStack', upper', v, l) = upper'[v]
  BY <1>5, BoundOfStack
<1> QED BY <1>2, <1>6 DEF LowerAt, UpperAt

\* The bounds of a level are numbers after a step.
LEMMA LevelTypedAfter ==
    ASSUME IInv', NEW l \in Nat
    PROVE  LowerAt(l)' \in [Vars -> Int] /\ UpperAt(l)' \in [Vars -> Int]
<1>1. ASSUME NEW v \in Vars
      PROVE  /\ BoundAt(lowerStack', lower', v, l) \in Int
             /\ BoundAt(upperStack', upper', v, l) \in Int
  <2>1. /\ lowerStack'[v] \in Seq(Entries) /\ upperStack'[v] \in Seq(Entries)
        /\ lower'[v] \in Int /\ upper'[v] \in Int
    <3>1. TypeOK'
      BY DEF IInv
    <3> QED BY <3>1 DEF TypeOK
  <2> QED BY <2>1, AtTyped, BoundOfStack
<1> QED BY <1>1 DEF LowerAt, UpperAt

\* What a step does to the bounds of the levels.
KeptAt(l) == LowerAt(l)' = LowerAt(l) /\ UpperAt(l)' = UpperAt(l)

\* The bounds of a step: those of the levels below are kept.
BoundsStep ==
    /\ dl' \in Nat
    /\ \/ dl' = dl /\ Narrows(lower, upper, lower', upper')
       \/ dl' = dl + 1 /\ UNCHANGED boundVars
       \/ dl' = dl - 1
    /\ \A l \in 0..(dl - 1) : KeptAt(l)

\* Reading the bounds of a level off Bounds.
LEMMA KeptBelow ==
    ASSUME dl \in Nat, dl' \in Nat, NEW l \in 0..dl, l \in 0..dl', Bounds'[l] = Bounds[l]
    PROVE  KeptAt(l)
<1>1. Bounds[l] = [lo |-> LowerAt(l), up |-> UpperAt(l)]
  BY DEF Bounds
<1>2. Bounds'[l] = [lo |-> LowerAt(l)', up |-> UpperAt(l)']
  BY DEF Bounds
<1>3. /\ [lo |-> LowerAt(l), up |-> UpperAt(l)].lo = LowerAt(l)
      /\ [lo |-> LowerAt(l), up |-> UpperAt(l)].up = UpperAt(l)
      /\ [lo |-> LowerAt(l)', up |-> UpperAt(l)'].lo = LowerAt(l)'
      /\ [lo |-> LowerAt(l)', up |-> UpperAt(l)'].up = UpperAt(l)'
  OBVIOUS
<1> QED BY <1>1, <1>2, <1>3 DEF KeptAt

\* What tightening means for Bounds.
LEMMA TightenMeans ==
    ASSUME dl \in Nat, NEW v \in Vars, Trail!Tighten(v)
    PROVE  \E lo \in Bounds[dl].lo[v]..Bounds[dl].up[v], up \in Bounds[dl].lo[v]..Bounds[dl].up[v] :
               lo <= up /\ Bounds' = [Bounds EXCEPT ![dl].lo[v] = lo, ![dl].up[v] = up]
<1>1. \E lo \in Bounds[Trail!Depth].lo[v]..Bounds[Trail!Depth].up[v],
         up \in Bounds[Trail!Depth].lo[v]..Bounds[Trail!Depth].up[v] :
         /\ lo <= up
         /\ Bounds' = [Bounds EXCEPT ![Trail!Depth].lo[v] = lo, ![Trail!Depth].up[v] = up]
  BY Zenon DEF Trail!Tighten, Bounds, LowerAt, UpperAt
<1>2. Trail!Depth = dl
  BY DepthIsLevel
<1>3. PICK lo \in Bounds[Trail!Depth].lo[v]..Bounds[Trail!Depth].up[v],
           up \in Bounds[Trail!Depth].lo[v]..Bounds[Trail!Depth].up[v] :
             /\ lo <= up
             /\ Bounds' = [Bounds EXCEPT ![Trail!Depth].lo[v] = lo, ![Trail!Depth].up[v] = up]
  BY <1>1, Zenon
<1>4. lo \in Bounds[dl].lo[v]..Bounds[dl].up[v] /\ up \in Bounds[dl].lo[v]..Bounds[dl].up[v] /\ lo <= up
  BY <1>2, <1>3
<1>5. Bounds' = [Bounds EXCEPT ![dl].lo[v] = lo, ![dl].up[v] = up]
  BY <1>2, <1>3
<1> QED BY <1>4, <1>5

\* Steps of the solver do this, as they implement a trail.
LEMMA StepsOfBounds ==
    ASSUME IInv, IInv', BoundsInv, [Next]_vars
    PROVE  BoundsStep
<1>0. TypeOK /\ TypeOK'
  BY DEF IInv
<1>1. /\ dl \in Nat /\ dl' \in Nat /\ dl \in 0..dl
      /\ lower \in [Vars -> Int] /\ upper \in [Vars -> Int]
      /\ lower' \in [Vars -> Int] /\ upper' \in [Vars -> Int]
  BY <1>0 DEF TypeOK
<1>2. Narrows(lower, upper, lower, upper)
  <2>1. LowerAt(dl) = lower /\ UpperAt(dl) = upper
    BY <1>1, BoundsOnTop
  <2> QED BY <1>1, <2>1, CurrentNarrows
<1>3. CASE Decide
  <2>1. dl' = dl + 1 /\ UNCHANGED boundVars
    BY <1>3 DEF Decide
  <2>2. \A l \in 0..(dl - 1) : KeptAt(l)
    BY <2>1 DEF KeptAt, LowerAt, UpperAt, boundVars
  <2> QED BY <1>1, <2>1, <2>2 DEF BoundsStep
<1>4. CASE Undo
  <2>1. dl' = dl - 1 /\ dl > 0
    BY <1>4 DEF Undo
  <2>2. Bounds' = [l \in 0..(dl - 1) |-> Bounds[l]]
    <3>1. Trail!Backtrack /\ Trail!Depth = dl
      BY <1>1, <1>4, UndoTrail, DepthIsLevel
    <3> QED BY <3>1 DEF Trail!Backtrack, Bounds, LowerAt, UpperAt
  <2>3. ASSUME NEW l \in 0..(dl - 1)
        PROVE  KeptAt(l)
    <3>1. l \in 0..dl /\ l \in 0..dl'
      BY <1>1, <2>1
    <3>2. Bounds'[l] = Bounds[l]
      BY <2>2
    <3> QED BY <1>1, <3>1, <3>2, KeptBelow
  <2> QED BY <1>1, <2>1, <2>3 DEF BoundsStep
<1>5. CASE UNCHANGED <<boundVars, dl>>
  <2>1. \A l \in 0..(dl - 1) : KeptAt(l)
    BY <1>5 DEF KeptAt, LowerAt, UpperAt, boundVars
  <2>2. lower' = lower /\ upper' = upper /\ dl' = dl
    BY <1>5 DEF boundVars
  <2> QED BY <1>1, <1>2, <2>1, <2>2 DEF BoundsStep
<1>6. CASE \E l \in queue : PropagateLiteral(l)
  <2>1. dl' = dl
    BY <1>6 DEF PropagateLiteral
  <2>2. \/ Bounds' = Bounds
        \/ \E v \in Vars, x, y \in Int : /\ lower[v] <= x /\ x <= y /\ y <= upper[v]
                                         /\ Bounds' = [Bounds EXCEPT ![dl].lo[v] = x, ![dl].up[v] = y]
    <3>1. SUFFICES ASSUME NEW v \in Vars, Trail!Tighten(v)
                   PROVE  \E x, y \in Int : /\ lower[v] <= x /\ x <= y /\ y <= upper[v]
                                            /\ Bounds' = [Bounds EXCEPT ![dl].lo[v] = x, ![dl].up[v] = y]
      BY <1>6, PropagateTrail
    <3>4. Bounds[dl].lo = lower /\ Bounds[dl].up = upper
      <4>1. LowerAt(dl) = lower /\ UpperAt(dl) = upper
        BY <1>1, BoundsOnTop
      <4> QED BY <1>1, <4>1 DEF Bounds
    <3>5. lower[v] \in Int /\ upper[v] \in Int
      BY <1>1
    <3>6. PICK x \in Bounds[dl].lo[v]..Bounds[dl].up[v], y \in Bounds[dl].lo[v]..Bounds[dl].up[v] :
             x <= y /\ Bounds' = [Bounds EXCEPT ![dl].lo[v] = x, ![dl].up[v] = y]
      BY <1>1, <3>1, TightenMeans
    <3>7. x \in lower[v]..upper[v] /\ y \in lower[v]..upper[v]
      BY <3>4
    <3>8. x \in Int /\ y \in Int /\ lower[v] <= x /\ y <= upper[v]
      BY <3>5, <3>7
    <3> QED BY <3>6, <3>8
  <2>3. \A l \in 0..(dl - 1) : KeptAt(l)
    <3>1. ASSUME NEW l \in 0..(dl - 1)
          PROVE  Bounds'[l] = Bounds[l]
      <4>1. l # dl /\ l \in 0..dl
        BY <1>1
      <4> HIDE DEF Bounds
      <4>2. \A b : [Bounds EXCEPT ![dl] = b][l] = Bounds[l]
        BY <4>1 DEF Bounds
      <4> QED BY <2>2, <4>1, <4>2
    <3>2. \A l \in 0..(dl - 1) : l \in 0..dl /\ l \in 0..dl'
      BY <1>1, <2>1
    <3> QED BY <1>1, <3>1, <3>2, KeptBelow
  <2>4. Narrows(lower, upper, lower', upper')
    <3>1. Bounds'[dl] = [lo |-> lower', up |-> upper'] /\ Bounds[dl] = [lo |-> lower, up |-> upper]
      <4>1. LowerAt(dl)' = lower' /\ UpperAt(dl)' = upper'
        BY <1>1, <2>1, CurrentAfter
      <4>2. LowerAt(dl) = lower /\ UpperAt(dl) = upper
        BY <1>1, BoundsOnTop
      <4> QED BY <1>1, <2>1, <4>1, <4>2 DEF Bounds
    <3>2. CASE Bounds' = Bounds
      <4>1. [lo |-> lower', up |-> upper'].lo = lower' /\ [lo |-> lower', up |-> upper'].up = upper'
        OBVIOUS
      <4>2. [lo |-> lower, up |-> upper].lo = lower /\ [lo |-> lower, up |-> upper].up = upper
        OBVIOUS
      <4> QED BY <1>2, <3>1, <3>2, <4>1, <4>2
    <3>3. ASSUME NEW v \in Vars, NEW x \in Int, NEW y \in Int,
                 lower[v] <= x, x <= y, y <= upper[v],
                 Bounds' = [Bounds EXCEPT ![dl].lo[v] = x, ![dl].up[v] = y]
          PROVE  Narrows(lower, upper, lower', upper')
      <4>1. dl \in DOMAIN Bounds
        BY <1>1 DEF Bounds
      <4> HIDE DEF Bounds
      <4>2. Bounds'[dl] = [Bounds[dl] EXCEPT !.lo[v] = x, !.up[v] = y]
        BY <3>3, <4>1
      <4>3. /\ [[lo |-> lower, up |-> upper] EXCEPT !.lo[v] = x, !.up[v] = y].lo = [lower EXCEPT ![v] = x]
            /\ [[lo |-> lower, up |-> upper] EXCEPT !.lo[v] = x, !.up[v] = y].up = [upper EXCEPT ![v] = y]
            /\ [lo |-> lower', up |-> upper'].lo = lower' /\ [lo |-> lower', up |-> upper'].up = upper'
        OBVIOUS
      <4>4. lower' = [lower EXCEPT ![v] = x] /\ upper' = [upper EXCEPT ![v] = y]
        BY <3>1, <4>2, <4>3
      <4> QED BY <1>1, <1>2, <3>3, <4>4 DEF Narrows
    <3> QED BY <2>2, <3>2, <3>3
  <2> QED BY <1>1, <2>1, <2>3, <2>4 DEF BoundsStep
<1>7. UNCHANGED <<boundVars, dl>> \/ Decide \/ Undo \/ \E l \in queue : PropagateLiteral(l)
  BY DEF Next, UnitPropagate, OtherThread, PropagateCons, CheckStart, CheckItem, CheckEnd, OnModel, vars
<1> QED BY <1>3, <1>4, <1>5, <1>6, <1>7

\* The bounds of a level that is left stay or get tighter.
LEMMA LevelNarrows ==
    ASSUME IInv, IInv', BoundsInv, BoundsStep, NEW l \in 0..dl, l <= dl'
    PROVE  Narrows(LowerAt(l), UpperAt(l), LowerAt(l)', UpperAt(l)')
<1>0. TypeOK /\ TypeOK'
  BY DEF IInv
<1>1. dl \in Nat /\ dl' \in Nat /\ l \in Nat /\ dl \in 0..dl
  BY <1>0 DEF TypeOK
<1>2. Narrows(LowerAt(l), UpperAt(l), LowerAt(l), UpperAt(l))
  BY <1>1 DEF BoundsInv
<1>3. CASE l < dl
  <2>1. l \in 0..(dl - 1)
    BY <1>1, <1>3
  <2> QED BY <1>2, <2>1 DEF BoundsStep, KeptAt
<1>4. CASE l = dl /\ dl' = dl /\ Narrows(lower, upper, lower', upper')
  <2>1. LowerAt(dl) = lower /\ UpperAt(dl) = upper
    BY <1>1, BoundsOnTop
  <2>2. LowerAt(dl)' = lower' /\ UpperAt(dl)' = upper'
    BY <1>1, <1>4, CurrentAfter
  <2> QED BY <1>4, <2>1, <2>2
<1>5. CASE UNCHANGED boundVars
  <2>1. KeptAt(l)
    BY <1>5 DEF KeptAt, LowerAt, UpperAt, boundVars
  <2> QED BY <1>2, <2>1 DEF KeptAt
<1> QED BY <1>1, <1>3, <1>4, <1>5 DEF BoundsStep

\* Hence the levels stay ordered.
LEMMA BoundsKept ==
    ASSUME IInv, IInv', BoundsInv, BoundsStep
    PROVE  BoundsInv'
<1>0. TypeOK /\ TypeOK'
  BY DEF IInv
<1>1. dl \in Nat /\ dl' \in Nat
  BY <1>0 DEF TypeOK
<1>2. ASSUME NEW k \in 0..dl', NEW l \in 0..dl', k <= l
      PROVE  Narrows(LowerAt(k)', UpperAt(k)', LowerAt(l)', UpperAt(l)')
  <2>1. CASE l \in 0..(dl - 1)
    <3>1. k \in 0..(dl - 1) /\ k \in 0..dl /\ l \in 0..dl
      BY <1>1, <1>2, <2>1
    <3>2. Narrows(LowerAt(k), UpperAt(k), LowerAt(l), UpperAt(l))
      BY <1>2, <3>1 DEF BoundsInv
    <3> QED BY <2>1, <3>1, <3>2 DEF BoundsStep, KeptAt
  <2>2. CASE l = dl
    <3>1. k \in 0..dl /\ l \in 0..dl /\ l <= dl' /\ (k < dl \/ k = dl)
      BY <1>1, <1>2, <2>2
    <3>2. Narrows(LowerAt(l), UpperAt(l), LowerAt(l)', UpperAt(l)')
      BY <3>1, LevelNarrows
    <3>5. /\ LowerAt(l) \in [Vars -> Int] /\ UpperAt(l) \in [Vars -> Int]
          /\ LowerAt(l)' \in [Vars -> Int] /\ UpperAt(l)' \in [Vars -> Int]
      <4>0. l \in Nat
        BY <1>1, <2>2
      <4>1. LowerAt(l)' = lower' \/ LowerAt(l)' = LowerAt(l)
        BY <1>1, <2>2, <4>0, CurrentAfter DEF BoundsStep, KeptAt, LowerAt, boundVars
      <4>2. UpperAt(l)' = upper' \/ UpperAt(l)' = UpperAt(l)
        BY <1>1, <2>2, <4>0, CurrentAfter DEF BoundsStep, KeptAt, UpperAt, boundVars
      <4>3. lower' \in [Vars -> Int] /\ upper' \in [Vars -> Int]
        BY <1>0 DEF TypeOK
      <4> QED BY <4>0, <4>1, <4>2, <4>3, LevelTyped
    <3>3. CASE k = dl
      BY <2>2, <3>2, <3>3, <3>5 DEF Narrows
    <3>4. CASE k < dl
      <4>1. k \in 0..(dl - 1) /\ k \in Nat /\ l \in Nat
        BY <1>1, <3>1, <3>4
      <4>2. KeptAt(k) /\ Narrows(LowerAt(k), UpperAt(k), LowerAt(l), UpperAt(l))
        BY <1>2, <3>1, <4>1 DEF BoundsInv, BoundsStep
      <4>3. /\ LowerAt(k) \in [Vars -> Int] /\ UpperAt(k) \in [Vars -> Int]
            /\ LowerAt(l) \in [Vars -> Int] /\ UpperAt(l) \in [Vars -> Int]
        BY <4>1, LevelTyped
      <4> HIDE DEF Narrows
      <4>5. \A v \in Vars : /\ LowerAt(k)[v] <= LowerAt(l)[v] /\ UpperAt(l)[v] <= UpperAt(k)[v]
                            /\ LowerAt(l)[v] <= LowerAt(l)'[v] /\ UpperAt(l)'[v] <= UpperAt(l)[v]
                            /\ LowerAt(l)'[v] <= UpperAt(l)'[v]
        BY <3>2, <4>2 DEF Narrows
      <4>6. \A v \in Vars : LowerAt(k)[v] <= LowerAt(l)'[v] /\ UpperAt(l)'[v] <= UpperAt(k)[v]
        BY <3>5, <4>3, <4>5
      <4> QED BY <4>2, <4>5, <4>6 DEF Narrows, KeptAt
    <3> QED BY <3>1, <3>3, <3>4
  <2>3. CASE l = dl + 1 /\ dl' = dl + 1 /\ UNCHANGED boundVars
    <3>1. /\ LowerAt(k)' = LowerAt(k) /\ UpperAt(k)' = UpperAt(k)
          /\ LowerAt(l)' = LowerAt(l) /\ UpperAt(l)' = UpperAt(l)
      BY <2>3 DEF LowerAt, UpperAt, boundVars
    <3>2. /\ LowerAt(l) = LowerAt(dl) /\ UpperAt(l) = UpperAt(dl)
          /\ k = l => LowerAt(k) = LowerAt(dl) /\ UpperAt(k) = UpperAt(dl)
      <4>1. l \in Nat /\ l >= dl /\ dl \in Nat /\ dl >= dl
        BY <1>1, <2>3
      <4> QED BY <4>1, BoundsOnTop
    <3>3. (k \in 0..dl \/ k = l) /\ dl \in 0..dl /\ \A m \in 0..dl : m <= dl
      BY <1>1, <1>2, <2>3
    <3> QED BY <3>1, <3>2, <3>3 DEF BoundsInv
  <2>4. l \in 0..(dl - 1) \/ l = dl \/ (l = dl + 1 /\ dl' = dl + 1 /\ UNCHANGED boundVars)
    BY <1>1 DEF BoundsStep
  <2> QED BY <2>1, <2>2, <2>3, <2>4
<1> QED BY <1>2 DEF BoundsInv

\* Initially there is only the top level.
LEMMA InitBounds ==
    ASSUME Init
    PROVE  BoundsInv
<1>1. IInv /\ dl = 0 /\ lower = InitLower /\ upper = InitUpper
  BY InitInv DEF Init
<1>2. LowerAt(0) = InitLower /\ UpperAt(0) = InitUpper
  BY <1>1, BoundsOnTop
<1>3. \A k \in 0..dl : k = 0
  BY <1>1
<1> QED BY <1>2, <1>3, BoundsAssumption DEF BoundsInv, Narrows

-----------------------------------------------------------------------------
(* The invariant.                                                          *)

\* The search on this level is over, sums and marks are not up to date.
Stopped == pc \in {"conflict", "unsat"}

\* Between a fixpoint and the next literal nothing is in the todo list but the
\* minimize constraint, which is never inactive.
TodoInv ==
    /\ Top.level # dl => todo \subseteq IF pc = "check" THEN {Minimize} ELSE {}
    /\ pc = "fixpoint" => todo = {}
    /\ \A c \in Cons : Marked(c) => Removable(c)

\* Literals of constraints have been assigned on levels there are.
LitsInv == \A c \in Cons : clitLevel[c] <= dl

\* The literal of c is false since level l or below.
FalseAt(c, l) == clit[c] = "false" /\ clitLevel[c] <= l

\* Why a constraint is left alone, on the level it is inactive on.
Justified(c) ==
    LET l == inactiveLevel[c] - 1
    IN  FalseAt(c, l) \/ UpperSum(c, LowerAt(l), UpperAt(l)) <= Rhs[c]

InactiveInv ==
    \A c \in Cons : Marked(c) => Justified(c) \/ (Stopped /\ inactiveLevel[c] = dl + 1)

\* The level from which on c has been taken into account.
Since(c) == IF c = Minimize THEN minLevel ELSE 0

\* The bounds of level l do not violate c.
HoldsAt(c, l) == FalseAt(c, l) \/ LowerSum(c, LowerAt(l), UpperAt(l)) <= RhsOf(c)

\* Levels below the current one were left at a fixpoint.
LevelsInv ==
    \A c \in Cons, l \in 0..(dl - 1) : HasRhs(c) /\ Since(c) <= l => HoldsAt(c, l)

\* On the current level constraints that hold no longer are to be propagated.
CurrentInv ==
    ~Stopped => \A c \in Cons :
      HasRhs(c) /\ Since(c) <= dl /\ c \notin todo /\ ~Marked(c)
        => clit[c] = "false" \/ csLower[c] <= RhsOf(c)

\* The bound of the objective has been integrated on this level or below.
BoundInv ==
    /\ pc \in {"check", "fixpoint"} => minLevel <= dl
    /\ best = NoBound => minBound = NoBound /\ minLevel = 0
    /\ minBound # NoBound => best # NoBound /\ best <= minBound

\* The inductive invariant.
LInv == BoundsInv /\ TodoInv /\ LitsInv /\ InactiveInv /\ LevelsInv /\ CurrentInv /\ BoundInv
FInv == SInv /\ LInv

-----------------------------------------------------------------------------
(* What follows from it in a state.                                        *)

\* A level of an inactive constraint.
LEMMA InactiveOn ==
    ASSUME SInv, NEW c \in Cons, Marked(c)
    PROVE  /\ inactiveLevel[c] \in Nat /\ inactiveLevel[c] - 1 \in 0..dl /\ inactiveLevel[c] - 1 \in Nat
           /\ inactiveLevel[c] - 1 <= Top.level
<1>1. IInv /\ MarksInv /\ TypeOK /\ LevelsOK(levels) /\ dl \in Nat /\ Top.level <= dl
  BY DEF SInv, IInv, TypeOK, StacksOK
<1>2. inactiveLevel[c] \in Nat /\ inactiveLevel[c] - 1 \in Nat
  BY <1>1, MarkedAbove
<1>3. PICK i \in 1..Len(levels) : inactiveLevel[c] - 1 = levels[i].level
  BY <1>1, MarkedAbove
<1>4. levels[i].level <= Top.level /\ Top.level \in Nat
  BY <1>1, FramesUpToTop
<1> QED BY <1>1, <1>2, <1>3, <1>4

\* The sums a constraint keeps enclose those of the current bounds.
LEMMA SumsEnclose ==
    ASSUME SInv, BoundsInv, NEW c \in Cons
    PROVE  /\ csLower[c] \in Int /\ csUpper[c] \in Int
           /\ LowerSum(c, lower, upper) \in Int /\ UpperSum(c, lower, upper) \in Int
           /\ csLower[c] <= LowerSum(c, lower, upper)
           /\ LowerSum(c, lower, upper) <= UpperSum(c, lower, upper)
           /\ UpperSum(c, lower, upper) <= csUpper[c]
<1>1. /\ IInv /\ MarksInv /\ dl \in Nat /\ dl \in 0..dl
      /\ lower \in [Vars -> Int] /\ upper \in [Vars -> Int]
      /\ ldiff \in [Vars -> Int] /\ udiff \in [Vars -> Int]
      /\ csLower[c] \in Int /\ csUpper[c] \in Int
      /\ \A v \in Vars : ldiff[v] >= 0 /\ udiff[v] <= 0
  BY DEF SInv, IInv, TypeOK, PendingOnTop
<1>2. /\ csLower[c] = LowerSum(c, ToldLower(c), ToldUpper(c))
      /\ csUpper[c] = UpperSum(c, ToldLower(c), ToldUpper(c))
  BY DEF SInv, SumsInv
<1>3. ToldLower(c) \in [Vars -> Int] /\ ToldUpper(c) \in [Vars -> Int]
  BY <1>1, ToldTyped
<1>4. Narrows(lower, upper, lower, upper)
  <2>1. LowerAt(dl) = lower /\ UpperAt(dl) = upper
    BY <1>1, BoundsOnTop
  <2> QED BY <1>1, <2>1, CurrentNarrows
<1>5. Narrows(ToldLower(c), ToldUpper(c), lower, upper)
  <2>1. CASE RemovableAt(c, Top.level)
    <3> DEFINE l == inactiveLevel[c] - 1
    <3>1. l \in 0..dl
      BY <2>1, InactiveOn DEF RemovableAt
    <3>2. Narrows(LowerAt(l), UpperAt(l), lower, upper)
      BY <1>1, <3>1, CurrentNarrows
    <3>3. ToldLower(c) = LowerAt(l) /\ ToldUpper(c) = UpperAt(l)
      BY <2>1, BoundOfStack DEF ToldLower, ToldUpper, Told, LowerAt, UpperAt
    <3> QED BY <3>2, <3>3
  <2>2. CASE ~RemovableAt(c, Top.level)
    <3>1. \A v \in Vars : ToldLower(c)[v] = lower[v] - ldiff[v] /\ ToldUpper(c)[v] = upper[v] - udiff[v]
      BY <2>2 DEF ToldLower, ToldUpper, Told
    <3> QED BY <1>1, <1>4, <3>1 DEF Narrows
  <2> QED BY <2>1, <2>2
<1>6. LowerSum(c, lower, upper) \in Int /\ UpperSum(c, lower, upper) \in Int
  BY <1>1, SumsTyped
<1> QED BY <1>1, <1>2, <1>3, <1>5, <1>6, NarrowSums

\* Those of an active constraint are exact when nothing is pending.
LEMMA SumsExact ==
    ASSUME SInv, NEW c \in Cons, ~Marked(c), pc \in {"check", "fixpoint"} \/ Top.level # dl
    PROVE  csLower[c] = LowerSum(c, lower, upper) /\ csUpper[c] = UpperSum(c, lower, upper)
<1>1. IInv /\ lower \in [Vars -> Int] /\ upper \in [Vars -> Int]
  BY DEF SInv, IInv, TypeOK
<1>2. \A v \in Vars : ldiff[v] = 0 /\ udiff[v] = 0
  BY <1>1, NothingPending
<1>3. \A v \in Vars : lower[v] - ldiff[v] = lower[v] /\ upper[v] - udiff[v] = upper[v]
  BY <1>1, <1>2
<1>4. ToldLower(c) = lower /\ ToldUpper(c) = upper
  BY <1>1, <1>3 DEF ToldLower, ToldUpper, Told, RemovableAt
<1> QED BY <1>4 DEF SInv, SumsInv

\* An inactive constraint whose literal is not false holds for all values.
LEMMA InactiveHolds ==
    ASSUME SInv, BoundsInv, NEW c \in Cons, Marked(c), Justified(c), clit[c] # "false"
    PROVE  UpperSum(c, lower, upper) <= Rhs[c]
<1> DEFINE l == inactiveLevel[c] - 1
<1>1. l \in 0..dl /\ l \in Nat /\ IInv
  BY InactiveOn DEF SInv
<1>2. UpperSum(c, LowerAt(l), UpperAt(l)) <= Rhs[c]
  BY DEF Justified, FalseAt
<1> HIDE DEF l
<1>3. /\ Narrows(LowerAt(l), UpperAt(l), lower, upper)
      /\ lower \in [Vars -> Int] /\ upper \in [Vars -> Int]
  BY <1>1, CurrentNarrows
<1>4. LowerAt(l) \in [Vars -> Int] /\ UpperAt(l) \in [Vars -> Int]
  BY <1>1, LevelTyped
<1>5. UpperSum(c, lower, upper) <= UpperSum(c, LowerAt(l), UpperAt(l))
  BY <1>3, <1>4, NarrowSums
<1>6. UpperSum(c, lower, upper) \in Int /\ UpperSum(c, LowerAt(l), UpperAt(l)) \in Int /\ Rhs[c] \in Int
  BY <1>3, <1>4, SumsTyped, RhsAssumption
<1> QED BY <1>2, <1>5, <1>6

\* The right hand side is a number if there is one.
LEMMA RhsTyped ==
    ASSUME TypeOK, NEW c \in Cons, HasRhs(c)
    PROVE  RhsOf(c) \in Int
BY RhsAssumption DEF TypeOK, HasRhs, RhsOf

\* At a fixpoint no constraint is violated.
LEMMA FixpointHolds ==
    ASSUME FInv, pc = "fixpoint", NEW c \in Cons, HasRhs(c), clit[c] # "false"
    PROVE  LowerSum(c, lower, upper) <= RhsOf(c)
<1>1. SInv /\ BoundsInv /\ TodoInv /\ InactiveInv /\ CurrentInv /\ BoundInv /\ TypeOK
  BY DEF FInv, LInv, SInv, IInv
<1>2. LowerSum(c, lower, upper) <= UpperSum(c, lower, upper) /\ RhsOf(c) \in Int
      /\ LowerSum(c, lower, upper) \in Int /\ UpperSum(c, lower, upper) \in Int
  BY <1>1, SumsEnclose, RhsTyped
<1>3. CASE Marked(c)
  <2>1. Justified(c) /\ c # Minimize
    BY <1>1, <1>3 DEF InactiveInv, TodoInv, Stopped, Removable
  <2>2. UpperSum(c, lower, upper) <= Rhs[c]
    BY <1>1, <1>3, <2>1, InactiveHolds
  <2>3. RhsOf(c) = Rhs[c]
    BY <2>1 DEF RhsOf
  <2> QED BY <1>2, <2>2, <2>3
<1>4. CASE ~Marked(c)
  <2>1. Since(c) <= dl
    BY <1>1 DEF BoundInv, Since, TypeOK
  <2>2. c \notin todo /\ ~Stopped
    BY <1>1 DEF TodoInv, Stopped
  <2>3. csLower[c] <= RhsOf(c)
    BY <1>1, <1>4, <2>1, <2>2 DEF CurrentInv
  <2> QED BY <1>1, <1>4, <2>3, SumsExact
<1> QED BY <1>3, <1>4

-----------------------------------------------------------------------------
(* Steps that leave sums and marks alone.                                  *)

\* Literals of constraints keep their values, free ones may get one.
LitsStep ==
    \A c \in Cons : \/ clit'[c] = clit[c] /\ clitLevel'[c] = clitLevel[c]
                    \/ clit[c] = "free" /\ clitLevel'[c] <= dl' /\ clitLevel'[c] \in Nat

\* The reason of a constraint to be inactive stays.
LEMMA JustifiedStays ==
    ASSUME SInv, IInv', BoundsInv, BoundsStep, NEW c \in Cons, Marked(c), Justified(c),
           inactiveLevel'[c] = inactiveLevel[c], inactiveLevel[c] - 1 <= dl',
           FalseAt(c, inactiveLevel[c] - 1) =>
             clit'[c] = clit[c] /\ clitLevel'[c] = clitLevel[c]
    PROVE  Justified(c)'
<1>1. PICK l \in Nat : /\ l = inactiveLevel[c] - 1 /\ l \in 0..dl /\ IInv
                      /\ inactiveLevel'[c] - 1 = l /\ l <= dl'
  BY InactiveOn DEF SInv
<1>2. CASE FalseAt(c, l)
  BY <1>1, <1>2 DEF FalseAt, Justified
<1>3. CASE UpperSum(c, LowerAt(l), UpperAt(l)) <= Rhs[c]
  <2>1. Narrows(LowerAt(l), UpperAt(l), LowerAt(l)', UpperAt(l)')
    BY <1>1, LevelNarrows
  <2>2. LowerAt(l) \in [Vars -> Int] /\ UpperAt(l) \in [Vars -> Int]
    BY <1>1, LevelTyped
  <2>3. LowerAt(l)' \in [Vars -> Int] /\ UpperAt(l)' \in [Vars -> Int]
    BY <1>1, LevelTypedAfter
  <2>4. /\ UpperSum(c, LowerAt(l)', UpperAt(l)') <= UpperSum(c, LowerAt(l), UpperAt(l))
        /\ UpperSum(c, LowerAt(l)', UpperAt(l)') \in Int /\ UpperSum(c, LowerAt(l), UpperAt(l)) \in Int
        /\ Rhs[c] \in Int
    BY <2>1, <2>2, <2>3, NarrowSums, SumsTyped, RhsAssumption
  <2>5. UpperSum(c, LowerAt(l)', UpperAt(l)') <= Rhs[c]
    BY <1>3, <2>4
  <2>6. (UpperSum(c, LowerAt(l), UpperAt(l)) <= Rhs[c])'
    BY <2>5 DEF UpperSum, LowerAt, UpperAt
  <2> QED BY <1>1, <2>6 DEF Justified
<1> QED BY <1>1, <1>2, <1>3 DEF Justified

\* What the levels below hold stays true.
LEMMA HoldsStays ==
    ASSUME BoundsStep, NEW c \in Cons, NEW l \in 0..(dl - 1), HoldsAt(c, l),
           FalseAt(c, l) => FalseAt(c, l)', RhsOf(c)' = RhsOf(c)
    PROVE  HoldsAt(c, l)'
<1>1. LowerAt(l)' = LowerAt(l) /\ UpperAt(l)' = UpperAt(l)
  BY DEF BoundsStep, KeptAt
<1>2. LowerSum(c, LowerAt(l), UpperAt(l))' = LowerSum(c, LowerAt(l), UpperAt(l))
  BY <1>1 DEF LowerSum, LowerAt, UpperAt
<1> QED BY <1>2 DEF HoldsAt

\* Such a step: literals and levels may be added.
Calm ==
    /\ UNCHANGED <<csLower, csUpper, inactiveLevel, minBound, minLevel>>
    /\ todo \subseteq todo'
    /\ Stopped => Stopped' /\ dl' = dl
    /\ dl' = dl \/ (dl' = dl + 1 /\ pc = "fixpoint" /\ UNCHANGED boundVars)
    /\ LitsStep

\* They keep the invariant.
LEMMA CalmKeeps ==
    ASSUME FInv, IInv', BoundsStep, Calm
    PROVE  LitsInv' /\ InactiveInv' /\ LevelsInv' /\ CurrentInv'
<1>1. /\ SInv /\ IInv /\ BoundsInv /\ LitsInv /\ InactiveInv /\ LevelsInv /\ CurrentInv /\ BoundInv
      /\ TypeOK /\ TypeOK'
  BY DEF FInv, LInv, SInv, IInv
<1>2. /\ dl \in Nat /\ dl' \in Nat /\ dl <= dl' /\ minLevel \in Nat
      /\ \A c \in Cons : clitLevel[c] \in Nat /\ clitLevel'[c] \in Nat /\ inactiveLevel[c] \in Nat
  BY <1>1 DEF TypeOK, Calm
<1>3. /\ \A c \in Cons : Marked(c)' <=> Marked(c)
      /\ \A c \in Cons : HasRhs(c)' <=> HasRhs(c)
      /\ \A c \in Cons : RhsOf(c)' = RhsOf(c) /\ Since(c)' = Since(c)
  BY DEF Calm, Marked, HasRhs, RhsOf, Since
<1>4. ASSUME NEW c \in Cons, NEW l \in Nat, FalseAt(c, l)
      PROVE  FalseAt(c, l)' /\ clit'[c] = clit[c] /\ clitLevel'[c] = clitLevel[c]
  BY <1>4 DEF FalseAt, Calm, LitsStep
<1>5. LitsInv'
  BY <1>1, <1>2 DEF LitsInv, Calm, LitsStep
<1>6. InactiveInv'
  <2>1. ASSUME NEW c \in Cons, Marked(c)'
        PROVE  (Justified(c) \/ (Stopped /\ inactiveLevel[c] = dl + 1))'
    <3>1. Marked(c) /\ inactiveLevel'[c] = inactiveLevel[c]
      BY <1>3, <2>1 DEF Calm
    <3>2. CASE Justified(c)
      <4>1. inactiveLevel[c] - 1 \in Nat /\ inactiveLevel[c] - 1 \in 0..dl
        BY <1>1, <3>1, InactiveOn
      <4>2. inactiveLevel[c] - 1 <= dl'
        BY <1>2, <4>1
      <4> QED BY <1>1, <1>4, <3>1, <3>2, <4>1, <4>2, JustifiedStays
    <3>3. CASE Stopped /\ inactiveLevel[c] = dl + 1
      BY <3>1, <3>3 DEF Calm
    <3> QED BY <1>1, <3>1, <3>2, <3>3 DEF InactiveInv
  <2> QED BY <2>1 DEF InactiveInv
<1>7. LevelsInv'
  <2>1. ASSUME NEW c \in Cons, NEW l \in 0..(dl' - 1), HasRhs(c)', Since(c)' <= l
        PROVE  HoldsAt(c, l)'
    <3>1. HasRhs(c) /\ Since(c) <= l /\ RhsOf(c)' = RhsOf(c)
      BY <1>3, <2>1
    <3>2. CASE l \in 0..(dl - 1)
      <4>1. HoldsAt(c, l) /\ l \in Nat
        BY <1>1, <1>2, <3>1, <3>2 DEF LevelsInv
      <4> QED BY <1>4, <3>1, <3>2, <4>1, HoldsStays
    <3>3. CASE l = dl /\ dl' = dl + 1
      <4>1. pc = "fixpoint" /\ UNCHANGED boundVars
        BY <1>2, <3>3 DEF Calm
      <4>2. LowerAt(l) = lower /\ UpperAt(l) = upper
        BY <1>1, <1>2, <3>3, BoundsOnTop
      <4>3. HoldsAt(c, l)
        <5>1. CASE clit[c] = "false"
          BY <1>1, <3>3, <5>1 DEF HoldsAt, FalseAt, LitsInv
        <5>2. CASE clit[c] # "false"
          BY <3>1, <4>1, <4>2, <5>2, FixpointHolds DEF HoldsAt
        <5> QED BY <5>1, <5>2
      <4>4. LowerAt(l)' = LowerAt(l) /\ UpperAt(l)' = UpperAt(l)
        BY <4>1 DEF LowerAt, UpperAt, boundVars
      <4>5. LowerSum(c, LowerAt(l), UpperAt(l))' = LowerSum(c, LowerAt(l), UpperAt(l))
        BY <4>4 DEF LowerSum, LowerAt, UpperAt
      <4>6. FalseAt(c, l) => FalseAt(c, l)'
        BY <1>2, <1>4, <3>3
      <4> QED BY <3>1, <4>3, <4>5, <4>6 DEF HoldsAt
    <3>4. dl' = dl \/ dl' = dl + 1
      BY DEF Calm
    <3>5. l \in 0..(dl - 1) \/ (l = dl /\ dl' = dl + 1)
      <4>1. dl \in Nat /\ l \in 0..(dl' - 1)
        BY <1>2
      <4>2. \A d \in Nat : \A k \in 0..d : k \in 0..(d - 1) \/ k = d
        OBVIOUS
      <4>3. dl' = dl + 1 => l \in 0..dl
        BY <4>1
      <4> QED BY <3>4, <4>1, <4>2, <4>3
    <3> QED BY <3>2, <3>3, <3>5
  <2> QED BY <2>1 DEF LevelsInv
<1>8. CurrentInv'
  <2>1. ASSUME ~Stopped', NEW c \in Cons, HasRhs(c)', Since(c)' <= dl', c \notin todo', ~Marked(c)'
        PROVE  clit'[c] = "false" \/ csLower'[c] <= RhsOf(c)'
    <3>1. /\ ~Stopped /\ HasRhs(c) /\ c \notin todo /\ ~Marked(c)
          /\ csLower'[c] = csLower[c] /\ RhsOf(c)' = RhsOf(c)
      BY <1>3, <2>1 DEF Calm
    <3>2. Since(c) <= dl
      <4>1. dl' = dl => Since(c) <= dl
        BY <1>3, <2>1
      <4>2. pc = "fixpoint" => Since(c) <= dl
        BY <1>1, <1>2 DEF BoundInv, Since
      <4> QED BY <4>1, <4>2 DEF Calm
    <3>3. clit[c] = "false" \/ csLower[c] <= RhsOf(c)
      BY <1>1, <3>1, <3>2 DEF CurrentInv
    <3>4. clit[c] = "false" => clit'[c] = "false"
      BY DEF Calm, LitsStep
    <3> QED BY <3>1, <3>3, <3>4
  <2> QED BY <2>1 DEF CurrentInv
<1> QED BY <1>5, <1>6, <1>7, <1>8

\* propagate makes the decision level the level of the topmost frame.
LEMMA PropagateOnTop ==
    ASSUME IInv, \/ \E l \in queue : PropagateLiteral(l)
                 \/ \E c \in Cons : PropagateCons(c)
    PROVE  Top'.level = dl
<1>1. ASSUME NEW c \in Cons, PropagateCons(c)
      PROVE  Top'.level = dl
  BY <1>1, PushAdds DEF PropagateCons, Top
<1>2. ASSUME NEW l \in queue, PropagateLiteral(l)
      PROVE  Top'.level = dl
  <2>1. /\ l.var \in Vars /\ l.value \in Int
        /\ UNCHANGED <<sumVars, inactiveLevel, dl>>
    BY <1>2 DEF PropagateLiteral, IInv, TypeOK, Literals
  <2>2. CASE levels' = PushLevel
    BY <2>2, PushAdds DEF Top
  <2>3. CASE UpdateUpper(l.var, l.value)
    BY <2>1, <2>3, UpperGrows DEF Grows
  <2>4. CASE UpdateLower(l.var, l.value)
    BY <2>1, <2>4, LowerGrows DEF Grows
  <2> QED BY <1>2, <2>2, <2>3, <2>4 DEF PropagateLiteral
<1> QED BY <1>1, <1>2

\* Assigning a literal of a constraint.
LEMMA AssignLits ==
    ASSUME TypeOK, TypeOK', NEW d \in Cons, NEW level \in Nat, AssignCons(d, level), level <= dl'
    PROVE  LitsStep
BY DEF AssignCons, LitsStep, TypeOK

\* Steps of clasp, of other threads and of propagate, and the end of a check.
LEMMA CalmSteps ==
    ASSUME FInv, IInv',
           \/ Decide \/ UnitPropagate \/ OtherThread \/ CheckEnd \/ OnModel \/ UNCHANGED vars
           \/ \E l \in queue : PropagateLiteral(l)
           \/ \E c \in Cons : PropagateCons(c)
    PROVE  Calm /\ TodoInv' /\ BoundInv'
<1>1. /\ SInv /\ IInv /\ TodoInv /\ LitsInv /\ BoundInv /\ TypeOK /\ TypeOK'
      /\ dl \in Nat /\ dl' \in Nat /\ minLevel \in Nat
      /\ best \in Int \union {NoBound} /\ minBound \in Int \union {NoBound}
  BY DEF FInv, LInv, SInv, IInv, TypeOK
<1>2. CASE Decide
  <2>1. /\ pc = "fixpoint" /\ pc' = "propagate" /\ dl' = dl + 1 /\ UNCHANGED boundVars
        /\ UNCHANGED <<csLower, csUpper, inactiveLevel, minBound, minLevel, best, todo, levels>>
    BY <1>2 DEF Decide, sumVars, todoVars, minVars
  <2>2. LitsStep
    <3>1. CASE UNCHANGED litVars
      BY <3>1 DEF LitsStep, litVars
    <3>2. CASE \E c \in Cons : AssignCons(c, dl + 1)
      <4>1. dl + 1 \in Nat /\ dl + 1 <= dl'
        BY <1>1, <2>1
      <4> QED BY <1>1, <3>2, <4>1, AssignLits
    <3> QED BY <1>2, <3>1, <3>2 DEF Decide, AssignLiteral
  <2>3. TodoInv'
    BY <1>1, <2>1 DEF TodoInv, Marked, Removable
  <2>4. BoundInv'
    BY <1>1, <2>1 DEF BoundInv
  <2> QED BY <1>1, <2>1, <2>2, <2>3, <2>4 DEF Calm, Stopped
<1>3. CASE UnitPropagate
  <2>1. /\ pc' = pc /\ dl' = dl /\ pc \in {"propagate", "check"}
        /\ UNCHANGED <<csLower, csUpper, inactiveLevel, minBound, minLevel, best, todo, levels>>
    BY <1>3 DEF UnitPropagate, sumVars, todoVars, minVars
  <2>2. LitsStep
    <3>1. CASE UNCHANGED litVars
      BY <3>1 DEF LitsStep, litVars
    <3>2. CASE \E c \in Cons : AssignCons(c, dl)
      <4>1. dl <= dl'
        BY <1>1, <2>1
      <4> QED BY <1>1, <3>2, <4>1, AssignLits
    <3> QED BY <1>3, <3>1, <3>2 DEF UnitPropagate, AssignLiteral
  <2>3. TodoInv'
    BY <1>1, <2>1 DEF TodoInv, Marked, Removable, Top
  <2>4. BoundInv'
    BY <1>1, <2>1 DEF BoundInv
  <2> QED BY <1>1, <2>1, <2>2, <2>3, <2>4 DEF Calm, Stopped
<1>4. CASE OtherThread
  <2>1. /\ pc' = pc /\ dl' = dl
        /\ UNCHANGED <<csLower, csUpper, inactiveLevel, minBound, minLevel, todo, levels, clit, clitLevel>>
    BY <1>4 DEF OtherThread, sumVars, todoVars, minVars, litVars
  <2>2. best' \in Int /\ best' # NoBound /\ (best # NoBound => best' < best)
    BY <1>4, ObjectivesAssumption DEF OtherThread, Improves
  <2>3. TodoInv'
    BY <1>1, <2>1 DEF TodoInv, Marked, Removable, Top
  <2>4. BoundInv'
    BY <1>1, <2>1, <2>2 DEF BoundInv
  <2> QED BY <1>1, <2>1, <2>3, <2>4 DEF Calm, Stopped, LitsStep
<1>5. CASE CheckEnd
  <2>1. /\ pc = "check" /\ todo = {} /\ pc' \in {"fixpoint", "propagate"} /\ dl' = dl
        /\ UNCHANGED <<csLower, csUpper, inactiveLevel, minBound, minLevel, best, todo, levels, clit, clitLevel>>
    BY <1>5 DEF CheckEnd, sumVars, todoVars, minVars, litVars
  <2>2. TodoInv' /\ BoundInv'
    BY <1>1, <2>1 DEF TodoInv, Marked, Removable, BoundInv
  <2> QED BY <1>1, <2>1, <2>2 DEF Calm, Stopped, LitsStep
<1>6. CASE OnModel
  <2>1. /\ pc = "fixpoint" /\ pc' = "propagate" /\ dl' = dl
        /\ UNCHANGED <<csLower, csUpper, inactiveLevel, minBound, minLevel, todo, levels, clit, clitLevel>>
    BY <1>6 DEF OnModel, sumVars, todoVars, minVars, litVars
  <2>2. best' \in Int /\ best' # NoBound /\ (best # NoBound => best' < best)
    <3>1. Minimize \in Cons /\ lower \in [Vars -> Int] /\ upper \in [Vars -> Int]
      BY <1>1, <1>6 DEF OnModel, TypeOK
    <3>2. Cost \in Int
      BY <3>1, SumsTyped DEF Cost
    <3> QED BY <1>6, <3>2, ObjectivesAssumption DEF OnModel, Improves
  <2>3. TodoInv'
    BY <1>1, <2>1 DEF TodoInv, Marked, Removable
  <2>4. BoundInv'
    BY <1>1, <2>1, <2>2 DEF BoundInv
  <2> QED BY <1>1, <2>1, <2>3, <2>4 DEF Calm, Stopped, LitsStep
<1>7. CASE \E l \in queue : PropagateLiteral(l)
  <2>1. /\ pc = "propagate" /\ pc' \in {"propagate", "conflict", "unsat"} /\ dl' = dl
        /\ UNCHANGED <<csLower, csUpper, inactiveLevel, minBound, minLevel, best, todo, clit, clitLevel>>
    BY <1>7 DEF PropagateLiteral, ConflictPc, sumVars, todoVars, minVars, litVars
  <2>2. Top'.level = dl'
    BY <1>1, <1>7, <2>1, PropagateOnTop
  <2>3. TodoInv' /\ BoundInv'
    BY <1>1, <2>1, <2>2 DEF TodoInv, Marked, Removable, BoundInv
  <2> QED BY <1>1, <2>1, <2>3 DEF Calm, Stopped, LitsStep
<1>8. CASE \E c \in Cons : PropagateCons(c)
  <2>1. /\ pc = "propagate" /\ pc' = "propagate" /\ dl' = dl /\ todo \subseteq todo'
        /\ UNCHANGED <<csLower, csUpper, inactiveLevel, minBound, minLevel, best, clit, clitLevel>>
    BY <1>8 DEF PropagateCons, MarkTodo, sumVars, minVars, litVars
  <2>2. Top'.level = dl'
    BY <1>1, <1>8, <2>1, PropagateOnTop
  <2>3. TodoInv' /\ BoundInv'
    BY <1>1, <2>1, <2>2 DEF TodoInv, Marked, Removable, BoundInv
  <2> QED BY <1>1, <2>1, <2>3 DEF Calm, Stopped, LitsStep
<1>9. CASE UNCHANGED vars
  <2>1. UNCHANGED <<csLower, csUpper, inactiveLevel, minBound, minLevel, best, todo, clit, clitLevel, dl, pc, levels>>
    BY <1>9 DEF vars, sumVars, todoVars, minVars, litVars
  <2>2. TodoInv' /\ BoundInv'
    BY <1>1, <2>1 DEF TodoInv, Marked, Removable, BoundInv, Top
  <2> QED BY <1>1, <2>1, <2>2 DEF Calm, Stopped, LitsStep
<1> QED BY <1>2, <1>3, <1>4, <1>5, <1>6, <1>7, <1>8, <1>9

-----------------------------------------------------------------------------
(* The start of a check.                                                   *)

\* Constraints put into the todo list are in it.
LEMMA MarkTodoAdds ==
    ASSUME TypeOK, TodoMatchesFlags, NEW cs, MarkTodo(cs)
    PROVE  /\ todo \subseteq todo' /\ todo' \subseteq todo \union cs
           /\ \A c \in Cons : c \in cs /\ ~Marked(c) => c \in todo'
BY DEF MarkTodo, TodoMatchesFlags, TypeOK

\* The lower sum of a constraint that is not enqueued stays.
LEMMA UnaffectedKeeps ==
    ASSUME SInv, UpdateConstraints, NEW c \in Cons, c \notin Affected
    PROVE  csLower'[c] = csLower[c]
<1>1. /\ csLower[c] \in Int /\ udiff \in [Vars -> Int] /\ ldiff \in [Vars -> Int]
      /\ Coef[c] \in [Vars -> Int]
  BY CoefAssumption DEF SInv, IInv, TypeOK
<1> DEFINE f == [v \in Vars |-> Positive(Change(c, v, inUdiff, udiff))
                              + Positive(Change(c, v, inLdiff, ldiff))]
<1>2. ASSUME NEW v \in Vars
      PROVE  f[v] = 0
  <2>1. ~(Change(c, v, inUdiff, udiff) > 0) /\ ~(Change(c, v, inLdiff, ldiff) > 0)
    BY DEF Affected
  <2> QED BY <2>1 DEF Positive
<1>3. csLower'[c] = csLower[c] + Sum(NumVars, f)
  BY DEF UpdateConstraints
<1>4. f \in [Vars -> Int] /\ \A v \in Vars : f[v] = f[v] + f[v]
  <2>1. f = [v \in Vars |-> 0]
    BY <1>2
  <2> QED BY <1>2, <2>1
<1> HIDE DEF f
<1>5. Sum(NumVars, f) = Sum(NumVars, f) + Sum(NumVars, f)
  BY <1>4, SumOfSum
<1>6. Sum(NumVars, f) \in Int
  BY <1>4, SumType, NumVarsAssumption DEF Vars
<1>7. Sum(NumVars, f) = 0
  <2>1. \A x \in Int : x = x + x => x = 0
    OBVIOUS
  <2> QED BY <1>5, <1>6, <2>1
<1> QED BY <1>1, <1>3, <1>7

\* What reading the bound of the objective changes.
LEMMA ReadBound ==
    ASSUME FInv, CheckStart
    PROVE  /\ minLevel' \in Nat /\ minLevel' <= dl
           /\ best = NoBound => minBound' = NoBound /\ minLevel' = 0
           /\ minBound' # NoBound => best # NoBound /\ best <= minBound'
           /\ BetterBound \/ LowerLevel => Minimize \in Cons /\ ~Marked(Minimize) /\ minLevel' = dl
           /\ ~(BetterBound \/ LowerLevel) => minLevel' = minLevel /\ minBound' = minBound
<1>1. /\ minLevel \in Nat /\ dl \in Nat /\ BoundInv /\ TodoInv
      /\ best \in Int \union {NoBound}
      /\ best # NoBound => Minimize \in Cons
  BY DEF FInv, LInv, SInv, IInv, TypeOK
<1>2. minBound' = (IF BetterBound THEN best ELSE minBound)
  BY DEF CheckStart
<1>3. minLevel' = (IF BetterBound \/ LowerLevel THEN dl ELSE minLevel)
  BY DEF CheckStart
<1>4. minLevel' \in Nat /\ minLevel' <= dl
  BY <1>1, <1>3 DEF BoundInv, LowerLevel
<1>5. BetterBound \/ LowerLevel => best # NoBound
  BY DEF BetterBound, LowerLevel
<1>6. best = NoBound => minBound' = NoBound /\ minLevel' = 0
  BY <1>1, <1>2, <1>3, <1>5 DEF BoundInv
<1>7. minBound' # NoBound => best # NoBound /\ best <= minBound'
  BY <1>1, <1>2, <1>5 DEF BoundInv
<1>8. BetterBound \/ LowerLevel => Minimize \in Cons /\ ~Marked(Minimize) /\ minLevel' = dl
  BY <1>1, <1>3, <1>5 DEF TodoInv, Removable
<1>9. ~(BetterBound \/ LowerLevel) => minLevel' = minLevel /\ minBound' = minBound
  BY <1>2, <1>3
<1> QED BY <1>4, <1>6, <1>7, <1>8, <1>9

\* Starting a check keeps the invariant.
LEMMA StartKeeps ==
    ASSUME FInv, IInv', BoundsStep, CheckStart
    PROVE  TodoInv' /\ LitsInv' /\ InactiveInv' /\ LevelsInv' /\ CurrentInv' /\ BoundInv'
<1>1. /\ SInv /\ IInv /\ TodoInv /\ LitsInv /\ InactiveInv /\ LevelsInv /\ CurrentInv
      /\ TypeOK /\ TodoMatchesFlags /\ dl \in Nat /\ Top.level <= dl
  BY DEF FInv, LInv, SInv, IInv, TypeOK
<1>2. /\ UNCHANGED <<lower, upper, lowerStack, upperStack, inactiveLevel, best, dl, clit, clitLevel>>
      /\ pc = "propagate" /\ pc' \in {"check", "fixpoint"}
  BY DEF CheckStart, boundVars, litVars
<1>3. BoundInv'
  BY <1>2, ReadBound DEF BoundInv
<1>4. /\ Top.level \in Nat
      /\ \A c \in Cons : Marked(c)' <=> Marked(c)
  <2>1. Len(levels) \in 1..Len(levels) /\ LevelsOK(levels)
    BY <1>1 DEF IInv, StacksOK, LevelsOK
  <2>2. Top.level \in Nat
    BY <1>1, <2>1, FramesUpToTop
  <2> QED BY <1>2, <2>2 DEF Marked
<1> DEFINE news == IF BetterBound \/ LowerLevel THEN {Minimize} ELSE {}
<1>5. CASE /\ dl # Top.level /\ Top.level >= minLevel'
           /\ MarkTodo(news)
           /\ pc' = "fixpoint"
           /\ UNCHANGED <<levels, diffVars, sumVars>>
  <2>1. ~(BetterBound \/ LowerLevel)
    BY <1>1, <1>4, <1>5, ReadBound
  <2>2. todo \subseteq todo' /\ todo' \subseteq todo
    BY <1>1, <1>5, <2>1, MarkTodoAdds
  <2>3. todo = {}
    BY <1>1, <1>2, <1>5 DEF TodoInv
  <2>4. UNCHANGED <<csLower, csUpper, minBound, minLevel>>
    BY <1>5, <2>1, ReadBound DEF sumVars
  <2>5. Calm
    BY <1>2, <2>2, <2>4 DEF Calm, Stopped, LitsStep
  <2>6. TodoInv'
    BY <1>1, <1>2, <1>4, <1>5, <2>2, <2>3 DEF TodoInv, Removable
  <2> QED BY <1>3, <2>5, <2>6, CalmKeeps
<1>6. CASE /\ MarkTodo(news \union Affected)
           /\ UpdateConstraints
           /\ pc' = "check"
  <2>1. /\ todo \subseteq todo' /\ todo' \subseteq todo \union news \union Affected
        /\ \A c \in Cons : c \in news \union Affected /\ ~Marked(c) => c \in todo'
    BY <1>1, <1>6, MarkTodoAdds
  <2>2. ~Stopped /\ Top'.level = Top.level
    BY <1>1, <1>2, <1>6, FlushFrames DEF Stopped
  <2>3. TodoInv'
    <3>1. ASSUME Top.level # dl
          PROVE  todo' \subseteq {Minimize}
      <4>1. todo = {}
        BY <1>1, <1>2, <3>1 DEF TodoInv
      <4>2. inUdiff = {} /\ inLdiff = {}
        BY <1>1, <3>1 DEF IInv, PendingOnTop
      <4>3. Affected = {}
        BY <4>2 DEF Affected, Change
      <4> QED BY <2>1, <4>1, <4>3
    <3> QED BY <1>1, <1>2, <1>4, <1>6, <2>2, <3>1 DEF TodoInv, Removable
  <2>4. LitsInv'
    BY <1>1, <1>2 DEF LitsInv
  <2>5. InactiveInv'
    <3>1. ASSUME NEW c \in Cons, Marked(c)'
          PROVE  Justified(c)'
      <4>1. Justified(c)
        BY <1>1, <1>4, <2>2, <3>1 DEF InactiveInv
      <4>2. /\ LowerAt(inactiveLevel[c] - 1)' = LowerAt(inactiveLevel[c] - 1)
            /\ UpperAt(inactiveLevel[c] - 1)' = UpperAt(inactiveLevel[c] - 1)
        BY <1>2 DEF LowerAt, UpperAt
      <4> QED BY <1>2, <4>1, <4>2 DEF Justified, FalseAt, UpperSum
    <3> QED BY <3>1 DEF InactiveInv
  <2>6. ASSUME NEW c \in Cons, ~(c = Minimize /\ (BetterBound \/ LowerLevel))
        PROVE  RhsOf(c)' = RhsOf(c) /\ Since(c)' = Since(c) /\ (HasRhs(c)' <=> HasRhs(c))
    BY <2>6, ReadBound DEF RhsOf, Since, HasRhs
  <2>7. LevelsInv'
    <3>1. ASSUME NEW c \in Cons, NEW l \in 0..(dl - 1), HasRhs(c)', Since(c)' <= l
          PROVE  HoldsAt(c, l)'
      <4>1. ~(c = Minimize /\ (BetterBound \/ LowerLevel))
        BY <1>1, <3>1, ReadBound DEF Since
      <4>2. RhsOf(c)' = RhsOf(c) /\ HoldsAt(c, l)
        BY <1>1, <2>6, <3>1, <4>1 DEF LevelsInv
      <4>3. FalseAt(c, l) => FalseAt(c, l)'
        BY <1>2 DEF FalseAt
      <4> QED BY <4>2, <4>3, HoldsStays
    <3> QED BY <1>2, <3>1 DEF LevelsInv
  <2>8. CurrentInv'
    <3>1. ASSUME NEW c \in Cons, HasRhs(c)', Since(c)' <= dl, c \notin todo', ~Marked(c)'
          PROVE  clit'[c] = "false" \/ csLower'[c] <= RhsOf(c)'
      <4>1. ~Marked(c) /\ c \notin todo /\ c \notin news /\ c \notin Affected
        BY <1>4, <2>1, <3>1
      <4>2. ~(c = Minimize /\ (BetterBound \/ LowerLevel))
        BY <4>1
      <4>3. clit[c] = "false" \/ csLower[c] <= RhsOf(c)
        BY <1>1, <2>2, <2>6, <3>1, <4>1, <4>2 DEF CurrentInv
      <4>4. csLower'[c] = csLower[c]
        BY <1>1, <1>6, <4>1, UnaffectedKeeps
      <4> QED BY <1>2, <2>6, <4>2, <4>3, <4>4
    <3> QED BY <1>2, <3>1 DEF CurrentInv
  <2> QED BY <1>3, <2>3, <2>4, <2>5, <2>7, <2>8
<1> QED BY <1>5, <1>6 DEF CheckStart

-----------------------------------------------------------------------------
(* One item of the todo list.                                              *)

\* Marking an item: it is marked on the current level.
LEMMA MarkOnTop ==
    ASSUME FInv, pc = "check", NEW c \in Cons, c \in todo, MarkInactive(c)
    PROVE  /\ Top'.level = Top.level
           /\ \/ inactiveLevel' = inactiveLevel
              \/ /\ c # Minimize /\ ~Marked(c)
                 /\ inactiveLevel' = [inactiveLevel EXCEPT ![c] = dl + 1]
<1>1. /\ TypeOK /\ TodoInv /\ levels \in Seq(Frames) /\ levels # <<>> /\ Len(levels) \in 1..Len(levels)
  BY DEF FInv, LInv, SInv, IInv, TypeOK
<1>2. CASE UNCHANGED <<inactiveLevel, levels>>
  BY <1>2 DEF Top
<1>3. CASE /\ Removable(c) /\ ~Marked(c)
           /\ inactiveLevel' = [inactiveLevel EXCEPT ![c] = Top.level + 1]
           /\ levels' = [levels EXCEPT ![Len(levels)].inactive = @ \union {c}]
  <2>1. Top.level = dl
    BY <1>1, <1>3 DEF TodoInv, Removable
  <2>2. Top'.level = Top.level
    <3> DEFINE n == Len(levels)
               F == [Top EXCEPT !.inactive = @ \union {c}]
    <3>1. F \in Frames /\ F.level = Top.level
      BY TopTyped DEF FInv, SInv, IInv, Frames
    <3>2. levels' = [levels EXCEPT ![n] = F]
      BY <1>3 DEF Top
    <3> HIDE DEF F
    <3>3. Len(levels') = n /\ levels'[n] = F
      BY <1>1, <3>1, <3>2
    <3> QED BY <3>1, <3>3 DEF Top
  <2> QED BY <1>3, <2>1, <2>2 DEF Top, Removable
<1> QED BY <1>2, <1>3 DEF MarkInactive

\* What an item changes.
LEMMA ItemStep ==
    ASSUME FInv, NEW c \in Cons, CheckItem(c)
    PROVE  /\ UNCHANGED <<lower, upper, lowerStack, upperStack, csLower, csUpper, minBound, minLevel, best, dl>>
           /\ Top'.level = Top.level
           /\ \/ inactiveLevel' = inactiveLevel
              \/ /\ c # Minimize /\ ~Marked(c)
                 /\ inactiveLevel' = [inactiveLevel EXCEPT ![c] = dl + 1]
           /\ \/ clit' = clit /\ clitLevel' = clitLevel
              \/ /\ clit[c] = "free"
                 /\ clit' = [clit EXCEPT ![c] = "false"] /\ clitLevel' = [clitLevel EXCEPT ![c] = dl]
           /\ (todo' = {} /\ Stopped') \/ (todo' = todo \ {c} /\ pc' = pc)
<1>1. /\ UNCHANGED <<lower, upper, lowerStack, upperStack, csLower, csUpper, minBound, minLevel, best, dl>>
      /\ pc = "check" /\ c \in todo
  BY DEF CheckItem, boundVars, sumVars, minVars
<1>2. MarkInactive(c) \/ UNCHANGED <<inactiveLevel, levels>>
  BY DEF CheckItem, SkipFalse, SkipOpen, Satisfied, Violated, Enforce
<1>3. /\ Top'.level = Top.level
      /\ \/ inactiveLevel' = inactiveLevel
         \/ /\ c # Minimize /\ ~Marked(c)
            /\ inactiveLevel' = [inactiveLevel EXCEPT ![c] = dl + 1]
  BY <1>1, <1>2, MarkOnTop DEF Top
<1>4. \/ clit' = clit /\ clitLevel' = clitLevel
      \/ /\ clit[c] = "free"
         /\ clit' = [clit EXCEPT ![c] = "false"] /\ clitLevel' = [clitLevel EXCEPT ![c] = dl]
  BY DEF CheckItem, SkipFalse, SkipOpen, Satisfied, Violated, Enforce, litVars
<1>5. FailItem \/ DoneItem(c)
  BY DEF CheckItem, SkipFalse, SkipOpen, Satisfied, Violated, Enforce
<1>6. (todo' = {} /\ Stopped') \/ (todo' = todo \ {c} /\ pc' = pc)
  BY <1>5 DEF FailItem, DoneItem, ConflictPc, Stopped
<1> QED BY <1>1, <1>3, <1>4, <1>6

\* An item that is marked need not be looked at on this level, and one that is
\* not holds.
LEMMA ItemOutcome ==
    ASSUME FInv, NEW c \in Cons, CheckItem(c), ~Stopped'
    PROVE  /\ inactiveLevel' # inactiveLevel => \/ clit'[c] = "false" /\ clitLevel'[c] <= dl
                                              \/ UpperSum(c, lower, upper) <= Rhs[c]
           /\ HasRhs(c) => clit'[c] = "false" \/ csLower[c] <= RhsOf(c)
<1>1. /\ SInv /\ BoundsInv /\ LitsInv /\ TypeOK
      /\ clit \in [Cons -> {"free", "true", "false"}] /\ clitLevel \in [Cons -> Nat] /\ dl \in Nat
  BY DEF FInv, LInv, SInv, IInv, TypeOK
<1>2. /\ csLower[c] \in Int /\ csUpper[c] \in Int
      /\ LowerSum(c, lower, upper) \in Int /\ UpperSum(c, lower, upper) \in Int
      /\ csLower[c] <= csUpper[c] /\ UpperSum(c, lower, upper) <= csUpper[c]
  BY <1>1, SumsEnclose
<1>3. HasRhs(c) => RhsOf(c) \in Int
  BY <1>1, RhsTyped
<1>4. inactiveLevel' # inactiveLevel => c # Minimize
  BY ItemStep
<1>5. CASE SkipFalse(c)
  BY <1>1, <1>5 DEF SkipFalse, litVars, FalseAt, LitsInv
<1>6. CASE SkipOpen(c)
  BY <1>2, <1>3, <1>6 DEF SkipOpen, Slack
<1>7. CASE Satisfied(c)
  <2>1. HasRhs(c) /\ csUpper[c] <= RhsOf(c) /\ (c # Minimize => RhsOf(c) = Rhs[c])
    BY <1>7 DEF Satisfied, RhsOf
  <2> QED BY <1>2, <1>3, <1>4, <2>1
<1>8. CASE Violated(c)
  <2>1. clit' = [clit EXCEPT ![c] = "false"] /\ clitLevel' = [clitLevel EXCEPT ![c] = dl]
    BY <1>8 DEF Violated, FailItem, ConflictPc, Stopped
  <2> QED BY <1>1, <1>8, <2>1, ItemStep DEF FalseAt
<1>9. CASE Enforce(c)
  BY <1>2, <1>3, <1>9 DEF Enforce, Slack
<1> QED BY <1>5, <1>6, <1>7, <1>8, <1>9 DEF CheckItem

\* Items keep the invariant.
LEMMA ItemKeeps ==
    ASSUME FInv, IInv', BoundsStep, NEW c \in Cons, CheckItem(c)
    PROVE  TodoInv' /\ LitsInv' /\ InactiveInv' /\ LevelsInv' /\ CurrentInv' /\ BoundInv'
<1>1. /\ SInv /\ IInv /\ BoundsInv /\ TodoInv /\ LitsInv /\ InactiveInv /\ LevelsInv
      /\ CurrentInv /\ BoundInv /\ TypeOK
      /\ dl \in Nat /\ todo \subseteq Cons
      /\ clit \in [Cons -> {"free", "true", "false"}] /\ clitLevel \in [Cons -> Nat]
      /\ inactiveLevel \in [Cons -> Nat]
  BY DEF FInv, LInv, SInv, IInv, TypeOK
<1>2. pc = "check" /\ c \in todo /\ ~Stopped
  BY DEF CheckItem, Stopped
<1>3. UNCHANGED <<lower, upper, lowerStack, upperStack, csLower, csUpper, minBound, minLevel, best, dl>>
  BY ItemStep
<1>4. ASSUME NEW d \in Cons
      PROVE  /\ inactiveLevel'[d] = inactiveLevel[d]
                \/ (d = c /\ c # Minimize /\ inactiveLevel'[d] = dl + 1 /\ inactiveLevel' # inactiveLevel)
             /\ \/ clit'[d] = clit[d] /\ clitLevel'[d] = clitLevel[d]
                \/ clit[d] = "free" /\ clitLevel'[d] = dl /\ d = c
             /\ Since(d)' = Since(d) /\ RhsOf(d)' = RhsOf(d) /\ (HasRhs(d)' <=> HasRhs(d))
  <2>1. inactiveLevel'[d] = inactiveLevel[d]
        \/ (d = c /\ c # Minimize /\ inactiveLevel'[d] = dl + 1 /\ inactiveLevel' # inactiveLevel)
    <3>1. CASE inactiveLevel' = inactiveLevel
      BY <3>1
    <3>2. CASE inactiveLevel' # inactiveLevel
      <4>1. c # Minimize /\ inactiveLevel' = [inactiveLevel EXCEPT ![c] = dl + 1]
        BY <3>2, ItemStep
      <4> QED BY <1>1, <3>2, <4>1
    <3> QED BY <3>1, <3>2
  <2>2. \/ clit'[d] = clit[d] /\ clitLevel'[d] = clitLevel[d]
        \/ clit[d] = "free" /\ clitLevel'[d] = dl /\ d = c
    BY <1>1, ItemStep
  <2>3. Since(d)' = Since(d) /\ RhsOf(d)' = RhsOf(d) /\ (HasRhs(d)' <=> HasRhs(d))
    BY <1>3 DEF Since, RhsOf, HasRhs
  <2> QED BY <2>1, <2>2, <2>3
<1>5. (todo' = {} /\ Stopped') \/ (todo' = todo \ {c} /\ pc' = pc)
  BY ItemStep
<1>6. TodoInv'
  <2>1. pc' # "fixpoint" /\ (pc' = "check" \/ todo' = {}) /\ todo' \subseteq todo
    BY <1>2, <1>5 DEF Stopped
  <2>2. Top'.level = Top.level
    BY ItemStep
  <2>3. \A d \in Cons : Marked(d)' => Removable(d)
    BY <1>1, <1>4 DEF TodoInv, Marked, Removable
  <2> QED BY <1>1, <1>2, <1>3, <2>1, <2>2, <2>3 DEF TodoInv, Removable
<1>7. LitsInv'
  BY <1>1, <1>3, <1>4 DEF LitsInv
<1>8. InactiveInv'
  <2>1. ASSUME NEW d \in Cons, Marked(d)'
        PROVE  (Justified(d) \/ (Stopped /\ inactiveLevel[d] = dl + 1))'
    <3>1. CASE inactiveLevel'[d] = inactiveLevel[d]
      <4>1. Marked(d) /\ Justified(d)
        BY <1>1, <1>2, <2>1, <3>1 DEF InactiveInv, Marked
      <4>2. inactiveLevel[d] - 1 <= dl'
        BY <1>1, <1>3, <4>1, InactiveOn
      <4>3. FalseAt(d, inactiveLevel[d] - 1) => clit'[d] = clit[d] /\ clitLevel'[d] = clitLevel[d]
        BY <1>4 DEF FalseAt
      <4> QED BY <1>1, <3>1, <4>1, <4>2, <4>3, JustifiedStays
    <3>2. CASE d = c /\ inactiveLevel'[d] = dl + 1 /\ inactiveLevel' # inactiveLevel
      <4>1. CASE Stopped'
        BY <1>3, <3>2, <4>1
      <4>2. CASE ~Stopped'
        <5>1. (clit'[c] = "false" /\ clitLevel'[c] <= dl) \/ UpperSum(c, lower, upper) <= Rhs[c]
          BY <3>2, <4>2, ItemOutcome
        <5>2. PICK l \in Nat : l = dl /\ inactiveLevel'[c] - 1 = l
          BY <1>1, <3>2
        <5>3. LowerAt(l) = lower /\ UpperAt(l) = upper
          BY <1>1, <5>2, BoundsOnTop
        <5>4. LowerAt(l)' = lower /\ UpperAt(l)' = upper
          BY <1>3, <5>3 DEF LowerAt, UpperAt
        <5>5. UpperSum(c, LowerAt(l), UpperAt(l))' = UpperSum(c, lower, upper)
          BY <5>4 DEF UpperSum, LowerAt, UpperAt
        <5> QED BY <3>2, <5>1, <5>2, <5>5 DEF Justified, FalseAt
      <4> QED BY <4>1, <4>2
    <3> QED BY <1>4, <3>1, <3>2
  <2> QED BY <2>1 DEF InactiveInv
<1>9. LevelsInv'
  <2>1. ASSUME NEW d \in Cons, NEW l \in 0..(dl - 1), HasRhs(d)', Since(d)' <= l
        PROVE  HoldsAt(d, l)'
    <3>1. HoldsAt(d, l)
      BY <1>1, <1>4, <2>1 DEF LevelsInv
    <3>2. FalseAt(d, l) => FalseAt(d, l)'
      BY <1>4 DEF FalseAt
    <3> QED BY <1>4, <3>1, <3>2, HoldsStays
  <2> QED BY <1>3, <2>1 DEF LevelsInv
<1>10. CurrentInv'
  <2>1. ASSUME ~Stopped', NEW d \in Cons, HasRhs(d)', Since(d)' <= dl', d \notin todo', ~Marked(d)'
        PROVE  clit'[d] = "false" \/ csLower'[d] <= RhsOf(d)'
    <3>1. HasRhs(d) /\ RhsOf(d)' = RhsOf(d) /\ Since(d) <= dl /\ csLower'[d] = csLower[d]
      BY <1>3, <1>4, <2>1
    <3>2. CASE d = c
      BY <2>1, <3>1, <3>2, ItemOutcome
    <3>3. CASE d # c
      <4>1. d \notin todo /\ clit'[d] = clit[d] /\ inactiveLevel'[d] = inactiveLevel[d]
        BY <1>4, <1>5, <2>1, <3>3
      <4>2. ~Marked(d)
        BY <2>1, <4>1 DEF Marked
      <4> QED BY <1>1, <1>2, <3>1, <4>1, <4>2 DEF CurrentInv
    <3> QED BY <3>2, <3>3
  <2> QED BY <2>1 DEF CurrentInv
<1>11. BoundInv'
  BY <1>1, <1>2, <1>3 DEF BoundInv
<1> QED BY <1>6, <1>7, <1>8, <1>9, <1>10, <1>11

-----------------------------------------------------------------------------
(* Undoing a level.                                                        *)

\* After a step without pending changes the sums of active constraints are exact.
LEMMA SumsExactAfter ==
    ASSUME SInv', NEW c \in Cons, ~Marked(c)', \A v \in Vars : ldiff'[v] = 0 /\ udiff'[v] = 0
    PROVE  csLower'[c] = LowerSum(c, lower', upper')
<1>1. TypeOK' /\ SumsInv'
  BY DEF SInv, IInv
<1>2. lower' \in [Vars -> Int] /\ upper' \in [Vars -> Int]
  BY <1>1 DEF TypeOK
<1>3. \A v \in Vars : lower'[v] - ldiff'[v] = lower'[v] /\ upper'[v] - udiff'[v] = upper'[v]
  BY <1>2
<1>4. ToldLower(c)' = lower' /\ ToldUpper(c)' = upper'
  BY <1>2, <1>3 DEF ToldLower, ToldUpper, Told, RemovableAt
<1>5. csLower'[c] = LowerSum(c, ToldLower(c), ToldUpper(c))'
  BY <1>1 DEF SumsInv
<1>6. LowerSum(c, ToldLower(c), ToldUpper(c))' = LowerSum(c, ToldLower(c)', ToldUpper(c)')
  BY DEF LowerSum
<1> QED BY <1>4, <1>5, <1>6

\* What undo leaves: marks of lower levels, nothing pending and nothing to do.
LEMMA UndoLeaves ==
    ASSUME SInv, TodoInv, Undo
    PROVE  /\ todo' = {}
           /\ \A v \in Vars : ldiff'[v] = 0 /\ udiff'[v] = 0
           /\ \A c \in Cons : Marked(c)' => /\ Marked(c) /\ inactiveLevel'[c] = inactiveLevel[c]
                                            /\ inactiveLevel[c] - 1 <= dl - 1
<1>1. /\ IInv /\ MarksInv /\ TypeOK /\ LevelsOK(levels) /\ Top.level <= dl /\ dl \in Nat
      /\ inactiveLevel \in [Cons -> Nat]
  BY DEF SInv, IInv, TypeOK, StacksOK
<1>2. dl > 0 /\ pc \in {"conflict", "fixpoint", "propagate"}
  BY DEF Undo
<1>3. CASE HasFrame
  <2>1. UndoFrame
    BY <1>3 DEF Undo
  <2>2. todo' = {}
    BY <2>1 DEF UndoFrame
  <2>3. \A v \in Vars : ldiff'[v] = 0 /\ udiff'[v] = 0
    BY <1>1, <1>2, <1>3, <2>1, UndoBounds
  <2>4. ASSUME NEW c \in Cons, Marked(c)'
        PROVE  /\ Marked(c) /\ inactiveLevel'[c] = inactiveLevel[c]
               /\ inactiveLevel[c] - 1 <= dl - 1
    <3>1. c \notin Top.inactive /\ inactiveLevel'[c] = inactiveLevel[c]
      BY <1>1, <1>2, <1>3, <2>1, <2>4, UndoMarks DEF Marked
    <3>2. Marked(c)
      BY <2>4, <3>1 DEF Marked
    <3>3. PICK i \in 1..Len(levels) : c \in levels[i].inactive /\ inactiveLevel[c] = levels[i].level + 1
      BY <1>1, <3>2 DEF MarksInv
    <3>4. i # Len(levels)
      BY <3>1, <3>3 DEF Top
    <3>5. levels[i].level < Top.level /\ levels[i].level \in Nat /\ Top.level \in Nat
      BY <1>1, <3>4, FramesUpToTop
    <3> QED BY <1>1, <3>1, <3>2, <3>3, <3>5
  <2> QED BY <2>2, <2>3, <2>4
<1>4. CASE ~HasFrame
  <2>1. UNCHANGED <<levels, ldiff, udiff, inactiveLevel, todo>> /\ Top.level # dl
    BY <1>4 DEF Undo, HasFrame, diffVars, todoVars
  <2>2. todo = {}
    BY <1>2, <2>1 DEF TodoInv
  <2>3. \A v \in Vars : ldiff[v] = 0 /\ udiff[v] = 0
    BY <1>1, <2>1, NothingPending
  <2>4. ASSUME NEW c \in Cons, Marked(c)'
        PROVE  Marked(c) /\ inactiveLevel[c] - 1 <= dl - 1
    <3>1. Marked(c)
      BY <2>1, <2>4 DEF Marked
    <3>2. inactiveLevel[c] - 1 <= Top.level /\ inactiveLevel[c] - 1 \in Nat
      BY <3>1, InactiveOn
    <3>3. Top.level \in Nat
      BY <1>1, TopTyped
    <3> QED BY <1>1, <2>1, <3>1, <3>2, <3>3
  <2> QED BY <2>1, <2>2, <2>3, <2>4
<1> QED BY <1>3, <1>4

\* Undoing a level keeps the invariant.
LEMMA UndoKeeps ==
    ASSUME FInv, SInv', BoundsStep, Undo
    PROVE  TodoInv' /\ LitsInv' /\ InactiveInv' /\ LevelsInv' /\ CurrentInv' /\ BoundInv'
<1>1. /\ SInv /\ IInv /\ IInv' /\ BoundsInv /\ TodoInv /\ LitsInv /\ InactiveInv /\ LevelsInv
      /\ BoundInv /\ TypeOK
      /\ dl \in Nat /\ clit \in [Cons -> {"free", "true", "false"}] /\ clitLevel \in [Cons -> Nat]
      /\ inactiveLevel \in [Cons -> Nat]
  BY DEF FInv, LInv, SInv, IInv, TypeOK
<1>2. /\ dl > 0 /\ dl' = dl - 1 /\ pc' = "propagate" /\ UNCHANGED <<minBound, minLevel, best>>
      /\ clit' = [c \in Cons |-> IF clitLevel[c] = dl THEN "free" ELSE clit[c]]
      /\ clitLevel' = [c \in Cons |-> IF clitLevel[c] = dl THEN 0 ELSE clitLevel[c]]
  BY DEF Undo, minVars
<1>3. dl - 1 \in Nat /\ dl - 1 \in 0..(dl - 1)
  BY <1>1, <1>2
<1>4. /\ todo' = {}
      /\ \A v \in Vars : ldiff'[v] = 0 /\ udiff'[v] = 0
      /\ \A c \in Cons : Marked(c)' => /\ Marked(c) /\ inactiveLevel'[c] = inactiveLevel[c]
                                       /\ inactiveLevel[c] - 1 <= dl - 1
  BY <1>1, UndoLeaves
<1>5. ASSUME NEW c \in Cons
      PROVE  Since(c)' = Since(c) /\ RhsOf(c)' = RhsOf(c) /\ (HasRhs(c)' <=> HasRhs(c))
  BY <1>2 DEF Since, RhsOf, HasRhs
<1>6. ASSUME NEW c \in Cons, NEW l \in Nat, l <= dl - 1, FalseAt(c, l)
      PROVE  clit'[c] = clit[c] /\ clitLevel'[c] = clitLevel[c] /\ clit'[c] = "false" /\ clitLevel'[c] <= l
  BY <1>1, <1>2, <1>6 DEF FalseAt
<1>7. TodoInv'
  BY <1>1, <1>2, <1>4 DEF TodoInv, Removable
<1>8. LitsInv'
  BY <1>1, <1>2 DEF LitsInv
<1>9. InactiveInv'
  <2>1. ASSUME NEW c \in Cons, Marked(c)'
        PROVE  Justified(c)'
    <3>1. Marked(c) /\ inactiveLevel'[c] = inactiveLevel[c] /\ inactiveLevel[c] - 1 <= dl - 1
      BY <1>4, <2>1
    <3>2. inactiveLevel[c] - 1 \in Nat
      BY <1>1, <3>1, InactiveOn
    <3>3. Justified(c)
      BY <1>1, <3>1 DEF InactiveInv
    <3>4. FalseAt(c, inactiveLevel[c] - 1) => clit'[c] = clit[c] /\ clitLevel'[c] = clitLevel[c]
      BY <1>6, <3>1, <3>2
    <3> QED BY <1>1, <1>2, <3>1, <3>3, <3>4, JustifiedStays
  <2> QED BY <2>1 DEF InactiveInv
<1>10. LevelsInv'
  <2>1. ASSUME NEW c \in Cons, NEW l \in 0..(dl' - 1), HasRhs(c)', Since(c)' <= l
        PROVE  HoldsAt(c, l)'
    <3>1. l \in 0..(dl - 1) /\ l \in Nat /\ l <= dl - 1
      BY <1>1, <1>2
    <3>2. HoldsAt(c, l)
      BY <1>1, <1>5, <2>1, <3>1 DEF LevelsInv
    <3>3. FalseAt(c, l) => FalseAt(c, l)'
      BY <1>6, <3>1 DEF FalseAt
    <3> QED BY <1>5, <3>1, <3>2, <3>3, HoldsStays
  <2> QED BY <2>1 DEF LevelsInv
<1>11. CurrentInv'
  <2>1. ASSUME NEW c \in Cons, HasRhs(c)', Since(c)' <= dl', ~Marked(c)'
        PROVE  clit'[c] = "false" \/ csLower'[c] <= RhsOf(c)'
    <3>1. PICK l \in Nat : l = dl - 1 /\ l = dl' /\ l \in 0..(dl - 1) /\ l >= dl'
      BY <1>2, <1>3
    <3>2. HoldsAt(c, l)
      BY <1>1, <1>2, <1>5, <2>1, <3>1 DEF LevelsInv
    <3>3. CASE FalseAt(c, l)
      BY <1>6, <3>1, <3>3
    <3>4. CASE LowerSum(c, LowerAt(l), UpperAt(l)) <= RhsOf(c)
      <4>1. LowerAt(l) = lower' /\ UpperAt(l) = upper'
        <5>1. LowerAt(l)' = LowerAt(l) /\ UpperAt(l)' = UpperAt(l)
          BY <3>1 DEF BoundsStep, KeptAt
        <5>2. LowerAt(l)' = lower' /\ UpperAt(l)' = upper'
          BY <1>1, <3>1, CurrentAfter
        <5> QED BY <5>1, <5>2
      <4>2. csLower'[c] = LowerSum(c, lower', upper')
        BY <1>4, <2>1, SumsExactAfter
      <4> QED BY <1>5, <3>4, <4>1, <4>2
    <3> QED BY <3>2, <3>3, <3>4 DEF HoldsAt
  <2> QED BY <2>1 DEF CurrentInv
<1>12. BoundInv'
  BY <1>1, <1>2 DEF BoundInv
<1> QED BY <1>7, <1>8, <1>9, <1>10, <1>11, <1>12

-----------------------------------------------------------------------------
(* The theorems.                                                           *)

\* Initially all constraints are to be propagated.
LEMMA InitLInv ==
    ASSUME Init
    PROVE  LInv
<1>1. BoundsInv
  BY InitBounds
<1>2. /\ dl = 0 /\ pc = "propagate" /\ todo = Cons /\ Top.level = 0
      /\ minBound = NoBound /\ minLevel = 0 /\ best = NoBound
      /\ \A c \in Cons : ~Marked(c) /\ clitLevel[c] = 0
  BY DEF Init, Top, Frame, Marked
<1>3. TodoInv /\ LitsInv /\ InactiveInv
  BY <1>2 DEF TodoInv, LitsInv, InactiveInv
<1>4. LevelsInv
  BY <1>2 DEF LevelsInv
<1>5. CurrentInv /\ BoundInv
  BY <1>2 DEF CurrentInv, BoundInv
<1> QED BY <1>1, <1>3, <1>4, <1>5 DEF LInv

\* Every step keeps the invariant.
LEMMA StepLInv ==
    ASSUME FInv, SInv', [Next]_vars
    PROVE  LInv'
<1>1. IInv /\ IInv' /\ BoundsInv
  BY DEF FInv, LInv, SInv
<1>2. BoundsStep
  BY <1>1, StepsOfBounds
<1>3. BoundsInv'
  BY <1>1, <1>2, BoundsKept
<1>4. TodoInv' /\ LitsInv' /\ InactiveInv' /\ LevelsInv' /\ CurrentInv' /\ BoundInv'
  <2>1. CASE \/ Decide \/ UnitPropagate \/ OtherThread \/ CheckEnd \/ OnModel \/ UNCHANGED vars
             \/ \E l \in queue : PropagateLiteral(l)
             \/ \E c \in Cons : PropagateCons(c)
    BY <1>1, <1>2, <2>1, CalmSteps, CalmKeeps
  <2>2. CASE CheckStart
    BY <1>1, <1>2, <2>2, StartKeeps
  <2>3. CASE \E c \in Cons : CheckItem(c)
    BY <1>1, <1>2, <2>3, ItemKeeps
  <2>4. CASE Undo
    BY <1>2, <2>4, UndoKeeps
  <2> QED BY <2>1, <2>2, <2>3, <2>4 DEF Next
<1> QED BY <1>3, <1>4 DEF LInv

\* The inductive invariant holds in all reachable states, for all constants.
THEOREM FixpointInvariance == Spec => []FInv
<1>1. Init => FInv
  BY InitSums, InitLInv DEF FInv
<1>2. FInv /\ SInv' /\ [Next]_vars => FInv'
  BY StepLInv DEF FInv
<1>3. Spec => []SInv
  BY SumsInvariance
<1> QED BY <1>1, <1>2, <1>3, PTL DEF Spec

\* For every number of levels: a constraint mark_inactive has marked, and
\* check therefore skips, has a false literal or holds for all values left.
THEOREM InactiveIsJustified == Spec => []InactiveJustified
<1>1. FInv => InactiveJustified
  <2> SUFFICES ASSUME FInv, pc # "conflict", pc # "unsat", NEW c \in Cons, Marked(c)
               PROVE  clit[c] = "false" \/ UpperSum(c, lower, upper) <= Rhs[c]
    BY DEF InactiveJustified
  <2>1. SInv /\ BoundsInv /\ Justified(c)
    BY DEF FInv, LInv, InactiveInv, Stopped
  <2> QED BY <2>1, InactiveHolds
<1> QED BY <1>1, FixpointInvariance, PTL

\* When check leaves an empty todo list and clasp may decide, no constraint
\* is violated by the bounds, whatever was undone or skipped before.
THEOREM FixpointsHaveNoViolation == Spec => []NoViolationAtFixpoint
<1>1. FInv => NoViolationAtFixpoint
  BY FixpointHolds DEF NoViolationAtFixpoint
<1> QED BY <1>1, FixpointInvariance, PTL

\* The test check_full makes never throws: at a total assignment the sums of
\* each constraint agree with the values and do not exceed the right side.
THEOREM FullChecksPass == Spec => []FullCheckSucceeds
<1>1. FInv => FullCheckSucceeds
  <2> SUFFICES ASSUME FInv, pc = "fixpoint", Total, NEW c \in Cons, clit[c] = "true", HasRhs(c)
               PROVE  LET lhs == LowerSum(c, lower, upper) IN
                      /\ IF Marked(c) THEN lhs <= csUpper[c] ELSE lhs = csUpper[c] /\ lhs <= csLower[c]
                      /\ lhs <= RhsOf(c)
    BY DEF FullCheckSucceeds
  <2>1. SInv /\ BoundsInv /\ lower \in [Vars -> Int] /\ upper \in [Vars -> Int]
    BY DEF FInv, LInv, SInv, IInv, TypeOK
  <2>2. LowerSum(c, lower, upper) <= RhsOf(c)
    BY FixpointHolds
  <2>3. lower = upper
    BY <2>1 DEF Total
  <2>4. LowerSum(c, lower, upper) = UpperSum(c, lower, upper)
    BY <2>3 DEF LowerSum, UpperSum
  <2>5. LowerSum(c, lower, upper) \in Int /\ csUpper[c] \in Int
        /\ UpperSum(c, lower, upper) <= csUpper[c]
    BY <2>1, SumsEnclose
  <2>6. ~Marked(c) => csLower[c] = LowerSum(c, lower, upper) /\ csUpper[c] = UpperSum(c, lower, upper)
    BY <2>1, SumsExact
  <2> QED BY <2>2, <2>4, <2>5, <2>6
<1> QED BY <1>1, FixpointInvariance, PTL

-----------------------------------------------------------------------------
(* Propagation is sound.                                                   *)

\* The assignment a satisfies the literal.
Holds(a, l) == IF l.kind = "le" THEN a[l.var] <= l.value ELSE a[l.var] > l.value

\* An assignment within the bounds that satisfies a constraint.
Within(a, lo, up) == \A v \in Vars : lo[v] <= a[v] /\ a[v] <= up[v]

\* The room a constraint leaves a variable.
LEMMA RoomOfVariable ==
    ASSUME SInv, BoundsInv, NEW c \in Cons, NEW a \in [Vars -> Int], Within(a, lower, upper),
           NEW r \in Int, LowerSum(c, a, a) <= r, NEW v \in Vars
    PROVE  /\ csLower[c] <= r
           /\ Coef[c][v] > 0 => Coef[c][v] * (a[v] - lower[v]) <= r - csLower[c]
           /\ ~(Coef[c][v] > 0) => Coef[c][v] * (a[v] - upper[v]) <= r - csLower[c]
<1>1. /\ lower \in [Vars -> Int] /\ upper \in [Vars -> Int]
      /\ \A w \in Vars : Coef[c][w] \in Int
  BY CoefAssumption DEF SInv, IInv, TypeOK
<1> DEFINE f == [w \in Vars |-> Coef[c][w] * (IF Coef[c][w] > 0 THEN lower[w] ELSE upper[w])]
           g == [w \in Vars |-> Coef[c][w] * (IF Coef[c][w] > 0 THEN a[w] ELSE a[w])]
<1>2. f \in [Vars -> Int] /\ g \in [Vars -> Int]
  <2>1. \A x, y \in Int : x * y \in Int
    OBVIOUS
  <2> QED BY <1>1, <2>1
<1>3. ASSUME NEW w \in Vars
      PROVE  f[w] <= g[w]
  <2>1. /\ Coef[c][w] \in Int /\ lower[w] \in Int /\ upper[w] \in Int /\ a[w] \in Int
        /\ lower[w] <= a[w] /\ a[w] <= upper[w]
    BY <1>1 DEF Within
  <2>2. /\ Coef[c][w] > 0 => Coef[c][w] * lower[w] <= Coef[c][w] * a[w]
        /\ ~(Coef[c][w] > 0) => Coef[c][w] * upper[w] <= Coef[c][w] * a[w]
    BY <2>1, ProductOrder
  <2> QED BY <2>2
<1>4. /\ LowerSum(c, lower, upper) = Sum(NumVars, f) /\ LowerSum(c, a, a) = Sum(NumVars, g)
      /\ f[v] = Coef[c][v] * (IF Coef[c][v] > 0 THEN lower[v] ELSE upper[v])
      /\ g[v] = Coef[c][v] * a[v]
  BY DEF LowerSum
<1> HIDE DEF f, g
<1>5. Sum(NumVars, f) + (g[v] - f[v]) <= Sum(NumVars, g)
  BY <1>2, <1>3, SumOneTerm, NumVarsAssumption DEF Vars
<1>6. /\ csLower[c] \in Int /\ csLower[c] <= Sum(NumVars, f)
      /\ Sum(NumVars, f) \in Int /\ Sum(NumVars, g) \in Int
      /\ f[v] \in Int /\ g[v] \in Int /\ f[v] <= g[v]
  BY <1>2, <1>3, <1>4, SumsEnclose, SumType, NumVarsAssumption DEF Vars
<1>7. csLower[c] <= r /\ g[v] - f[v] <= r - csLower[c]
  BY <1>4, <1>5, <1>6
<1>8. \A co, x, y \in Int : co * (x - y) = co * x - co * y
  OBVIOUS
<1>9. /\ Coef[c][v] > 0 => Coef[c][v] * (a[v] - lower[v]) = g[v] - f[v]
      /\ ~(Coef[c][v] > 0) => Coef[c][v] * (a[v] - upper[v]) = g[v] - f[v]
  BY <1>1, <1>4, <1>8
<1> QED BY <1>7, <1>9

\* The literal a constraint enforces for a variable follows from it.
LEMMA ConsequenceHolds ==
    ASSUME SInv, BoundsInv, NEW c \in Cons, NEW a \in [Vars -> Int], Within(a, lower, upper),
           NEW r \in Int, LowerSum(c, a, a) <= r,
           NEW v \in Vars, Coef[c][v] # 0, NEW l \in Consequence(c, v, r - csLower[c])
    PROVE  Holds(a, l)
<1> DEFINE co == Coef[c][v]
           slack == r - csLower[c]
<1>1. /\ lower[v] \in Int /\ upper[v] \in Int /\ a[v] \in Int /\ co \in Int /\ csLower[c] \in Int
      /\ co # 0
  BY CoefAssumption DEF SInv, IInv, TypeOK
<1>2. /\ slack \in Nat
      /\ co > 0 => co * (a[v] - lower[v]) <= slack
      /\ ~(co > 0) => co * (a[v] - upper[v]) <= slack
  BY <1>1, RoomOfVariable
<1>3. \A x, p, q \in Int : x > 0 /\ x * p < x * q => p < q
  OBVIOUS
<1>4. CASE co > 0
  <2> DEFINE delta == -floordiv(slack + 1, -co)
             d == a[v] - lower[v]
  <2>1. delta \in Int /\ co * delta >= slack + 1
    <3>1. slack + 1 \in Nat /\ slack + 1 > 0 /\ co \in Nat
      BY <1>1, <1>2, <1>4
    <3> HIDE DEF co, slack
    <3> QED BY <1>4, <3>1, FloorOfNegative
  <2>2. l = [var |-> v, kind |-> "le", value |-> lower[v] + delta - 1]
    BY <1>1, <1>4, <2>1 DEF Consequence
  <2>3. d \in Int /\ co * d <= slack /\ co * d \in Int /\ co * delta \in Int /\ a[v] = lower[v] + d
    <3>1. \A x, y \in Int : x * y \in Int
      OBVIOUS
    <3>2. d \in Int /\ a[v] = lower[v] + d
      BY <1>1
    <3> HIDE DEF delta
    <3> QED BY <1>1, <1>2, <1>4, <2>1, <3>1, <3>2
  <2> HIDE DEF delta, d, co, slack
  <2>4. co * d < co * delta
    BY <1>2, <2>1, <2>3
  <2>5. d < delta
    BY <1>1, <1>3, <1>4, <2>1, <2>3, <2>4
  <2>6. a[v] <= lower[v] + delta - 1
    BY <1>1, <2>1, <2>3, <2>5
  <2> QED BY <2>2, <2>6 DEF Holds
<1>5. CASE ~(co > 0)
  <2> DEFINE e == -co
             delta == floordiv(slack + 1, co)
             d == a[v] - upper[v]
  <2>1. e \in Nat /\ e > 0 /\ co = -e
    BY <1>1, <1>5
  <2>2. delta \in Int /\ e * (-delta) >= slack + 1
    <3>1. slack + 1 \in Nat /\ slack + 1 > 0
      BY <1>2
    <3> HIDE DEF co, slack, e
    <3> QED BY <2>1, <3>1, FloorOfNegative
  <2>3. l = [var |-> v, kind |-> "gt", value |-> upper[v] + delta]
    BY <1>5 DEF Consequence
  <2>4. d \in Int /\ a[v] = upper[v] + d /\ e * (-d) <= slack
    <3>1. d \in Int /\ a[v] = upper[v] + d /\ co * d <= slack
      BY <1>1, <1>2, <1>5
    <3>2. \A x, y \in Int : x * (-y) = (-x) * y
      OBVIOUS
    <3>3. e * (-d) = co * d
      <4> HIDE DEF co, e, d
      <4>1. e * (-d) = (-e) * d
        BY <2>1, <3>1, <3>2
      <4> QED BY <2>1, <4>1
    <3> QED BY <3>1, <3>3
  <2> HIDE DEF delta, d, co, slack, e
  <2>5. e * (-d) < e * (-delta)
    <3>1. \A x, y \in Int : x * y \in Int
      OBVIOUS
    <3>2. e * (-d) \in Int /\ e * (-delta) \in Int
      BY <2>1, <2>2, <2>4, <3>1
    <3> QED BY <1>2, <2>2, <2>4, <3>2
  <2>6. -d < -delta
    BY <1>3, <2>1, <2>2, <2>4, <2>5
  <2>7. a[v] > upper[v] + delta
    BY <1>1, <2>2, <2>4, <2>6
  <2> QED BY <2>3, <2>7 DEF Holds
<1> QED BY <1>4, <1>5

\* New literals are consequences of the constraint that is propagated.
LEMMA NewLiterals ==
    ASSUME NEW c \in Cons, CheckItem(c), NEW l \in queue', l \notin queue
    PROVE  /\ HasRhs(c)
           /\ \E v \in Vars : Coef[c][v] # 0 /\ l \in Consequence(c, v, RhsOf(c) - csLower[c])
<1>1. Enforce(c) /\ queue' = queue \union Consequences(c)
  BY DEF CheckItem, SkipFalse, SkipOpen, Satisfied, Violated, Enforce
<1> QED BY <1>1 DEF Enforce, Consequences

\* The clauses propagate adds are sound: each literal it makes true follows
\* from the constraint and the current bounds, also with pending changes.
THEOREM PropagationIsSound == Spec => ConsequencesEntailed
<1>1. FInv /\ [Next]_vars =>
        [\A c \in Cons : CheckItem(c) => \A l \in queue' \ queue : Entails(c, l)]_vars
  <2> SUFFICES ASSUME FInv, NEW c \in Cons, CheckItem(c), NEW l \in queue' \ queue
               PROVE  Entails(c, l)
    OBVIOUS
  <2>1. SInv /\ BoundsInv /\ lower \in [Vars -> Int] /\ upper \in [Vars -> Int] /\ TypeOK
    BY DEF FInv, LInv, SInv, IInv, TypeOK
  <2>2. PICK v \in Vars : Coef[c][v] # 0 /\ l \in Consequence(c, v, RhsOf(c) - csLower[c])
    BY NewLiterals
  <2>3. RhsOf(c) \in Int
    BY <2>1, NewLiterals, RhsTyped
  <2>4. ASSUME NEW a \in [Vars -> UNION {lower[w]..upper[w] : w \in Vars}],
               \A w \in Vars : a[w] \in lower[w]..upper[w], LowerSum(c, a, a) <= RhsOf(c)
        PROVE  IF l.kind = "le" THEN a[l.var] <= l.value ELSE a[l.var] > l.value
    <3>1. \A w \in Vars : a[w] \in Int /\ lower[w] <= a[w] /\ a[w] <= upper[w]
      BY <2>1, <2>4
    <3>2. a \in [Vars -> Int] /\ Within(a, lower, upper)
      BY <3>1 DEF Within
    <3>3. Holds(a, l)
      BY <2>1, <2>2, <2>3, <2>4, <3>2, ConsequenceHolds
    <3> QED BY <3>3 DEF Holds
  <2> QED BY <2>4 DEF Entails
<1> QED BY <1>1, FixpointInvariance, PTL DEF Spec, ConsequencesEntailed

-----------------------------------------------------------------------------
(* A conflict on the top level refutes the program.                        *)

\* Only facts are true on the top level.
FactsInv == \A c \in Cons : clit[c] = "true" /\ clitLevel[c] = 0 => c \in Facts

\* Solutions that beat the bound are within the bounds of the top level and
\* satisfy the literals to be propagated there.
SolutionsInv ==
    \A a \in Solutions(best) : /\ Within(a, LowerAt(0), UpperAt(0))
                               /\ dl = 0 => \A l \in queue : Holds(a, l)
                               /\ pc # "unsat"

\* Solutions are assignments.
LEMMA SolutionTyped ==
    ASSUME NEW b, NEW a \in Solutions(b)
    PROVE  /\ a \in [Vars -> Int]
           /\ \A c \in Facts : LowerSum(c, a, a) <= IF c # Minimize THEN Rhs[c]
                                                     ELSE IF b = NoBound THEN LowerSum(c, a, a) ELSE b
<1>1. \A v \in Vars : a[v] \in InitLower[v]..InitUpper[v] /\ InitLower[v] \in Int /\ InitUpper[v] \in Int
  BY BoundsAssumption DEF Solutions
<1>2. a \in [Vars -> UNION {InitLower[v]..InitUpper[v] : v \in Vars}]
  BY DEF Solutions
<1> QED BY <1>1, <1>2 DEF Solutions

\* A better bound leaves no new ones.
LEMMA FewerSolutions ==
    ASSUME best \in Int \union {NoBound}, NEW b \in Int, Improves(b, best)
    PROVE  Solutions(b) \subseteq Solutions(best)
<1>1. SUFFICES ASSUME NEW a \in Solutions(b)
               PROVE  a \in Solutions(best)
  OBVIOUS
<1>2. ASSUME NEW c \in Facts
      PROVE  LowerSum(c, a, a) <= IF c # Minimize THEN Rhs[c]
                                   ELSE IF best = NoBound THEN LowerSum(c, a, a) ELSE best
  <2>1. LowerSum(c, a, a) \in Int
    BY SolutionTyped, SumsTyped, FactsAssumption
  <2>2. b # NoBound
    BY ObjectivesAssumption
  <2>3. LowerSum(c, a, a) <= IF c # Minimize THEN Rhs[c] ELSE b
    BY <2>2, SolutionTyped
  <2> QED BY <2>1, <2>3 DEF Improves
<1> QED BY <1>2 DEF Solutions

\* On the top level solutions satisfy the constraints that are true.
LEMMA TrueOnTop ==
    ASSUME FInv, FactsInv, dl = 0, NEW a \in Solutions(best), NEW c \in Cons,
           clit[c] = "true", HasRhs(c)
    PROVE  LowerSum(c, a, a) <= RhsOf(c)
<1>1. /\ clitLevel[c] \in Nat /\ clitLevel[c] <= 0 /\ BoundInv
      /\ best \in Int \union {NoBound} /\ minBound \in Int \union {NoBound}
  BY DEF FInv, LInv, SInv, IInv, TypeOK, LitsInv
<1>2. c \in Facts
  BY <1>1 DEF FactsInv
<1>3. LowerSum(c, a, a) <= IF c # Minimize THEN Rhs[c]
                           ELSE IF best = NoBound THEN LowerSum(c, a, a) ELSE best
  BY <1>2, SolutionTyped
<1>4. LowerSum(c, a, a) \in Int
  BY SolutionTyped, SumsTyped
<1>5. CASE c # Minimize
  BY <1>3, <1>5 DEF RhsOf
<1>6. CASE c = Minimize
  <2>1. minBound # NoBound /\ RhsOf(c) = minBound
    BY <1>6 DEF HasRhs, RhsOf
  <2>2. best # NoBound /\ best <= minBound
    BY <1>1, <2>1 DEF BoundInv
  <2> QED BY <1>1, <1>3, <1>4, <1>6, <2>1, <2>2
<1> QED BY <1>5, <1>6

\* Items of the todo list on the top level.
LEMMA ItemOnTop ==
    ASSUME FInv, FactsInv, SolutionsInv, dl = 0, NEW a \in Solutions(best),
           NEW c \in Cons, CheckItem(c)
    PROVE  (\A l \in queue' : Holds(a, l)) /\ pc' # "unsat"
<1>1. /\ SInv /\ BoundsInv /\ IInv /\ TypeOK /\ a \in [Vars -> Int]
      /\ lower \in [Vars -> Int] /\ upper \in [Vars -> Int]
  BY SolutionTyped DEF FInv, LInv, SInv, IInv, TypeOK
<1>2. Within(a, lower, upper)
  <2>1. LowerAt(0) = lower /\ UpperAt(0) = upper
    BY <1>1, BoundsOnTop
  <2> QED BY <2>1 DEF SolutionsInv
<1>3. \A l \in queue : Holds(a, l)
  BY DEF SolutionsInv
<1>4. ASSUME clit[c] = "true", HasRhs(c)
      PROVE  /\ RhsOf(c) \in Int /\ csLower[c] \in Int /\ csLower[c] <= RhsOf(c)
             /\ \A l \in Consequences(c) : Holds(a, l)
  <2>1. RhsOf(c) \in Int /\ LowerSum(c, a, a) <= RhsOf(c)
    BY <1>1, <1>4, RhsTyped, TrueOnTop
  <2>2. csLower[c] \in Int /\ LowerSum(c, lower, upper) \in Int /\ csLower[c] <= LowerSum(c, lower, upper)
    BY <1>1, SumsEnclose
  <2>3. LowerSum(c, lower, upper) <= LowerSum(c, a, a)
    <3>1. Narrows(lower, upper, a, a)
      <4>1. \A v \in Vars : a[v] \in Int
        BY <1>1
      <4> QED BY <1>2, <4>1 DEF Narrows, Within
    <3> QED BY <1>1, <3>1, NarrowSums
  <2>4. LowerSum(c, a, a) \in Int
    BY <1>1, SumsTyped
  <2>5. \A l \in Consequences(c) : Holds(a, l)
    BY <1>1, <1>2, <2>1, ConsequenceHolds DEF Consequences
  <2> QED BY <2>1, <2>2, <2>3, <2>4, <2>5
<1>5. ASSUME clit[c] = "true", HasRhs(c), MayFail(Consequences(c))
      PROVE  FALSE
  <2>1. PICK l \in Consequences(c), k \in queue : l.var = k.var /\ l.value = k.value /\ l.kind # k.kind
    BY <1>5 DEF MayFail
  <2>2. Holds(a, l) /\ Holds(a, k)
    BY <1>3, <1>4, <1>5, <2>1
  <2>3. /\ l.kind \in {"le", "gt"} /\ k.kind \in {"le", "gt"}
        /\ k.var \in Vars /\ k.value \in Int
    <3>1. k \in Literals
      BY <1>1 DEF TypeOK
    <3>2. l.kind \in {"le", "gt"}
      BY DEF Consequences, Consequence
    <3> QED BY <3>1, <3>2 DEF Literals
  <2>4. a[k.var] \in Int
    BY <1>1, <2>3
  <2> QED BY <2>1, <2>2, <2>3, <2>4 DEF Holds
<1>6. pc = "check"
  BY DEF CheckItem
<1>7. pc' # "unsat"
  <2>1. CASE DoneItem(c)
    BY <1>6, <2>1 DEF DoneItem
  <2>2. CASE Violated(c)
    <3>1. DoneItem(c) \/ (clit[c] = "true" /\ HasRhs(c) /\ Slack(c) < 0)
      BY <2>2 DEF Violated
    <3> QED BY <1>4, <2>1, <3>1 DEF Slack
  <2>3. CASE Enforce(c)
    <3>1. DoneItem(c) \/ (clit[c] = "true" /\ HasRhs(c) /\ MayFail(Consequences(c)))
      BY <2>3 DEF Enforce
    <3> QED BY <1>5, <2>1, <3>1
  <2> QED BY <2>1, <2>2, <2>3 DEF CheckItem, SkipFalse, SkipOpen, Satisfied
<1>8. \A l \in queue' : Holds(a, l)
  <2>1. queue' = queue \/ (clit[c] = "true" /\ HasRhs(c) /\ queue' = queue \union Consequences(c))
    BY DEF CheckItem, SkipFalse, SkipOpen, Satisfied, Violated, Enforce
  <2> QED BY <1>3, <1>4, <2>1
<1> QED BY <1>7, <1>8

\* Literals on the top level.
LEMMA LiteralOnTop ==
    ASSUME FInv, SolutionsInv, dl = 0, NEW a \in Solutions(best),
           NEW l \in queue, PropagateLiteral(l)
    PROVE  Within(a, lower', upper') /\ pc' # "unsat"
<1>1. /\ IInv /\ a \in [Vars -> Int] /\ lower \in [Vars -> Int] /\ upper \in [Vars -> Int]
      /\ l.var \in Vars /\ l.value \in Int /\ l.kind \in {"le", "gt"}
  BY SolutionTyped DEF FInv, LInv, SInv, IInv, TypeOK, Literals
<1>2. Within(a, lower, upper) /\ Holds(a, l) /\ pc # "unsat"
  <2>1. LowerAt(0) = lower /\ UpperAt(0) = upper
    BY <1>1, BoundsOnTop
  <2> QED BY <2>1 DEF SolutionsInv
<1>3. /\ a[l.var] \in Int /\ lower[l.var] <= a[l.var] /\ a[l.var] <= upper[l.var]
      /\ lower[l.var] \in Int /\ upper[l.var] \in Int
  BY <1>1, <1>2 DEF Within
<1>4. ~Crosses(l)
  BY <1>1, <1>2, <1>3 DEF Crosses, Holds
<1>5. UNCHANGED pc
  BY <1>4 DEF PropagateLiteral
<1>6. CASE UNCHANGED boundVars
  BY <1>2, <1>5, <1>6 DEF Within, boundVars
<1>7. CASE l.kind = "le" /\ UpdateUpper(l.var, l.value)
  <2>1. upper' = [upper EXCEPT ![l.var] = l.value] /\ lower' = lower
    BY <1>7 DEF UpdateUpper
  <2>2. a[l.var] <= l.value
    BY <1>2, <1>7 DEF Holds
  <2> QED BY <1>1, <1>2, <1>5, <2>1, <2>2 DEF Within
<1>8. CASE l.kind = "gt" /\ UpdateLower(l.var, l.value)
  <2>1. lower' = [lower EXCEPT ![l.var] = l.value + 1] /\ upper' = upper
    BY <1>8 DEF UpdateLower
  <2>2. l.value + 1 <= a[l.var]
    BY <1>1, <1>2, <1>3, <1>8 DEF Holds
  <2> QED BY <1>1, <1>2, <1>5, <2>1, <2>2 DEF Within
<1> QED BY <1>1, <1>4, <1>6, <1>7, <1>8 DEF PropagateLiteral

\* Every step keeps facts the only true constraints of the top level.
LEMMA StepFacts ==
    ASSUME FInv, FactsInv, [Next]_vars
    PROVE  FactsInv'
<1>1. dl \in Nat /\ clit \in [Cons -> {"free", "true", "false"}] /\ clitLevel \in [Cons -> Nat]
  BY DEF FInv, SInv, IInv, TypeOK
<1>2. CASE UNCHANGED litVars
  BY <1>2 DEF FactsInv, litVars
<1>3. CASE \E c \in Cons, level \in Nat : level > 0 /\ AssignCons(c, level)
  BY <1>1, <1>3 DEF FactsInv, AssignCons
<1>4. CASE \E c \in Cons : CheckItem(c)
  <2>1. PICK c \in Cons : CheckItem(c)
    BY <1>4
  <2>2. \/ clit' = clit /\ clitLevel' = clitLevel
        \/ clit' = [clit EXCEPT ![c] = "false"] /\ clitLevel' = [clitLevel EXCEPT ![c] = dl]
    BY <2>1, ItemStep
  <2> QED BY <1>1, <2>2 DEF FactsInv
<1>5. CASE Undo
  BY <1>1, <1>5 DEF FactsInv, Undo
<1>6. CASE Decide
  <2>1. dl + 1 \in Nat /\ dl + 1 > 0
    BY <1>1
  <2> QED BY <1>2, <1>3, <1>6, <2>1 DEF Decide, AssignLiteral
<1>7. CASE UnitPropagate
  BY <1>1, <1>2, <1>3, <1>7 DEF UnitPropagate, AssignLiteral
<1>8. CASE \/ OtherThread \/ CheckStart \/ CheckEnd \/ OnModel \/ UNCHANGED vars
           \/ \E l \in queue : PropagateLiteral(l)
           \/ \E c \in Cons : PropagateCons(c)
  BY <1>2, <1>8 DEF OtherThread, CheckStart, CheckEnd, OnModel, PropagateLiteral, PropagateCons, vars, litVars
<1> QED BY <1>4, <1>5, <1>6, <1>7, <1>8 DEF Next

\* No step loses a solution that beats the bound.
LEMMA StepSolutions ==
    ASSUME FInv, IInv', FactsInv, SolutionsInv, [Next]_vars
    PROVE  SolutionsInv'
<1>1. IInv /\ BoundsInv /\ TypeOK /\ TypeOK' /\ dl \in Nat /\ dl' \in Nat
      /\ best \in Int \union {NoBound}
  BY DEF FInv, LInv, SInv, IInv, TypeOK
<1>2. BoundsStep
  BY <1>1, StepsOfBounds
<1>3. Solutions(best') \subseteq Solutions(best)
  <2>1. CASE best' = best
    BY <2>1
  <2>2. CASE \E b \in Objectives : Improves(b, best) /\ best' = b
    BY <1>1, <2>2, FewerSolutions, ObjectivesAssumption
  <2>3. CASE Minimize \in Cons /\ Improves(Cost - 1, best) /\ best' = Cost - 1
    <3>1. Cost \in Int
      BY <1>1, <2>3, SumsTyped DEF Cost, TypeOK
    <3>2. Cost - 1 \in Int
      BY <3>1
    <3> QED BY <1>1, <2>3, <3>2, FewerSolutions
  <2>4. best' = best \/ OtherThread \/ OnModel
    BY DEF Next, Decide, UnitPropagate, PropagateLiteral, PropagateCons, CheckStart, CheckItem,
           CheckEnd, Undo, vars
  <2> QED BY <2>1, <2>2, <2>3, <2>4 DEF OtherThread, OnModel
<1>4. SUFFICES ASSUME NEW a \in Solutions(best)
               PROVE  /\ Within(a, LowerAt(0)', UpperAt(0)')
                      /\ dl' = 0 => \A l \in queue' : Holds(a, l)
                      /\ pc' # "unsat"
  <2>1. Solutions(best)' = Solutions(best')
    BY DEF Solutions, LowerSum
  <2> QED BY <1>3, <2>1 DEF SolutionsInv
<1>5. /\ Within(a, LowerAt(0), UpperAt(0)) /\ pc # "unsat"
      /\ dl = 0 => \A l \in queue : Holds(a, l)
  BY DEF SolutionsInv
<1>6. dl = 0 => Within(a, lower, upper)
  BY <1>1, <1>5, BoundsOnTop
<1>7. dl > 0 => Within(a, LowerAt(0)', UpperAt(0)')
  <2>1. dl > 0 => 0 \in 0..(dl - 1)
    BY <1>1
  <2> QED BY <1>2, <1>5, <2>1 DEF BoundsStep, KeptAt
<1>8. UNCHANGED boundVars => Within(a, LowerAt(0)', UpperAt(0)')
  <2>1. UNCHANGED boundVars => LowerAt(0)' = LowerAt(0) /\ UpperAt(0)' = UpperAt(0)
    BY DEF LowerAt, UpperAt, boundVars
  <2> QED BY <1>5, <2>1
<1>9. CASE Decide
  <2>1. dl' # 0 /\ pc' # "unsat" /\ UNCHANGED boundVars
    BY <1>1, <1>9 DEF Decide
  <2> QED BY <1>8, <2>1
<1>10. CASE Undo
  <2>1. dl > 0 /\ queue' = {} /\ pc' # "unsat"
    BY <1>10 DEF Undo
  <2> QED BY <1>7, <2>1
<1>11. CASE \E l \in queue : PropagateLiteral(l)
  <2>1. PICK l \in queue : PropagateLiteral(l)
    BY <1>11
  <2>2. dl' = dl /\ queue' \subseteq queue
    BY <2>1 DEF PropagateLiteral
  <2>3. CASE dl = 0
    <3>1. Within(a, lower', upper') /\ pc' # "unsat"
      BY <2>1, <2>3, LiteralOnTop
    <3>2. LowerAt(0)' = lower' /\ UpperAt(0)' = upper'
      BY <1>1, <2>2, <2>3, CurrentAfter
    <3> QED BY <1>5, <2>2, <2>3, <3>1, <3>2
  <2>4. CASE dl > 0
    <3>1. pc' # "unsat"
      BY <1>5, <2>1, <2>4 DEF PropagateLiteral, ConflictPc
    <3> QED BY <1>7, <2>2, <2>4, <3>1
  <2> QED BY <1>1, <2>3, <2>4
<1>12. CASE \E c \in Cons : CheckItem(c)
  <2>1. PICK c \in Cons : CheckItem(c)
    BY <1>12
  <2>2. dl' = dl /\ UNCHANGED boundVars
    BY <2>1 DEF CheckItem
  <2>3. CASE dl = 0
    <3>1. (\A l \in queue' : Holds(a, l)) /\ pc' # "unsat"
      BY <2>1, <2>3, ItemOnTop
    <3> QED BY <1>8, <2>2, <3>1
  <2>4. CASE dl > 0
    <3>1. pc' # "unsat"
      BY <1>5, <2>1, <2>4 DEF CheckItem, SkipFalse, SkipOpen, Satisfied, Violated, Enforce,
                             FailItem, DoneItem, ConflictPc
    <3> QED BY <1>7, <2>2, <2>4, <3>1
  <2> QED BY <1>1, <2>3, <2>4
<1>13. CASE UnitPropagate
  <2>1. dl > 0 /\ dl' = dl /\ pc' = pc
    BY <1>13 DEF UnitPropagate
  <2> QED BY <1>5, <1>7, <2>1
<1>14. CASE \/ OtherThread \/ CheckStart \/ CheckEnd \/ OnModel \/ UNCHANGED vars
            \/ \E c \in Cons : PropagateCons(c)
  <2>1. UNCHANGED <<boundVars, dl, queue>> /\ pc' # "unsat"
    BY <1>5, <1>14 DEF OtherThread, CheckStart, CheckEnd, OnModel, PropagateCons, vars
  <2> QED BY <1>5, <1>8, <2>1
<1> QED BY <1>9, <1>10, <1>11, <1>12, <1>13, <1>14 DEF Next

\* The search ends on the top level only if no assignment satisfies the facts
\* and beats the best bound reported, by this thread or by another.
THEOREM UnsatIsCorrect == Spec => []UnsatCorrect
<1>1. Init => FactsInv /\ SolutionsInv
  <2> SUFFICES ASSUME Init
               PROVE  FactsInv /\ SolutionsInv
    OBVIOUS
  <2>1. FactsInv
    BY DEF Init, FactsInv
  <2>2. IInv /\ dl = 0 /\ lower = InitLower /\ upper = InitUpper /\ queue = {} /\ pc = "propagate"
    BY InitInv DEF Init
  <2>3. LowerAt(0) = InitLower /\ UpperAt(0) = InitUpper
    BY <2>2, BoundsOnTop
  <2>4. \A a \in Solutions(best) : Within(a, InitLower, InitUpper)
    BY BoundsAssumption DEF Solutions, Within
  <2> QED BY <2>1, <2>2, <2>3, <2>4 DEF SolutionsInv
<1>2. FInv /\ FInv' /\ FactsInv /\ SolutionsInv /\ [Next]_vars => FactsInv' /\ SolutionsInv'
  BY StepFacts, StepSolutions DEF FInv, SInv
<1>3. SolutionsInv => UnsatCorrect
  BY DEF SolutionsInv, UnsatCorrect
<1> QED BY <1>1, <1>2, <1>3, FixpointInvariance, PTL DEF Spec
=============================================================================
