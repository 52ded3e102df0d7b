---------------------------- MODULE SelectProofs ----------------------------
(***************************************************************************)
(* The engine's run of a SELECT (SelectStatement) never turns in a circle: *)
(* every step that is not another connection's write is towards the        *)
(* answer.                                                                 *)
(*                                                                         *)
(* The measure is the one EngineProgresses names: arms answered, phase     *)
(* within the arm, steps left of the phase.  That it is a natural number   *)
(* needs what the phases keep true of their counters, which is IInv: an    *)
(* arm is in "anchors" or "rounds" only over a recursive CTE, its turn is  *)
(* at most one past the last anchor or recursive arm, and the depth stays  *)
(* within maxRecursionDepth.  Nothing is needed of the rows themselves.    *)
(***************************************************************************)
EXTENDS SelectStatement, TLAPS

ListOf(s) == s \in Seq({s[i] : i \in DOMAIN s})

(* the counters of the phase the arm is in *)
AnchorsInv == pc = "anchors" => IsRecursiveCTE /\ turn \in 1..(Len(Cte.anchors) + 1)
RoundsInv  ==
  pc = "rounds" => IsRecursiveCTE /\ turn \in 1..(Len(Cte.recs) + 1) /\ depth \in 0..maxRecursionDepth

IInv ==
  /\ q \in Statements
  /\ pc \in {"arms", "anchors", "rounds", "done"}
  /\ ListOf(armRows)
  /\ writes \in Nat
  /\ AnchorsInv
  /\ RoundsInv

-----------------------------------------------------------------------------
LEMMA SeqListed ==
  ASSUME NEW S, NEW s \in Seq(S)
  PROVE  ListOf(s)
<1> DEFINE R == {s[i] : i \in DOMAIN s}
<1>1. Len(s) \in Nat /\ DOMAIN s = 1..Len(s)
  OBVIOUS
<1>2. \A i \in 1..Len(s) : s[i] \in R
  BY <1>1
<1>3. s \in Seq(R)
  <2> HIDE DEF R
  <2> QED BY <1>2
<1> QED BY <1>3 DEF ListOf

(* one answer more is a list one longer *)
LEMMA ListAppend ==
  ASSUME NEW s, ListOf(s), NEW x
  PROVE  ListOf(Append(s, x)) /\ Len(s) \in Nat /\ Len(Append(s, x)) = Len(s) + 1
<1> DEFINE S == {s[i] : i \in DOMAIN s}
           a == Append(s, x)
<1>1. s \in Seq(S \cup {x}) /\ Len(s) \in Nat
  BY DEF ListOf
<1>2. a \in Seq(S \cup {x}) /\ Len(a) = Len(s) + 1
  BY <1>1
<1>3. ListOf(a)
  <2> HIDE DEF a
  <2> QED BY <1>2, SeqListed
<1> QED BY <1>1, <1>2, <1>3

(* a list of a recursive CTE's has a length *)
LEMMA CteLengths ==
  ASSUME q \in Statements, IsRecursiveCTE
  PROVE  Len(Cte.anchors) \in Nat /\ Len(Cte.recs) \in Nat
<1> DEFINE c == Source
<1>1. c \in DOMAIN q.ctes
  BY DEF IsRecursiveCTE, IsCte
<1>2. {Len(q.ctes[c].anchors), Len(q.ctes[c].recs)} \subseteq Nat
  <2> HIDE DEF c
  <2> QED BY <1>1, StatementAssumption
<1> QED BY <1>2 DEF Cte

(* a round that is over takes its arms off what is left *)
LEMMA OneRoundLess ==
  ASSUME NEW a \in Nat, NEW b \in Nat, a > 0
  PROVE  (a - 1) * (b + 1) + b + 1 - 1 = a * (b + 1) - 1
  OBVIOUS

(* and an arm that has run takes itself off *)
LEMMA OneArmLess ==
  ASSUME NEW rounds \in Nat, NEW n \in Nat, NEW t \in Nat, t <= n,
         NEW l, l = rounds + n + 1 - t, NEW m, m = rounds + n + 1 - (t + 1)
  PROVE  m \in 0..(l - 1)
  OBVIOUS

LEMMA RoundsLeft ==
  ASSUME NEW a \in Nat, NEW b \in Nat
  PROVE  a * (b + 1) \in Nat /\ (a > 0 => a * (b + 1) > 0)
  OBVIOUS

-----------------------------------------------------------------------------
(* what an arm is over depends on the arm and the statement alone *)
LEMMA SameArm ==
  ASSUME q' = q, armRows' = armRows
  PROVE  /\ (IsRecursiveCTE)' <=> IsRecursiveCTE
         /\ (Cte)' = Cte
  BY DEF IsRecursiveCTE, IsCte, Cte, Source, Arm

LEMMA InitHolds == Init => IInv
<1> SUFFICES ASSUME Init PROVE IInv
  OBVIOUS
<1>1. ListOf(armRows)
  <2>1. <<>> \in Seq(STRING)
    OBVIOUS
  <2> QED BY <2>1, SeqListed DEF Init
<1> QED BY <1>1 DEF Init, IInv, AnchorsInv, RoundsInv

LEMMA RunArmKeeps == IInv /\ RunArm => IInv'
<1> SUFFICES ASSUME IInv, RunArm PROVE IInv'
  OBVIOUS
<1>1. ListOf(armRows)'
  <2> PICK x : armRows' = Append(armRows, x)
    BY DEF RunArm, Answered
  <2> QED BY ListAppend DEF IInv, ListOf
<1> QED BY <1>1 DEF IInv, RunArm, AnchorsInv, RoundsInv

LEMMA StartRecursionKeeps == IInv /\ StartRecursion => IInv'
<1> SUFFICES ASSUME IInv, StartRecursion PROVE IInv'
  OBVIOUS
<1>1. q' = q /\ armRows' = armRows /\ turn' = 1 /\ pc' = "anchors" /\ IsRecursiveCTE
  BY DEF StartRecursion
<1>2. AnchorsInv'
  <2>1. Len(Cte.anchors) \in Nat
    BY CteLengths DEF IInv, StartRecursion
  <2>2. 1 \in 1..(Len(Cte.anchors) + 1)
    BY <2>1
  <2> QED BY <1>1, <2>2, SameArm DEF AnchorsInv
<1> QED BY <1>1, <1>2 DEF IInv, StartRecursion, RoundsInv, ListOf

LEMMA RunAnchorKeeps == IInv /\ RunAnchor => IInv'
<1> SUFFICES ASSUME IInv, RunAnchor PROVE IInv'
  OBVIOUS
<1>1. q' = q /\ armRows' = armRows /\ turn' = turn + 1 /\ pc' = pc /\ pc = "anchors"
  BY DEF RunAnchor
<1>2. AnchorsInv'
  <2>1. IsRecursiveCTE /\ turn \in Nat /\ turn <= Len(Cte.anchors) /\ turn >= 1
    BY CteLengths DEF IInv, RunAnchor, AnchorsInv
  <2>2. Len(Cte.anchors) \in Nat
    BY <2>1, CteLengths DEF IInv
  <2>3. turn + 1 \in 1..(Len(Cte.anchors) + 1)
    BY <2>1, <2>2
  <2> QED BY <1>1, <2>1, <2>3, SameArm DEF AnchorsInv
<1> QED BY <1>1, <1>2 DEF IInv, RunAnchor, RoundsInv, ListOf

LEMMA AnchorsDoneKeeps == IInv /\ AnchorsDone => IInv'
<1> SUFFICES ASSUME IInv, AnchorsDone PROVE IInv'
  OBVIOUS
<1>1. q' = q /\ armRows' = armRows /\ turn' = 1 /\ depth' = 0 /\ pc' = "rounds" /\ IsRecursiveCTE
  BY DEF AnchorsDone, IInv, AnchorsInv
<1>2. RoundsInv'
  <2>1. Len(Cte.recs) \in Nat /\ maxRecursionDepth \in Nat
    BY <1>1, CteLengths, StatementAssumption DEF IInv
  <2>2. 1 \in 1..(Len(Cte.recs) + 1) /\ 0 \in 0..maxRecursionDepth
    BY <2>1
  <2> QED BY <1>1, <2>2, SameArm DEF RoundsInv
<1> QED BY <1>1, <1>2 DEF IInv, AnchorsDone, AnchorsInv, ListOf

LEMMA RunRecursiveArmKeeps == IInv /\ RunRecursiveArm => IInv'
<1> SUFFICES ASSUME IInv, RunRecursiveArm PROVE IInv'
  OBVIOUS
<1>1. /\ q' = q /\ armRows' = armRows /\ turn' = turn + 1 /\ depth' = depth
      /\ pc' = pc /\ pc = "rounds" /\ IsRecursiveCTE
  BY DEF RunRecursiveArm, IInv, RoundsInv
<1>2. RoundsInv'
  <2>1. Len(Cte.recs) \in Nat
    BY <1>1, CteLengths DEF IInv
  <2>2. turn \in Nat /\ turn <= Len(Cte.recs) /\ depth \in 0..maxRecursionDepth
    BY <2>1, <1>1 DEF IInv, RunRecursiveArm, RoundsInv
  <2>3. turn + 1 \in 1..(Len(Cte.recs) + 1)
    BY <2>1, <2>2
  <2> QED BY <1>1, <2>2, <2>3, SameArm DEF RoundsInv
<1> QED BY <1>1, <1>2 DEF IInv, RunRecursiveArm, AnchorsInv, ListOf

LEMMA RoundDoneKeeps == IInv /\ RoundDone => IInv'
<1> SUFFICES ASSUME IInv, RoundDone PROVE IInv'
  OBVIOUS
<1>1. /\ q' = q /\ armRows' = armRows /\ turn' = 1 /\ depth' \in {depth, depth + 1}
      /\ pc' = pc /\ pc = "rounds" /\ IsRecursiveCTE /\ depth < maxRecursionDepth
  BY DEF RoundDone, Recursing, IInv, RoundsInv
<1>2. RoundsInv'
  <2>1. Len(Cte.recs) \in Nat /\ maxRecursionDepth \in Nat
    BY <1>1, CteLengths, StatementAssumption DEF IInv
  <2>2. 1 \in 1..(Len(Cte.recs) + 1) /\ depth' \in 0..maxRecursionDepth
    BY <2>1, <1>1 DEF IInv, RoundsInv
  <2> QED BY <1>1, <2>2, SameArm DEF RoundsInv
<1> QED BY <1>1, <1>2 DEF IInv, RoundDone, AnchorsInv, ListOf

LEMMA RecursionDoneKeeps == IInv /\ RecursionDone => IInv'
<1> SUFFICES ASSUME IInv, RecursionDone PROVE IInv'
  OBVIOUS
<1>1. ListOf(armRows)'
  <2> PICK x : armRows' = Append(armRows, x)
    BY DEF RecursionDone, Answered
  <2> QED BY ListAppend DEF IInv, ListOf
<1> QED BY <1>1 DEF IInv, RecursionDone, AnchorsInv, RoundsInv

LEMMA CombineKeeps == IInv /\ Combine => IInv'
  BY DEF IInv, Combine, AnchorsInv, RoundsInv, ListOf

LEMMA WriteKeeps == IInv /\ Write => IInv'
<1> SUFFICES ASSUME IInv, Write PROVE IInv'
  OBVIOUS
<1>1. q' = q /\ armRows' = armRows /\ turn' = turn /\ depth' = depth /\ pc' = pc
  BY DEF Write, recursion
<1> QED BY <1>1, SameArm DEF IInv, Write, AnchorsInv, RoundsInv, ListOf

LEMMA StutterKeeps == IInv /\ UNCHANGED vars => IInv'
<1> SUFFICES ASSUME IInv, UNCHANGED vars PROVE IInv'
  OBVIOUS
<1>1. q' = q /\ armRows' = armRows /\ turn' = turn /\ depth' = depth /\ pc' = pc /\ writes' = writes
  BY DEF vars, recursion
<1> QED BY <1>1, SameArm DEF IInv, AnchorsInv, RoundsInv, ListOf

LEMMA NextKeeps == IInv /\ [Next]_vars => IInv'
  BY RunArmKeeps, StartRecursionKeeps, RunAnchorKeeps, AnchorsDoneKeeps, RunRecursiveArmKeeps,
     RoundDoneKeeps, RecursionDoneKeeps, CombineKeeps, WriteKeeps, StutterKeeps
  DEF Next, Engine, Sent

LEMMA Invariant == Spec => []IInv
  BY InitHolds, NextKeeps, PTL DEF Spec

-----------------------------------------------------------------------------
(* A step towards the answer, as EngineProgresses says it. *)
Towards ==
  \/ Len(armRows') > Len(armRows)
  \/ Len(armRows') = Len(armRows) /\ Phase' > Phase
  \/ Len(armRows') = Len(armRows) /\ Phase' = Phase /\ Left' \in 0..(Left - 1)

LEMMA NextArmTowards ==
  ASSUME IInv, NEW x, armRows' = Append(armRows, x)
  PROVE  Towards
<1>1. Len(armRows) \in Nat /\ Len(armRows') = Len(armRows) + 1
  BY ListAppend DEF IInv
<1> QED BY <1>1 DEF Towards

LEMMA StartRecursionTowards == IInv /\ StartRecursion => Towards
  BY DEF StartRecursion, Towards, Phase

LEMMA AnchorsDoneTowards == IInv /\ AnchorsDone => Towards
  BY DEF AnchorsDone, Towards, Phase

LEMMA CombineTowards == IInv /\ Combine => Towards
  BY DEF Combine, Towards, Phase

LEMMA RunAnchorTowards == IInv /\ RunAnchor => Towards
<1> SUFFICES ASSUME IInv, RunAnchor PROVE Towards
  OBVIOUS
<1>1. pc = "anchors" /\ pc' = "anchors" /\ armRows' = armRows /\ q' = q /\ turn' = turn + 1
  BY DEF RunAnchor
<1>2. (Cte)' = Cte
  BY <1>1, SameArm
<1>3. Len(Cte.anchors) \in Nat /\ turn \in Nat /\ turn <= Len(Cte.anchors)
  BY CteLengths DEF IInv, RunAnchor, AnchorsInv
<1>4. Left = Len(Cte.anchors) + 1 - turn /\ Left' = Len(Cte.anchors) + 1 - (turn + 1)
  BY <1>1, <1>2 DEF Left
<1>5. Left' \in 0..(Left - 1)
  <2> DEFINE l == Len(Cte.anchors)
  <2>1. l \in Nat /\ turn <= l /\ 0 \in Nat
    BY <1>3
  <2>2. Left = 0 + l + 1 - turn /\ Left' = 0 + l + 1 - (turn + 1)
    BY <1>3, <1>4
  <2> HIDE DEF l
  <2> QED BY <1>3, <2>1, <2>2, OneArmLess
<1> QED BY <1>1, <1>5 DEF Towards, Phase

LEMMA RunRecursiveArmTowards == IInv /\ RunRecursiveArm => Towards
<1> SUFFICES ASSUME IInv, RunRecursiveArm PROVE Towards
  OBVIOUS
<1>1. /\ pc = "rounds" /\ pc' = "rounds" /\ armRows' = armRows /\ q' = q
      /\ turn' = turn + 1 /\ depth' = depth /\ working' = working /\ Recursing
  BY DEF RunRecursiveArm
<1>2. (Cte)' = Cte /\ Recursing'
  BY <1>1, SameArm DEF Recursing
<1>3. /\ Len(Cte.recs) \in Nat /\ turn \in Nat /\ turn <= Len(Cte.recs)
      /\ depth \in 0..maxRecursionDepth /\ maxRecursionDepth \in Nat
  BY CteLengths, StatementAssumption DEF IInv, RunRecursiveArm, RoundsInv
<1> DEFINE rounds == (maxRecursionDepth - depth) * (Len(Cte.recs) + 1)
<1>4. /\ Left  = rounds + Len(Cte.recs) + 1 - turn
      /\ Left' = rounds + Len(Cte.recs) + 1 - (turn + 1)
  BY <1>1, <1>2 DEF Left
<1>5. rounds \in Nat
  <2>1. maxRecursionDepth - depth \in Nat
    BY <1>3
  <2> QED BY <1>3, <2>1, RoundsLeft
<1>6. Left' \in 0..(Left - 1)
  <2> DEFINE l == Len(Cte.recs)
  <2>1. l \in Nat /\ turn <= l
    BY <1>3
  <2>2. Left = rounds + l + 1 - turn /\ Left' = rounds + l + 1 - (turn + 1)
    BY <1>4
  <2> HIDE DEF l, rounds
  <2> QED BY <1>3, <1>5, <2>1, <2>2, OneArmLess
<1> QED BY <1>1, <1>6 DEF Towards, Phase

(* the round is over: one depth less is left, or nothing *)
LEMMA RoundDoneTowards == IInv /\ RoundDone => Towards
<1> SUFFICES ASSUME IInv, RoundDone PROVE Towards
  OBVIOUS
<1>1. /\ pc = "rounds" /\ pc' = "rounds" /\ armRows' = armRows /\ q' = q
      /\ turn' = 1 /\ working' = next /\ Recursing
      /\ depth' = IF next = <<>> THEN depth ELSE depth + 1
  BY DEF RoundDone
<1>2. (Cte)' = Cte
  BY <1>1, SameArm
<1>3. /\ Len(Cte.recs) \in Nat /\ turn = Len(Cte.recs) + 1
      /\ depth \in 0..maxRecursionDepth /\ maxRecursionDepth \in Nat /\ depth < maxRecursionDepth
  BY CteLengths, StatementAssumption DEF IInv, RoundDone, RoundsInv, Recursing
<1> DEFINE l == Len(Cte.recs)
           a == maxRecursionDepth - depth
<1>4. l \in Nat /\ a \in Nat /\ a > 0
  BY <1>3
<1>5. Left = a * (l + 1)
  <2>1. Left = a * (l + 1) + l + 1 - turn
    BY <1>1 DEF Left
  <2>2. a * (l + 1) \in Nat
    BY <1>4, RoundsLeft
  <2> HIDE DEF a
  <2> QED BY <2>1, <2>2, <1>3
<1>6. Left' \in 0..(Left - 1)
  <2>1. a * (l + 1) \in Nat /\ a * (l + 1) > 0
    BY <1>4, RoundsLeft
  <2>2. CASE Recursing'
    <3>1. depth' = depth + 1
      BY <2>2, <1>1 DEF Recursing
    <3>2. Left' = (maxRecursionDepth - (depth + 1)) * (l + 1) + l + 1 - 1
      BY <1>1, <1>2, <2>2, <3>1 DEF Left
    <3>3. maxRecursionDepth - (depth + 1) = a - 1
      BY <1>3
    <3>4. Left' = a * (l + 1) - 1
      <4> HIDE DEF a, l
      <4> QED BY <3>2, <3>3, <1>4, OneRoundLess
    <3> HIDE DEF a, l
    <3> QED BY <3>4, <1>5, <2>1
  <2>3. CASE ~Recursing'
    <3>1. Left' = 0
      BY <2>3, <1>1 DEF Left
    <3> HIDE DEF a, l
    <3> QED BY <3>1, <1>5, <2>1
  <2> QED BY <2>2, <2>3
<1> QED BY <1>1, <1>6 DEF Towards, Phase

LEMMA EngineTowards == IInv /\ Engine => Towards
<1> SUFFICES ASSUME IInv, Engine PROVE Towards
  OBVIOUS
<1>1. CASE RunArm
  <2> PICK x : armRows' = Append(armRows, x)
    BY <1>1 DEF RunArm, Answered
  <2> QED BY NextArmTowards
<1>2. CASE RecursionDone
  <2> PICK x : armRows' = Append(armRows, x)
    BY <1>2 DEF RecursionDone, Answered
  <2> QED BY NextArmTowards
<1> QED
  BY <1>1, <1>2, StartRecursionTowards, RunAnchorTowards, AnchorsDoneTowards,
     RunRecursiveArmTowards, RoundDoneTowards, CombineTowards DEF Engine

(* Every step of the engine is towards the answer (runRecursiveCTE,        *)
(* unionRun), whatever the tables hold, the statement asks and the other   *)
(* connections write: an arm more is answered, or the arm is a phase       *)
(* further, or less is left of the phase.                                  *)
THEOREM EngineProgressesCorrect == Spec => EngineProgresses
<1>1. IInv /\ [Next]_vars => [writes' = writes => Towards]_vars
  <2> SUFFICES ASSUME IInv, Next, ~UNCHANGED vars, writes' = writes PROVE Towards
    OBVIOUS
  <2>1. ~Write
    BY DEF Write, IInv
  <2>2. ~Sent
    BY DEF Sent
  <2>3. Engine
    BY <2>1, <2>2 DEF Next
  <2> QED BY <2>3, EngineTowards
<1>2. [][writes' = writes => Towards]_vars => EngineProgresses
  BY PTL DEF EngineProgresses, Towards
<1> QED BY Invariant, <1>1, <1>2, PTL DEF Spec

=============================================================================
