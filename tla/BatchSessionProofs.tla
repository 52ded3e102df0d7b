-------------------------- MODULE BatchSessionProofs --------------------------
(***************************************************************************)
(* The session's invariants, for all statements, procedures, nestings of   *)
(* blocks and depths of EXEC: its types, ErrorOnlyInCatch, SessionFollows, *)
(* and CatchHasItsError and CallersKept, properties of its steps.          *)
(*                                                                         *)
(* Every step but the first and the last of a batch leaves the outer       *)
(* activations alone and puts another one in the place of an inner one: of *)
(* the running one, or of the one whose TRY catches the error.  So each    *)
(* invariant is a claim about one activation, which the step has to keep   *)
(* of the new one only (Replaced).                                         *)
(***************************************************************************)
EXTENDS BatchSession, WellFoundedInduction, TLAPS

-----------------------------------------------------------------------------
(* The types of what an activation holds *)

ErrorName == {None, "backend", "condition", "while", "user", "no_catch"}

BlockType ==
  [kind : {"block", "while", "try", "catch"}, todo : Seq(Statement), body : Seq(Statement),
   catch : Seq(Statement), mark : Nat, rounds : 0..MaxWhile, err : ErrorName]

ResultType == [from : Db \cup {"temp", "affected", "broken"}, rows : Nat, due : Nat]

ActivationType ==
  [flow : BOOLEAN, live : BOOLEAN, db : Db, rowCount : Nat, before : Db, envDB : Db \cup {None},
   results : Seq(ResultType), stack : Seq(BlockType)]

-----------------------------------------------------------------------------
(* Sequences cut short and given a new end *)

LEMMA NewEnd ==
  ASSUME NEW S, NEW c \in Seq(S), NEW n \in 0..Len(c), NEW a \in S,
         NEW d, d = Append(SubSeq(c, 1, n), a)
  PROVE  /\ d \in Seq(S) /\ Len(d) = n + 1 /\ DOMAIN d = 1..(n + 1)
         /\ d[n + 1] = a
         /\ \A i \in 1..n : d[i] = c[i]
<1>1. SubSeq(c, 1, n) \in Seq(S) /\ Len(SubSeq(c, 1, n)) = n
  OBVIOUS
<1>2. \A i \in 1..n : SubSeq(c, 1, n)[i] = c[i]
  OBVIOUS
<1> QED BY <1>1, <1>2

LEMMA Prefix ==
  ASSUME NEW S, NEW c \in Seq(S), NEW n \in 0..Len(c), NEW d, d = SubSeq(c, 1, n)
  PROVE  /\ d \in Seq(S) /\ Len(d) = n /\ DOMAIN d = 1..n
         /\ \A i \in 1..n : d[i] = c[i]
OBVIOUS

LEMMA Fronts ==
  ASSUME NEW S, NEW c \in Seq(S), c # <<>>
  PROVE  /\ Front(c) = SubSeq(c, 1, Len(c) - 1)
         /\ Len(c) \in 1..Len(c) /\ Len(c) - 1 \in 0..Len(c)
         /\ Last(c) = c[Len(c)] /\ Last(c) \in S
BY DEF Front, Last

(* A set of places of a sequence has a last one, which Innermost chooses   *)
LEMMA LeastOf ==
  ASSUME NEW T, T \subseteq Nat, T # {}
  PROVE  \E x \in T : \A y \in T : ~(y < x)
<1> DEFINE R == OpToRel(<, Nat)
<1>1. IsWellFoundedOn(R, Nat)
  BY NatLessThanWellFounded
<1>2. PICK x \in T : \A y \in T : ~(<<y, x>> \in R)
  BY <1>1, WFMin
<1>3. \A y \in T : y < x => <<y, x>> \in R
  BY DEF OpToRel
<1> QED BY <1>2, <1>3

LEMMA InnermostIs ==
  ASSUME NEW n \in Nat, NEW T, T \subseteq 1..n, T # {}
  PROVE  /\ Innermost(T) \in T
         /\ \A j \in T : j <= Innermost(T)
<1> DEFINE U == {n - i : i \in T}
<1>0. \A i \in T : n - i \in Nat
  OBVIOUS
<1>1. U \subseteq Nat /\ U # {}
  BY <1>0
<1>2. PICK x \in U : \A y \in U : ~(y < x)
  BY <1>1, LeastOf
<1>3. PICK i \in T : x = n - i
  OBVIOUS
<1>4. \A j \in T : n - j \in U
  OBVIOUS
<1>5. \A j \in T : j <= i
  BY <1>2, <1>3, <1>4
<1> QED BY <1>5 DEF Innermost

-----------------------------------------------------------------------------
(* The blocks of one activation: each has the error of the one around it   *)
(* unless it is a CATCH, and the results the activation has are not fewer  *)
(* than any open TRY found, nor those of an inner TRY fewer than those of  *)
(* an outer.                                                               *)

(* "above" is the error of the code around the outermost block.  *)
ErrorsFit(st, above) ==
  \A j \in DOMAIN st :
    IF st[j].kind = "catch" THEN st[j].err # None
    ELSE st[j].err = IF j > 1 THEN st[j - 1].err ELSE above

MarksFit(st, size) ==
  \A j \in DOMAIN st : st[j].kind = "try" =>
    /\ st[j].mark <= size
    /\ \A i \in DOMAIN st : i <= j /\ st[i].kind = "try" => st[i].mark <= st[j].mark

BlocksFit(st, above, size) == ErrorsFit(st, above) /\ MarksFit(st, size)

(* Blocks that stay open keep their error *)
Continued(was, is) ==
  \A j \in DOMAIN was \cap DOMAIN is : is[j].kind = was[j].kind /\ is[j].err = was[j].err

LEMMA FitMore ==
  ASSUME NEW st \in Seq(BlockType), NEW above, NEW size \in Nat, NEW more \in Nat,
         BlocksFit(st, above, size), size <= more
  PROVE  BlocksFit(st, above, more)
<1>1. \A j \in DOMAIN st : st[j] \in BlockType
  OBVIOUS
<1>2. \A j \in DOMAIN st : st[j].mark \in Nat
  BY <1>1 DEF BlockType
<1>3. \A m \in Nat : m <= size => m <= more
  OBVIOUS
<1> QED BY <1>2, <1>3 DEF BlocksFit, MarksFit

(* What is left after blocks were closed *)
LEMMA FitClosed ==
  ASSUME NEW st \in Seq(BlockType), NEW above, NEW size, BlocksFit(st, above, size),
         NEW n \in 0..Len(st)
  PROVE  BlocksFit(SubSeq(st, 1, n), above, size) /\ Continued(st, SubSeq(st, 1, n))
<1> DEFINE d == SubSeq(st, 1, n)
<1>1. DOMAIN d = 1..n /\ DOMAIN st = 1..Len(st) /\ \A i \in 1..n : d[i] = st[i]
  BY Prefix
<1>2. 1..n \subseteq 1..Len(st)
  OBVIOUS
<1> HIDE DEF d
<1>3. MarksFit(d, size)
  BY <1>1, <1>2 DEF BlocksFit, MarksFit
<1>4. \A j \in 1..n : j > 1 => j - 1 \in 1..n
  OBVIOUS
<1>5. ErrorsFit(d, above)
  BY <1>1, <1>2, <1>4 DEF BlocksFit, ErrorsFit
<1>6. Continued(st, d)
  BY <1>1 DEF Continued
<1> QED BY <1>3, <1>5, <1>6 DEF BlocksFit, d

(* A block goes on in the place of itself *)
LEMMA FitSame ==
  ASSUME NEW st \in Seq(BlockType), NEW above, NEW size, BlocksFit(st, above, size),
         NEW n \in DOMAIN st,
         NEW f \in BlockType, f.kind = st[n].kind, f.err = st[n].err, f.mark = st[n].mark
  PROVE  /\ BlocksFit(Append(SubSeq(st, 1, n - 1), f), above, size)
         /\ Continued(st, Append(SubSeq(st, 1, n - 1), f))
<1> DEFINE d == Append(SubSeq(st, 1, n - 1), f)
<1>1. n - 1 \in 0..Len(st) /\ n \in Nat
  OBVIOUS
<1>2. DOMAIN d = 1..n /\ d[n] = f /\ \A i \in 1..(n - 1) : d[i] = st[i]
  BY <1>1, NewEnd
<1>3. \A i \in 1..n : d[i].kind = st[i].kind /\ d[i].err = st[i].err /\ d[i].mark = st[i].mark
  BY <1>1, <1>2
<1>4. 1..n \subseteq 1..Len(st) /\ DOMAIN st = 1..Len(st)
  OBVIOUS
<1> HIDE DEF d
<1>5. MarksFit(d, size)
  BY <1>2, <1>3, <1>4 DEF BlocksFit, MarksFit
<1>6. \A j \in 1..n : j > 1 => j - 1 \in 1..n
  BY <1>1
<1>7. ErrorsFit(d, above)
  BY <1>2, <1>3, <1>4, <1>6 DEF BlocksFit, ErrorsFit
<1>8. Continued(st, d)
  BY <1>2, <1>3 DEF Continued
<1> QED BY <1>5, <1>7, <1>8 DEF BlocksFit, d

(* A block opened in the last one *)
LEMMA FitOpened ==
  ASSUME NEW st \in Seq(BlockType), NEW above, NEW size \in Nat,
         BlocksFit(st, above, size), st # <<>>,
         NEW f \in BlockType, f.kind # "catch", f.err = st[Len(st)].err,
         f.kind = "try" => f.mark = size
  PROVE  BlocksFit(Append(st, f), above, size) /\ Continued(st, Append(st, f))
<1> DEFINE d == Append(st, f)
           n == Len(st)
<1>1. DOMAIN d = 1..(n + 1) /\ d[n + 1] = f /\ n \in 1..n /\ \A i \in 1..n : d[i] = st[i]
  OBVIOUS
<1>2. n \in Nat /\ DOMAIN st = 1..n
  OBVIOUS
<1>3. \A i \in 1..(n + 1) : i \in 1..n \/ i = n + 1
  BY <1>2
<1> HIDE DEF d, n
<1>4. ErrorsFit(d, above)
  <2>1. \A j \in 1..n : j > 1 => j - 1 \in 1..n
    BY <1>2
  <2>2. \A j \in 1..n : IF d[j].kind = "catch" THEN d[j].err # None
                        ELSE d[j].err = IF j > 1 THEN d[j - 1].err ELSE above
    BY <1>1, <1>2, <2>1 DEF BlocksFit, ErrorsFit
  <2>3. n + 1 > 1 /\ (n + 1) - 1 = n /\ d[n] = st[n]
    BY <1>1, <1>2
  <2> QED BY <1>1, <1>3, <2>2, <2>3 DEF ErrorsFit, n
<1>5. MarksFit(d, size)
  <2>1. \A i \in 1..n : st[i].kind = "try" => st[i].mark <= size
    BY <1>2 DEF BlocksFit, MarksFit
  <2>2. \A j \in 1..n : \A i \in 1..(n + 1) : i <= j => i \in 1..n
    BY <1>2
  <2>3. \A j \in 1..n : st[j].kind = "try" =>
          \A i \in 1..n : i <= j /\ st[i].kind = "try" => st[i].mark <= st[j].mark
    BY <1>2 DEF BlocksFit, MarksFit
  <2>4. size <= size
    OBVIOUS
  <2> QED BY <1>1, <1>3, <2>1, <2>2, <2>3, <2>4 DEF MarksFit
<1>6. Continued(st, d)
  BY <1>1, <1>2 DEF Continued
<1> QED BY <1>4, <1>5, <1>6 DEF BlocksFit, d

(* A CATCH in the place of its TRY, with the results the TRY found *)
LEMMA FitCaught ==
  ASSUME NEW st \in Seq(BlockType), NEW above, NEW size, BlocksFit(st, above, size),
         NEW n \in DOMAIN st, st[n].kind = "try",
         NEW f \in BlockType, f.kind = "catch", f.err # None
  PROVE  BlocksFit(Append(SubSeq(st, 1, n - 1), f), above, st[n].mark)
<1> DEFINE d == Append(SubSeq(st, 1, n - 1), f)
<1>1. n - 1 \in 0..Len(st) /\ n \in Nat /\ DOMAIN st = 1..Len(st)
  OBVIOUS
<1>2. DOMAIN d = 1..n /\ d[n] = f /\ \A i \in 1..(n - 1) : d[i] = st[i]
  BY <1>1, NewEnd
<1>3. \A i \in 1..n : (i \in 1..(n - 1) \/ i = n) /\ i <= n /\ i \in DOMAIN st
  BY <1>1
<1>4. \A i, j \in 1..n : i <= j /\ j \in 1..(n - 1) => i \in 1..(n - 1)
  BY <1>1
<1> HIDE DEF d
<1>5. MarksFit(d, st[n].mark)
  BY <1>2, <1>3, <1>4 DEF BlocksFit, MarksFit
<1>6. ErrorsFit(d, above)
  <2>1. \A j \in 1..(n - 1) : j > 1 => j - 1 \in 1..(n - 1)
    BY <1>1
  <2> QED BY <1>1, <1>2, <1>3, <2>1 DEF BlocksFit, ErrorsFit
<1> QED BY <1>5, <1>6 DEF BlocksFit, d

-----------------------------------------------------------------------------
(* The inductive invariant *)

StateTypes ==
  /\ db \in Db /\ clientDb \in Db
  /\ rowCount \in Nat /\ asked \in Nat /\ number \in 0..MaxBatches
  /\ temp \in Nat \cup {NoTable} /\ tempOf \in 0..MaxBatches
  /\ reply.kind \in {"none", "result", "error"}
  /\ failed \in BOOLEAN

Nested ==
  /\ calls \in Seq(ActivationType) /\ Len(calls) <= MaxCalls
  /\ \A i \in DOMAIN calls : calls[i].live <=> i = 1

(* The error of the code around the k-th activation                        *)
Above(c, k) == IF k > 1 THEN Last(c[k - 1].stack).err ELSE None

BlocksInv ==
  \A i \in DOMAIN calls : BlocksFit(calls[i].stack, Above(calls, i), Len(calls[i].results))

(* What the k-th activation has as results: the connection's own fit its   *)
(* cap when its batch is flat; a procedure's are due the cap that still    *)
(* holds when they reach the connection.                                   *)
ResultsFit(k, a, cap) ==
  \A j \in DOMAIN a.results :
    IF k = 1 THEN ~a.flow => Capped(a.results[j]) ELSE a.results[j].due = cap

ResultsInv == rowCount = asked /\ \A i \in DOMAIN calls : ResultsFit(i, calls[i], asked)

(* The batch that runs knows the client's database, and whether and what   *)
(* the client has to be told of the session's.                             *)
Follows(a, sessionDb, known, lost) ==
  ~lost => /\ a.before = known
           /\ a.envDB = None => sessionDb = known
           /\ a.envDB # None => a.envDB = sessionDb

FollowInv == Running => Follows(calls[1], db, clientDb, failed)

IInv == StateTypes /\ Nested /\ BlocksInv /\ ResultsInv /\ FollowInv /\ SessionFollows

(* What IInv says of the running activation *)
LEMMA CurIs ==
  ASSUME IInv, Running
  PROVE  /\ Len(calls) \in DOMAIN calls /\ Len(calls) \in 1..Len(calls)
         /\ Cur = calls[Len(calls)] /\ Cur \in ActivationType
         /\ Cur.live <=> Len(calls) = 1
         /\ Front(calls) = SubSeq(calls, 1, Len(calls) - 1)
         /\ BlocksFit(Cur.stack, Above(calls, Len(calls)), Len(Cur.results))
         /\ ResultsFit(Len(calls), Cur, asked)
<1>1. calls \in Seq(ActivationType) /\ calls # <<>>
  BY DEF IInv, Nested, Running
<1>2. Len(calls) \in DOMAIN calls /\ Len(calls) \in 1..Len(calls)
  BY <1>1
<1> QED BY <1>1, <1>2, Fronts DEF IInv, Nested, BlocksInv, ResultsInv, Cur

(* Another activation in the place of the k-th, and what the invariant     *)
(* asks of it                                                              *)
LEMMA Replaced ==
  ASSUME IInv, NEW k \in DOMAIN calls, NEW a \in ActivationType,
         calls' = Append(SubSeq(calls, 1, k - 1), a),
         a.live <=> k = 1,
         BlocksFit(a.stack, Above(calls, k), Len(a.results)),
         ResultsFit(k, a, asked'),
         k = 1 => Follows(a, db', clientDb, failed),
         k > 1 => UNCHANGED <<db, asked>>,
         rowCount' = asked', asked' \in Nat, db' \in Db,
         UNCHANGED <<clientDb, reply, failed, number>>,
         temp' \in Nat \cup {NoTable}, tempOf' \in 0..MaxBatches,
         temp' # NoTable => tempOf' = number
  PROVE  IInv'
<1>1. /\ calls \in Seq(ActivationType) /\ k \in 1..Len(calls) /\ k - 1 \in 0..Len(calls)
      /\ DOMAIN calls = 1..Len(calls) /\ (k - 1) + 1 = k
  BY DEF IInv, Nested
<1>2. /\ calls' \in Seq(ActivationType) /\ Len(calls') = k /\ DOMAIN calls' = 1..k
      /\ calls'[k] = a /\ \A i \in 1..(k - 1) : calls'[i] = calls[i]
  BY <1>1, NewEnd
<1>3. \A i \in 1..k : i \in DOMAIN calls /\ (i = k \/ i \in 1..(k - 1))
  BY <1>1
<1>4. StateTypes'
  BY DEF IInv, StateTypes
<1>5. Nested'
  <2>1. Len(calls') <= MaxCalls
    BY <1>1, <1>2, BatchAssumption DEF IInv, Nested
  <2>2. \A i \in 1..k : calls'[i].live <=> i = 1
    BY <1>2, <1>3 DEF IInv, Nested
  <2> QED BY <1>2, <2>1, <2>2 DEF Nested
<1>6. BlocksInv'
  <2>1. \A i \in 1..k : Above(calls, i)' = Above(calls, i)
    <3> TAKE i \in 1..k
    <3>1. i > 1 => i - 1 \in 1..(k - 1)
      BY <1>1
    <3> QED BY <1>2, <3>1 DEF Above
  <2>2. \A i \in 1..k : BlocksFit(calls'[i].stack, Above(calls, i), Len(calls'[i].results))
    BY <1>2, <1>3 DEF IInv, BlocksInv
  <2>3. \A i \in 1..k : BlocksFit(calls'[i].stack, Above(calls, i)', Len(calls'[i].results))
    BY <2>1, <2>2
  <2> QED BY <1>2, <2>3 DEF BlocksInv
<1>7. ResultsInv'
  <2>1. \A i \in 1..(k - 1) : ResultsFit(i, calls[i], asked')
    <3>1. CASE k = 1
      BY <3>1
    <3>2. CASE k # 1
      BY <1>1, <1>3, <3>2 DEF IInv, ResultsInv
    <3> QED BY <3>1, <3>2
  <2> QED BY <1>2, <1>3, <2>1 DEF ResultsInv
<1>8. FollowInv'
  <2>1. CASE k = 1
    BY <1>2, <2>1 DEF FollowInv
  <2>2. CASE k # 1
    <3>1. calls'[1] = calls[1] /\ calls # <<>>
      BY <1>1, <1>2, <2>2
    <3>2. k > 1
      BY <1>1, <2>2
    <3> QED BY <3>1, <3>2 DEF IInv, FollowInv, Running
  <2> QED BY <2>1, <2>2
<1>9. SessionFollows'
  <2>1. calls' # <<>>
    BY <1>1, <1>2
  <2>2. TracksUntilError'
    BY <2>1 DEF TracksUntilError, Running
  <2>3. RowCountAppliesFlat'
    BY DEF IInv, SessionFollows, RowCountAppliesFlat, Capped
  <2>4. TempIsOfBatch'
    BY DEF TempIsOfBatch
  <2> QED BY <2>2, <2>3, <2>4 DEF SessionFollows
<1> QED BY <1>4, <1>5, <1>6, <1>7, <1>8, <1>9 DEF IInv

(* What a step has to show: the invariant, and that callers keep theirs    *)
StepGoal == IInv' /\ ProcLeaves /\ ResultsGrow /\ BlockErrors

(* The results of an activation as a step may leave them *)
ResultsGrown(was, is) ==
  \/ IsPrefix(was.results, is.results)
  \/ Tries(was) # {} /\ is.results = SubSeq(was.results, 1, was.stack[Innermost(Tries(was))].mark)

(* The k-th activation's innermost TRY has given way to its CATCH, and no  *)
(* activation further in has one                                           *)
Opened(k, a) ==
  /\ Len(a.stack) \in DOMAIN calls[k].stack
  /\ calls[k].stack[Len(a.stack)].kind = "try"
  /\ a.stack[Len(a.stack)].kind = "catch" /\ a.stack[Len(a.stack)].err = Raised
  /\ \A l \in 1..(Len(a.stack) - 1) : a.stack[l] = calls[k].stack[l]
  /\ \A m \in (k + 1)..Len(calls) : Tries(calls[m]) = {}
  /\ \A l \in Tries(calls[k]) : l <= Len(a.stack)

BlocksGo(k, a) == Continued(calls[k].stack, a.stack) \/ Opened(k, a)

LEMMA ReplacedKeeps ==
  ASSUME IInv, NEW k \in DOMAIN calls, NEW a \in ActivationType,
         calls' = Append(SubSeq(calls, 1, k - 1), a),
         ResultsGrown(calls[k], a),
         BlocksGo(k, a),
         Len(calls) > 1 => UNCHANGED <<db, rowCount>>
  PROVE  ProcLeaves /\ ResultsGrow /\ BlockErrors
<1>1. /\ calls \in Seq(ActivationType) /\ k \in 1..Len(calls) /\ k - 1 \in 0..Len(calls)
      /\ DOMAIN calls = 1..Len(calls) /\ (k - 1) + 1 = k
  BY DEF IInv, Nested
<1>2. /\ calls' \in Seq(ActivationType) /\ Len(calls') = k /\ DOMAIN calls' = 1..k
      /\ calls'[k] = a /\ \A i \in 1..(k - 1) : calls'[i] = calls[i]
  BY <1>1, NewEnd
<1>3. ASSUME Len(calls') = Len(calls) PROVE Front(calls') = Front(calls)
  <2>0. k = Len(calls) /\ k >= 1
    <3>1. k >= 1
      BY <1>1
    <3>2. k = Len(calls)
      BY <1>2, <1>3
    <3> QED BY <3>1, <3>2
  <2>1. k = Len(calls) /\ calls # <<>> /\ calls' # <<>>
    <3>1. Len(calls) # 0 /\ Len(calls') # 0
      BY <1>2, <2>0
    <3> QED BY <2>0, <3>1
  <2>2. Front(calls') = SubSeq(calls', 1, k - 1) /\ Front(calls) = SubSeq(calls, 1, k - 1)
    BY <1>1, <1>2, <2>1, Fronts
  <2>3. SubSeq(Append(SubSeq(calls, 1, k - 1), a), 1, k - 1) = SubSeq(calls, 1, k - 1)
    <3>1. \A s \in Seq(ActivationType) : SubSeq(Append(s, a), 1, Len(s)) = s
      OBVIOUS
    <3>2. SubSeq(calls, 1, k - 1) \in Seq(ActivationType) /\ Len(SubSeq(calls, 1, k - 1)) = k - 1
      BY <1>1, Prefix
    <3> QED BY <3>1, <3>2
  <2> QED BY <2>2, <2>3
<1>4. \A i \in 1..(k - 1) : IsPrefix(calls[i].results, calls'[i].results)
  <2>1. \A rs \in Seq(ResultType) : IsPrefix(rs, rs)
    BY DEF IsPrefix
  <2>2. \A i \in 1..(k - 1) : calls[i] \in ActivationType
    BY <1>1
  <2> QED BY <1>2, <2>1, <2>2 DEF ActivationType
<1>5. ResultsGrow
  <2>1. \A i \in DOMAIN calls \cap DOMAIN calls' : i = k \/ i \in 1..(k - 1)
    BY <1>1, <1>2
  <2> QED BY <1>2, <1>4, <2>1 DEF ResultsGrow, ResultsGrown
<1>6. BlockErrors
  <2>1. ASSUME NEW i \in DOMAIN calls \cap DOMAIN calls',
               NEW j \in DOMAIN calls[i].stack \cap DOMAIN calls'[i].stack
        PROVE  BlockKept(i, j) \/ CatchOpened(i, j)
    <3>1. CASE i # k
      <4>1. calls'[i] = calls[i]
        BY <1>1, <1>2, <2>1, <3>1
      <4> QED BY <4>1 DEF BlockKept
    <3>2. CASE i = k /\ Continued(calls[k].stack, a.stack)
      BY <1>2, <2>1, <3>2 DEF BlockKept, Continued
    <3>3. CASE i = k /\ Opened(k, a)
      <4>1. a.stack \in Seq(BlockType) /\ Len(a.stack) \in Nat /\ DOMAIN a.stack = 1..Len(a.stack)
        BY DEF ActivationType
      <4>2. CASE j = Len(a.stack)
        BY <1>2, <3>3, <4>2 DEF Opened, CatchOpened
      <4>3. CASE j # Len(a.stack)
        <5>1. j \in 1..(Len(a.stack) - 1)
          BY <1>2, <2>1, <3>3, <4>1, <4>3
        <5> QED BY <1>2, <3>3, <5>1 DEF Opened, BlockKept
      <4> QED BY <4>2, <4>3
    <3> QED BY <3>1, <3>2, <3>3 DEF BlocksGo
  <2> QED BY <2>1 DEF BlockErrors
<1> QED BY <1>3, <1>5, <1>6 DEF ProcLeaves

(* The running activation goes on as a *)
LEMMA CurReplaced ==
  ASSUME IInv, Running, NEW a \in ActivationType,
         calls' = SetCur(a),
         a.live = Cur.live, a.flow = Cur.flow,
         IsPrefix(Cur.results, a.results), Continued(Cur.stack, a.stack),
         BlocksFit(a.stack, Above(calls, Len(calls)), Len(a.results)),
         ResultsFit(Len(calls), a, asked'),
         Cur.live => Follows(a, db', clientDb, failed),
         ~Cur.live => UNCHANGED <<db, rowCount, asked>>,
         rowCount' = asked', asked' \in Nat, db' \in Db,
         UNCHANGED <<clientDb, reply, failed, number>>,
         temp' \in Nat \cup {NoTable}, tempOf' \in 0..MaxBatches,
         temp' # NoTable => tempOf' = number
  PROVE  StepGoal
<1> DEFINE k == Len(calls)
<1>1. /\ k \in DOMAIN calls /\ k \in 1..k /\ calls[k] = Cur /\ (Cur.live <=> k = 1)
      /\ calls' = Append(SubSeq(calls, 1, k - 1), a)
  BY CurIs DEF SetCur
<1>2. IInv'
  <2>1. k > 1 => ~Cur.live
    BY <1>1
  <2>2. k = 1 => Cur.live
    BY <1>1
  <2> HIDE DEF k
  <2> QED BY <1>1, <2>1, <2>2, Replaced DEF k
<1>3. ProcLeaves /\ ResultsGrow /\ BlockErrors
  <2>1. Len(calls) > 1 => ~Cur.live
    BY <1>1
  <2>2. ResultsGrown(calls[k], a)
    BY <1>1 DEF ResultsGrown
  <2>3. BlocksGo(k, a)
    BY <1>1 DEF BlocksGo
  <2> QED BY <1>1, <2>1, <2>2, <2>3, ReplacedKeeps
<1> QED BY <1>2, <1>3 DEF StepGoal

(* A result the running activation may get *)
MayGet(r) ==
  /\ r \in ResultType /\ r.due = asked
  /\ Cur.live /\ ~Cur.flow => Capped(r)

(* A step that touches the session's temp table at most *)
SessionKept ==
  /\ UNCHANGED <<db, rowCount, asked, clientDb, reply, failed, number>>
  /\ temp' \in Nat \cup {NoTable} /\ tempOf' \in 0..MaxBatches
  /\ temp' # NoTable => tempOf' = number

LEMMA GoesOn ==
  ASSUME IInv, Running, NEW a \in ActivationType,
         calls' = SetCur(a), SessionKept,
         a.live = Cur.live, a.flow = Cur.flow, a.before = Cur.before, a.envDB = Cur.envDB,
         a.results = Cur.results \/ \E r : MayGet(r) /\ a.results = Append(Cur.results, r),
         BlocksFit(a.stack, Above(calls, Len(calls)), Len(Cur.results)),
         Continued(Cur.stack, a.stack)
  PROVE  StepGoal
<1>0. Cur \in ActivationType /\ Cur.results \in Seq(ResultType)
  BY CurIs DEF ActivationType
<1>1. IsPrefix(Cur.results, a.results)
  <2>1. \A rs \in Seq(ResultType) : IsPrefix(rs, rs)
    BY DEF IsPrefix
  <2>2. \A rs \in Seq(ResultType) : \A r \in ResultType : IsPrefix(rs, Append(rs, r))
    BY DEF IsPrefix
  <2> QED BY <1>0, <2>1, <2>2 DEF MayGet
<1>2. ResultsFit(Len(calls), a, asked)
  <2>1. ResultsFit(Len(calls), Cur, asked) /\ (Cur.live <=> Len(calls) = 1)
    BY CurIs
  <2>2. CASE a.results = Cur.results
    BY <2>1, <2>2 DEF ResultsFit
  <2>3. ASSUME NEW r, MayGet(r), a.results = Append(Cur.results, r)
        PROVE  ResultsFit(Len(calls), a, asked)
    <3>1. \A j \in DOMAIN a.results : a.results[j] = r \/ (j \in DOMAIN Cur.results /\ a.results[j] = Cur.results[j])
      <4>0. r \in ResultType
        BY <2>3 DEF MayGet
      <4> SUFFICES ASSUME NEW j \in DOMAIN Append(Cur.results, r)
                   PROVE  \/ Append(Cur.results, r)[j] = r
                          \/ j \in DOMAIN Cur.results /\ Append(Cur.results, r)[j] = Cur.results[j]
        BY <2>3
      <4>1. j \in 1..(Len(Cur.results) + 1) /\ DOMAIN Cur.results = 1..Len(Cur.results)
        BY <1>0, <4>0
      <4>2. CASE j = Len(Cur.results) + 1
        BY <1>0, <4>0, <4>2
      <4>3. CASE j # Len(Cur.results) + 1
        BY <1>0, <4>0, <4>1, <4>3
      <4> QED BY <4>2, <4>3
    <3> QED BY <2>1, <2>3, <3>1 DEF ResultsFit, MayGet
  <2> QED BY <2>2, <2>3
<1>3. Cur.live => Follows(a, db, clientDb, failed)
  <2>1. Cur.live => Cur = calls[1]
    BY CurIs
  <2> QED BY <2>1 DEF IInv, FollowInv, Follows
<1>4. rowCount = asked /\ asked \in Nat /\ db \in Db
  BY DEF IInv, ResultsInv, StateTypes
<1>5. BlocksFit(a.stack, Above(calls, Len(calls)), Len(a.results))
  <2>1. a.stack \in Seq(BlockType) /\ Len(Cur.results) \in Nat
    BY <1>0 DEF ActivationType
  <2>2. \A r \in ResultType : Len(Append(Cur.results, r)) = Len(Cur.results) + 1
    BY <1>0
  <2>3. Len(a.results) \in Nat /\ Len(Cur.results) <= Len(a.results)
    BY <2>1, <2>2 DEF MayGet
  <2> QED BY <2>1, <2>3, FitMore
<1> QED BY <1>1, <1>2, <1>3, <1>4, <1>5, CurReplaced DEF SessionKept

-----------------------------------------------------------------------------
(* The steps of the running activation *)

(* The running activation with other blocks, or with another result *)
LEMMA WithStack ==
  ASSUME NEW a \in ActivationType, NEW st \in Seq(BlockType), NEW b, b = [a EXCEPT !.stack = st]
  PROVE  /\ b \in ActivationType /\ b.stack = st
         /\ b.flow = a.flow /\ b.live = a.live /\ b.db = a.db /\ b.rowCount = a.rowCount
         /\ b.before = a.before /\ b.envDB = a.envDB /\ b.results = a.results
BY DEF ActivationType

LEMMA WithResults ==
  ASSUME NEW a \in ActivationType, NEW rs \in Seq(ResultType), NEW b, b = [a EXCEPT !.results = rs]
  PROVE  /\ b \in ActivationType /\ b.results = rs
         /\ b.flow = a.flow /\ b.live = a.live /\ b.db = a.db /\ b.rowCount = a.rowCount
         /\ b.before = a.before /\ b.envDB = a.envDB /\ b.stack = a.stack
BY DEF ActivationType

(* The running activation's innermost block *)
LEMMA TopIs ==
  ASSUME IInv, Running, Len(Cur.stack) > 0
  PROVE  /\ Cur \in ActivationType /\ Cur.stack \in Seq(BlockType) /\ Cur.stack # <<>>
         /\ Len(Cur.stack) \in DOMAIN Cur.stack
         /\ Top = Cur.stack[Len(Cur.stack)] /\ Top \in BlockType
         /\ Front(Cur.stack) = SubSeq(Cur.stack, 1, Len(Cur.stack) - 1)
         /\ Top.todo # <<>> => Stmt \in Statement /\ Tail(Top.todo) \in Seq(Statement)
<1>1. Cur \in ActivationType /\ Cur.stack \in Seq(BlockType) /\ Cur.stack # <<>>
  BY CurIs DEF ActivationType
<1>2. /\ Len(Cur.stack) \in DOMAIN Cur.stack
      /\ Top = Cur.stack[Len(Cur.stack)] /\ Top \in BlockType
      /\ Front(Cur.stack) = SubSeq(Cur.stack, 1, Len(Cur.stack) - 1)
  BY <1>1, Fronts DEF Top
<1>3. Top.todo # <<>> => Stmt \in Statement /\ Tail(Top.todo) \in Seq(Statement)
  <2>1. Top.todo \in Seq(Statement)
    BY <1>2 DEF BlockType
  <2> QED BY <2>1 DEF Stmt
<1> QED BY <1>1, <1>2, <1>3

(* It goes on as another block of its kind, with its error *)
LEMMA TopSet ==
  ASSUME IInv, Running, Len(Cur.stack) > 0,
         NEW f \in BlockType, f.kind = Top.kind, f.err = Top.err, f.mark = Top.mark
  PROVE  /\ SetTop(f) \in ActivationType
         /\ SetTop(f).flow = Cur.flow /\ SetTop(f).live = Cur.live
         /\ SetTop(f).db = Cur.db /\ SetTop(f).rowCount = Cur.rowCount
         /\ SetTop(f).before = Cur.before /\ SetTop(f).envDB = Cur.envDB
         /\ SetTop(f).results = Cur.results
         /\ SetTop(f).stack \in Seq(BlockType) /\ SetTop(f).stack # <<>>
         /\ SetTop(f).stack[Len(SetTop(f).stack)] = f
         /\ BlocksFit(SetTop(f).stack, Above(calls, Len(calls)), Len(Cur.results))
         /\ Continued(Cur.stack, SetTop(f).stack) /\ Len(SetTop(f).stack) = Len(Cur.stack)
<1> DEFINE st == Append(SubSeq(Cur.stack, 1, Len(Cur.stack) - 1), f)
<1>1. SetTop(f) = [Cur EXCEPT !.stack = st]
  BY TopIs DEF SetTop
<1>2. /\ Cur \in ActivationType /\ Cur.stack \in Seq(BlockType)
      /\ Len(Cur.stack) \in DOMAIN Cur.stack /\ Len(Cur.stack) - 1 \in 0..Len(Cur.stack)
      /\ Top = Cur.stack[Len(Cur.stack)]
  <2>1. \A s \in Seq(BlockType) : Len(s) > 0 => Len(s) - 1 \in 0..Len(s)
    OBVIOUS
  <2> QED BY <2>1, TopIs
<1>3. st \in Seq(BlockType) /\ Len(st) = Len(Cur.stack) /\ st[Len(st)] = f /\ st # <<>>
  <2>1. (Len(Cur.stack) - 1) + 1 = Len(Cur.stack)
    BY <1>2
  <2>2. st \in Seq(BlockType) /\ Len(st) = Len(Cur.stack) /\ st[Len(Cur.stack)] = f
    BY <1>2, <2>1, NewEnd
  <2> HIDE DEF st
  <2> QED BY <2>2
<1>4. BlocksFit(st, Above(calls, Len(calls)), Len(Cur.results)) /\ Continued(Cur.stack, st)
  <2>1. BlocksFit(Cur.stack, Above(calls, Len(calls)), Len(Cur.results))
    BY CurIs
  <2> QED BY <1>2, <2>1, FitSame
<1> HIDE DEF st
<1> QED BY <1>1, <1>2, <1>3, <1>4, WithStack

LEMMA AdvanceIs ==
  ASSUME IInv, Running, Len(Cur.stack) > 0, Top.todo # <<>>
  PROVE  /\ Advance \in ActivationType
         /\ Advance.flow = Cur.flow /\ Advance.live = Cur.live
         /\ Advance.db = Cur.db /\ Advance.rowCount = Cur.rowCount
         /\ Advance.before = Cur.before /\ Advance.envDB = Cur.envDB
         /\ Advance.results = Cur.results
         /\ Advance.stack \in Seq(BlockType) /\ Advance.stack # <<>>
         /\ Advance.stack[Len(Advance.stack)].err = Top.err
         /\ BlocksFit(Advance.stack, Above(calls, Len(calls)), Len(Cur.results))
         /\ Continued(Cur.stack, Advance.stack) /\ Len(Advance.stack) = Len(Cur.stack)
<1> DEFINE f == [Top EXCEPT !.todo = Tail(@)]
<1>1. f \in BlockType /\ f.kind = Top.kind /\ f.err = Top.err /\ f.mark = Top.mark
  BY TopIs DEF BlockType
<1>2. Advance = SetTop(f)
  BY DEF Advance
<1> HIDE DEF f
<1> QED BY <1>1, <1>2, TopSet

(* A statement hands over a result *)
LEMMA DeliverIs ==
  ASSUME IInv, Running, Len(Cur.stack) > 0, Top.todo # <<>>,
         NEW r \in ResultType, r.due = asked, calls' = SetCur(Deliver(r)), SessionKept
  PROVE  StepGoal
<1>1. /\ Cur \in ActivationType /\ Cur.flow \in BOOLEAN /\ Cur.results \in Seq(ResultType)
      /\ Cur.live => SessRowCount(Cur) = asked
      /\ SessRowCount(Cur) \in Nat
  BY CurIs DEF ActivationType, SessRowCount, IInv, ResultsInv, StateTypes
<1>2. Limit(r, SessRowCount(Cur)) \in ResultType /\ Limit(r, SessRowCount(Cur)).due = asked
  BY <1>1 DEF Limit, ResultType
<1>3. Cur.live => Capped(Limit(r, SessRowCount(Cur)))
  <2>1. r.rows \in Nat /\ asked \in Nat
    BY DEF ResultType, IInv, StateTypes
  <2>2. Capped(Limit(r, asked))
    BY <2>1 DEF Capped, Limit, ResultType
  <2> QED BY <1>1, <2>2
<1>4. MayGet(Limit(r, SessRowCount(Cur))) /\ (r.from = "affected" \/ Cur.flow => MayGet(r))
  BY <1>2, <1>3 DEF MayGet, Capped
<1>5. ASSUME NEW x, MayGet(x), calls' = SetCur([Advance EXCEPT !.results = Append(@, x)])
      PROVE  StepGoal
  <2> DEFINE b == [Advance EXCEPT !.results = Append(@, x)]
  <2>1. Advance.results = Cur.results /\ x \in ResultType
    BY <1>5, AdvanceIs DEF MayGet
  <2> DEFINE rs == Append(Cur.results, x)
  <2>2. b = [Advance EXCEPT !.results = rs] /\ rs \in Seq(ResultType)
    BY <1>1, <2>1
  <2>3. /\ b \in ActivationType /\ b.results = rs
        /\ b.flow = Advance.flow /\ b.live = Advance.live /\ b.db = Advance.db
        /\ b.before = Advance.before /\ b.envDB = Advance.envDB /\ b.stack = Advance.stack
    <3>1. Advance \in ActivationType
      BY AdvanceIs
    <3> HIDE DEF b, rs
    <3> QED BY <2>2, <3>1, WithResults
  <2>4. calls' = SetCur(b)
    BY <1>5
  <2> HIDE DEF b
  <2> QED BY <1>5, <2>3, <2>4, AdvanceIs, GoesOn
<1>6. ASSUME calls' = SetCur(Advance)
      PROVE  StepGoal
  BY <1>6, AdvanceIs, GoesOn
<1> QED BY <1>1, <1>4, <1>5, <1>6 DEF Deliver

-----------------------------------------------------------------------------
(* One lemma per action *)

LEMMA EndBlockStep ==
  ASSUME IInv, EndBlock
  PROVE  StepGoal
<1> DEFINE st == SubSeq(Cur.stack, 1, Len(Cur.stack) - 1)
           b == [Cur EXCEPT !.stack = st]
<1>1. Running /\ Len(Cur.stack) > 0
  BY DEF EndBlock, BlockDone
<1>2. SessionKept
  BY DEF EndBlock, SessionKept, IInv, StateTypes, SessionFollows, TempIsOfBatch, BlockDone
<1>3. calls' = SetCur(b)
  BY <1>1, TopIs DEF EndBlock
<1>4. Len(Cur.stack) - 1 \in 0..Len(Cur.stack)
  <2>1. \A s \in Seq(BlockType) : Len(s) > 0 => Len(s) - 1 \in 0..Len(s)
    OBVIOUS
  <2> QED BY <1>1, <2>1, TopIs
<1>5. st \in Seq(BlockType)
  BY <1>1, <1>4, TopIs, Prefix
<1>6. BlocksFit(st, Above(calls, Len(calls)), Len(Cur.results)) /\ Continued(Cur.stack, st)
  BY <1>1, <1>4, CurIs, TopIs, FitClosed
<1> HIDE DEF st
<1>7. /\ b \in ActivationType /\ b.stack = st
      /\ b.flow = Cur.flow /\ b.live = Cur.live
      /\ b.before = Cur.before /\ b.envDB = Cur.envDB /\ b.results = Cur.results
  BY <1>1, <1>5, TopIs, WithStack
<1> HIDE DEF b
<1> QED BY <1>1, <1>2, <1>3, <1>6, <1>7, GoesOn

(* Statements that only hand over a result *)
LEMMA SelectStep ==
  ASSUME IInv, Select \/ BrokenSelect \/ Write
  PROVE  StepGoal
<1>1. Running /\ Len(Cur.stack) > 0 /\ Top.todo # <<>>
  BY DEF Select, BrokenSelect, Write, At
<1>2. SessionKept
  BY <1>1 DEF Select, BrokenSelect, Write, SessionKept, IInv, StateTypes, SessionFollows, TempIsOfBatch
<1>3. SessDb(Cur) \in Db
  BY <1>1, CurIs DEF SessDb, ActivationType, IInv, StateTypes
<1>4. /\ Rows(SessDb(Cur), TableRows) \in ResultType
      /\ Rows("broken", 0) \in ResultType /\ Rows("affected", 1) \in ResultType
  BY <1>3, BatchAssumption DEF Rows, ResultType, IInv, StateTypes
<1>5. PICK r \in ResultType : r.due = asked /\ calls' = SetCur(Deliver(r))
  BY <1>4 DEF Select, BrokenSelect, Write, Rows
<1> QED BY <1>1, <1>2, <1>5, DeliverIs

LEMMA TempStep ==
  ASSUME IInv, CreateTemp \/ InsertTemp \/ ReadTemp
  PROVE  StepGoal
<1>1. Running /\ Len(Cur.stack) > 0 /\ Top.todo # <<>>
  BY DEF CreateTemp, InsertTemp, ReadTemp, At
<1>2. temp \in Nat \cup {NoTable} /\ number \in 0..MaxBatches /\ asked \in Nat /\ tempOf \in 0..MaxBatches
  BY DEF IInv, StateTypes
<1>3. temp # NoTable => tempOf = number
  BY <1>1 DEF IInv, SessionFollows, TempIsOfBatch
<1>4. SessionKept
  BY <1>2, <1>3 DEF CreateTemp, InsertTemp, ReadTemp, SessionKept, NoTable
<1>5. PICK r \in ResultType : r.due = asked /\ calls' = SetCur(Deliver(r))
  <2>1. \A n \in Nat : Rows("affected", n) \in ResultType /\ Rows("temp", n) \in ResultType
    BY <1>2 DEF Rows, ResultType
  <2>2. \A n \in Nat : Rows("affected", n).due = asked /\ Rows("temp", n).due = asked
    BY DEF Rows
  <2> QED BY <1>2, <2>1, <2>2 DEF CreateTemp, InsertTemp, ReadTemp
<1> QED BY <1>1, <1>4, <1>5, DeliverIs

LEMMA UseStep ==
  ASSUME IInv, Use
  PROVE  StepGoal
<1> DEFINE own == IF Cur.live THEN Advance.db ELSE Stmt.db
           b == [Advance EXCEPT !.db = own, !.envDB = Stmt.db]
<1>1. Running /\ Len(Cur.stack) > 0 /\ Top.todo # <<>> /\ Stmt.op = "use"
  BY DEF Use, At
<1>2. Stmt.db \in Db /\ Stmt.db # None
  BY <1>1, TopIs, StatementAssumption, DbAssumption
<1>3. calls' = SetCur(b)
  BY DEF Use
<1>4. own \in Db
  BY <1>1, <1>2, AdvanceIs DEF ActivationType
<1> HIDE DEF own
<1>5. /\ b \in ActivationType /\ b.stack = Advance.stack /\ b.results = Advance.results
      /\ b.flow = Advance.flow /\ b.live = Advance.live
      /\ b.before = Advance.before /\ b.envDB = Stmt.db
  <2>1. Advance \in ActivationType
    BY <1>1, AdvanceIs
  <2> QED BY <1>2, <1>4, <2>1 DEF ActivationType
<1> HIDE DEF b
<1>6. Cur \in ActivationType /\ IsPrefix(Cur.results, b.results)
  <2>1. Cur.results \in Seq(ResultType) /\ Cur \in ActivationType
    BY <1>1, CurIs DEF ActivationType
  <2>2. IsPrefix(Cur.results, Cur.results)
    BY <2>1 DEF IsPrefix
  <2> QED BY <1>1, <1>5, <2>1, <2>2, AdvanceIs
<1>7. ResultsFit(Len(calls), b, asked)
  BY <1>1, <1>5, CurIs, AdvanceIs DEF ResultsFit
<1>8. Cur.live => Follows(b, Stmt.db, clientDb, failed)
  <2>1. Cur.live => Cur = calls[1]
    BY <1>1, CurIs
  <2> QED BY <1>1, <1>2, <1>5, <2>1, AdvanceIs DEF IInv, FollowInv, Follows
<1>9. /\ rowCount = asked /\ asked \in Nat /\ db \in Db
      /\ temp \in Nat \cup {NoTable} /\ tempOf \in 0..MaxBatches
      /\ temp # NoTable => tempOf = number
  BY <1>1 DEF IInv, ResultsInv, StateTypes, SessionFollows, TempIsOfBatch
<1>10. /\ UNCHANGED <<rowCount, temp, clientDb, reply, failed, number, asked, tempOf>>
       /\ db' = IF Cur.live THEN Stmt.db ELSE db
  BY DEF Use
<1>11. BlocksFit(b.stack, Above(calls, Len(calls)), Len(b.results)) /\ Continued(Cur.stack, b.stack)
  BY <1>1, <1>5, AdvanceIs
<1>12. b.live = Cur.live /\ b.flow = Cur.flow
  BY <1>1, <1>5, AdvanceIs
<1> QED BY <1>1, <1>2, <1>3, <1>5, <1>6, <1>7, <1>8, <1>9, <1>10, <1>11, <1>12, CurReplaced

LEMMA SetRowCountStep ==
  ASSUME IInv, SetRowCount
  PROVE  StepGoal
<1> DEFINE own == IF Cur.live THEN Advance.rowCount ELSE Stmt.n
           b == [Advance EXCEPT !.rowCount = own]
<1>1. Running /\ Len(Cur.stack) > 0 /\ Top.todo # <<>> /\ Stmt.op = "rowcount"
  BY DEF SetRowCount, At
<1>2. Stmt.n \in Nat
  BY <1>1, TopIs, StatementAssumption
<1>3. calls' = SetCur(b)
  BY DEF SetRowCount
<1>4. own \in Nat
  BY <1>1, <1>2, AdvanceIs DEF ActivationType
<1> HIDE DEF own
<1>5. /\ b \in ActivationType /\ b.stack = Advance.stack /\ b.results = Advance.results
      /\ b.flow = Advance.flow /\ b.live = Advance.live
      /\ b.before = Advance.before /\ b.envDB = Advance.envDB
  <2>1. Advance \in ActivationType
    BY <1>1, AdvanceIs
  <2> QED BY <1>4, <2>1 DEF ActivationType
<1> HIDE DEF b
<1>6. Cur \in ActivationType /\ IsPrefix(Cur.results, b.results)
  <2>1. Cur.results \in Seq(ResultType) /\ Cur \in ActivationType
    BY <1>1, CurIs DEF ActivationType
  <2>2. IsPrefix(Cur.results, Cur.results)
    BY <2>1 DEF IsPrefix
  <2> QED BY <1>1, <1>5, <2>1, <2>2, AdvanceIs
<1>7. /\ UNCHANGED <<db, temp, clientDb, reply, failed, number, tempOf>>
      /\ rowCount' = IF Cur.live THEN Stmt.n ELSE rowCount
      /\ asked' = IF Cur.live THEN Stmt.n ELSE asked
  BY DEF SetRowCount
<1>8. ResultsFit(Len(calls), b, asked')
  <2>1. ResultsFit(Len(calls), Cur, asked) /\ (Cur.live <=> Len(calls) = 1)
    BY <1>1, CurIs
  <2>2. b.results = Cur.results /\ b.flow = Cur.flow
    BY <1>1, <1>5, AdvanceIs
  <2> QED BY <1>7, <2>1, <2>2 DEF ResultsFit
<1>9. Cur.live => Follows(b, db, clientDb, failed)
  <2>1. Cur.live => Cur = calls[1]
    BY <1>1, CurIs
  <2> QED BY <1>1, <1>5, <2>1, AdvanceIs DEF IInv, FollowInv, Follows
<1>10. /\ rowCount = asked /\ asked \in Nat /\ db \in Db
       /\ temp \in Nat \cup {NoTable} /\ tempOf \in 0..MaxBatches
       /\ temp # NoTable => tempOf = number
  BY <1>1 DEF IInv, ResultsInv, StateTypes, SessionFollows, TempIsOfBatch
<1>11. BlocksFit(b.stack, Above(calls, Len(calls)), Len(b.results)) /\ Continued(Cur.stack, b.stack)
  BY <1>1, <1>5, AdvanceIs
<1>12. b.live = Cur.live /\ b.flow = Cur.flow
  BY <1>1, <1>5, AdvanceIs
<1>13. rowCount' = asked' /\ asked' \in Nat
  BY <1>2, <1>7, <1>10
<1> QED BY <1>1, <1>3, <1>5, <1>6, <1>7, <1>8, <1>9, <1>10, <1>11, <1>12, <1>13, CurReplaced

(* The state of a statement that only moves the interpreter *)
LEMMA Untouched ==
  ASSUME IInv, Running, UNCHANGED <<db, rowCount, temp, clientDb, reply, failed, number, asked, tempOf>>
  PROVE  SessionKept
BY DEF SessionKept, IInv, StateTypes, SessionFollows, TempIsOfBatch

LEMMA FrameIs ==
  ASSUME NEW kind \in {"block", "while", "try", "catch"}, NEW stmts \in Seq(Statement),
         NEW err \in ErrorName, NEW f, f = Frame(kind, stmts, err)
  PROVE  f \in BlockType /\ f.kind = kind /\ f.err = err
<1>1. <<>> \in Seq(Statement) /\ 0 \in 0..MaxWhile /\ 0 \in Nat
  BY BatchAssumption
<1> QED BY <1>1 DEF Frame, BlockType

(* A block is opened *)
LEMMA EnterStep ==
  ASSUME IInv, Running, Len(Cur.stack) > 0, Top.todo # <<>>, SessionKept,
         NEW f \in BlockType, f.kind # "catch", f.err = Top.err,
         f.kind = "try" => f.mark = Len(Cur.results),
         calls' = SetCur(Enter(f))
  PROVE  StepGoal
<1> DEFINE st == Append(Advance.stack, f)
           b == [Advance EXCEPT !.stack = st]
<1>1. calls' = SetCur(b)
  BY DEF Enter
<1>2. st \in Seq(BlockType)
  BY AdvanceIs
<1>3. BlocksFit(st, Above(calls, Len(calls)), Len(Cur.results)) /\ Continued(Cur.stack, st)
  <2>1. Len(Cur.results) \in Nat
    BY CurIs DEF ActivationType
  <2>2. BlocksFit(st, Above(calls, Len(calls)), Len(Cur.results)) /\ Continued(Advance.stack, st)
    BY <2>1, AdvanceIs, FitOpened
  <2>3. DOMAIN Cur.stack = DOMAIN Advance.stack
    <3>1. Cur.stack \in Seq(BlockType) /\ Advance.stack \in Seq(BlockType)
      BY TopIs, AdvanceIs
    <3>2. Len(Advance.stack) = Len(Cur.stack)
      BY AdvanceIs
    <3> QED BY <3>1, <3>2
  <2> HIDE DEF st
  <2> QED BY <2>2, <2>3, AdvanceIs DEF Continued
<1> HIDE DEF st
<1>4. /\ b \in ActivationType /\ b.stack = st
      /\ b.flow = Advance.flow /\ b.live = Advance.live
      /\ b.before = Advance.before /\ b.envDB = Advance.envDB /\ b.results = Advance.results
  <2>1. Advance \in ActivationType
    BY AdvanceIs
  <2> QED BY <1>2, <2>1, WithStack
<1> HIDE DEF b
<1> QED BY <1>1, <1>3, <1>4, AdvanceIs, GoesOn

LEMMA WhileStep ==
  ASSUME IInv, While \/ Try
  PROVE  StepGoal
<1>1. Running /\ Len(Cur.stack) > 0 /\ Top.todo # <<>> /\ Stmt.op \in {"while", "try"}
  BY DEF While, Try, At
<1>2. SessionKept
  BY <1>1, Untouched DEF While, Try
<1>3. Top.err \in ErrorName /\ Len(Cur.results) \in Nat /\ <<>> \in Seq(Statement)
  BY <1>1, TopIs DEF BlockType, ActivationType
<1>4. Stmt.body \in Seq(Statement) /\ (Stmt.op = "try" => Stmt.catch \in Seq(Statement))
  <2>1. Stmt \in Statement
    BY <1>1, TopIs
  <2>2. Blocks(Stmt) \subseteq Seq(Statement)
    BY <2>1, StatementAssumption
  <2> QED BY <1>1, <2>2 DEF Blocks
<1>5. CASE While
  <2> DEFINE f == [Frame("while", <<>>, Top.err) EXCEPT !.body = Stmt.body]
  <2>1. f \in BlockType /\ f.kind = "while" /\ f.err = Top.err
    <3> DEFINE g == Frame("while", <<>>, Top.err)
    <3>1. g \in BlockType /\ g.kind = "while" /\ g.err = Top.err
      BY <1>3, BatchAssumption DEF Frame, BlockType
    <3> HIDE DEF g
    <3>2. [g EXCEPT !.body = Stmt.body] \in BlockType
      BY <1>4, <3>1 DEF BlockType
    <3>3. f = [g EXCEPT !.body = Stmt.body]
      BY DEF g
    <3> QED BY <3>1, <3>2, <3>3 DEF BlockType
  <2>2. calls' = SetCur(Enter(f))
    BY <1>5 DEF While
  <2> HIDE DEF f
  <2> QED BY <1>1, <1>2, <2>1, <2>2, EnterStep
<1>6. CASE Try
  <2> DEFINE f == [Frame("try", Stmt.body, Top.err) EXCEPT !.catch = Stmt.catch, !.mark = Len(Cur.results)]
  <2>0. Stmt.op = "try"
    BY <1>6 DEF Try, At
  <2>1. f \in BlockType /\ f.kind = "try" /\ f.err = Top.err /\ f.mark = Len(Cur.results)
    <3> DEFINE g == Frame("try", Stmt.body, Top.err)
    <3>1. g \in BlockType /\ g.kind = "try" /\ g.err = Top.err
      BY <1>3, <1>4, FrameIs
    <3> HIDE DEF g
    <3>2. [g EXCEPT !.catch = Stmt.catch, !.mark = Len(Cur.results)] \in BlockType
      BY <1>3, <1>4, <2>0, <3>1 DEF BlockType
    <3>3. f = [g EXCEPT !.catch = Stmt.catch, !.mark = Len(Cur.results)]
      BY DEF g
    <3> QED BY <3>1, <3>2, <3>3 DEF BlockType
  <2>2. calls' = SetCur(Enter(f))
    BY <1>6 DEF Try
  <2> HIDE DEF f
  <2> QED BY <1>1, <1>2, <2>1, <2>2, EnterStep
<1> QED BY <1>5, <1>6

-----------------------------------------------------------------------------
(* Failing *)

LEMMA ErrorAnswered ==
  ASSUME IInv, Running, AnswerError,
         UNCHANGED <<db, rowCount, temp, number, asked, tempOf>>, clientDb' = clientDb
  PROVE  StepGoal
<1>1. calls' = <<>> /\ DOMAIN calls' = {} /\ Len(calls') = 0 /\ failed' /\ reply'.kind = "error"
  BY DEF AnswerError
<1>2. StateTypes'
  BY <1>1 DEF IInv, StateTypes, AnswerError
<1>3. Nested'
  BY <1>1, BatchAssumption DEF Nested
<1>4. BlocksInv' /\ ResultsInv' /\ FollowInv'
  BY <1>1 DEF IInv, BlocksInv, ResultsInv, FollowInv, Running
<1>5. SessionFollows'
  BY <1>1 DEF SessionFollows, TracksUntilError, RowCountAppliesFlat, TempIsOfBatch, Running
<1>6. ProcLeaves /\ ResultsGrow /\ BlockErrors
  BY <1>1 DEF ProcLeaves, ResultsGrow, BlockErrors
<1> QED BY <1>2, <1>3, <1>4, <1>5, <1>6 DEF IInv, StepGoal

(* What an activation is that has caught an error *)
LEMMA CaughtIs ==
  ASSUME NEW a \in ActivationType, NEW above, BlocksFit(a.stack, above, Len(a.results)),
         Tries(a) # {}, NEW err \in ErrorName, err # None, NEW b, b = Caught(a, err)
  PROVE  /\ b \in ActivationType
         /\ b.flow = a.flow /\ b.live = a.live /\ b.before = a.before /\ b.envDB = a.envDB
         /\ BlocksFit(b.stack, above, Len(b.results))
         /\ b.results = SubSeq(a.results, 1, a.stack[Innermost(Tries(a))].mark)
         /\ Len(b.results) <= Len(a.results) /\ Len(b.results) \in Nat
         /\ \A j \in DOMAIN b.results : j \in DOMAIN a.results /\ b.results[j] = a.results[j]
<1> DEFINE i == Innermost(Tries(a))
           t == a.stack[i]
           f == Frame("catch", t.catch, err)
           st == Append(SubSeq(a.stack, 1, i - 1), f)
           rs == SubSeq(a.results, 1, t.mark)
<1>1. a.stack \in Seq(BlockType) /\ a.results \in Seq(ResultType)
  BY DEF ActivationType
<1>2. i \in DOMAIN a.stack /\ t.kind = "try" /\ i \in 1..Len(a.stack)
  <2>1. Tries(a) \subseteq 1..Len(a.stack) /\ Len(a.stack) \in Nat
    BY <1>1 DEF Tries
  <2>2. i \in Tries(a)
    BY <2>1, InnermostIs
  <2> QED BY <2>1, <2>2 DEF Tries
<1>3. t \in BlockType
  BY <1>1, <1>2
<1>4. f \in BlockType /\ f.kind = "catch" /\ f.err = err
  <2>1. t.catch \in Seq(Statement)
    BY <1>3 DEF BlockType
  <2> HIDE DEF t
  <2> QED BY <2>1, FrameIs
<1>5. t.mark \in 0..Len(a.results)
  <2>1. t.mark \in Nat
    BY <1>3 DEF BlockType
  <2>2. t.mark <= Len(a.results)
    BY <1>2 DEF BlocksFit, MarksFit
  <2> QED BY <1>1, <2>1, <2>2
<1>6. /\ rs \in Seq(ResultType) /\ Len(rs) = t.mark /\ Len(rs) <= Len(a.results) /\ Len(rs) \in Nat
      /\ \A j \in DOMAIN rs : j \in DOMAIN a.results /\ rs[j] = a.results[j]
  <2>1. /\ rs \in Seq(ResultType) /\ Len(rs) = t.mark /\ DOMAIN rs = 1..t.mark
        /\ \A j \in 1..t.mark : rs[j] = a.results[j]
    BY <1>1, <1>5, Prefix
  <2>2. DOMAIN a.results = 1..Len(a.results)
    BY <1>1
  <2>3. \A j \in 1..t.mark : j \in 1..Len(a.results)
    BY <1>1, <1>5
  <2> HIDE DEF rs, t
  <2> QED BY <1>1, <1>5, <2>1, <2>2, <2>3
<1>7. st \in Seq(BlockType)
  <2>1. i - 1 \in 0..Len(a.stack)
    BY <1>1, <1>2
  <2> HIDE DEF f, i
  <2> QED BY <1>1, <1>4, <2>1, NewEnd
<1>8. BlocksFit(st, above, t.mark)
  <2> HIDE DEF f, i
  <2> QED BY <1>1, <1>2, <1>4, FitCaught
<1>9. b = [a EXCEPT !.stack = st, !.results = rs]
  BY DEF Caught
<1> HIDE DEF st, rs, f, t, i
<1>10. /\ b \in ActivationType /\ b.stack = st /\ b.results = rs
       /\ b.flow = a.flow /\ b.live = a.live /\ b.before = a.before /\ b.envDB = a.envDB
  BY <1>6, <1>7, <1>9 DEF ActivationType
<1> QED BY <1>6, <1>8, <1>10 DEF rs, t, i

(* Its innermost block: the CATCH in the place of the innermost TRY *)
Reopened(st, a, err) ==
  /\ Len(st) \in Tries(a) /\ \A l \in Tries(a) : l <= Len(st)
  /\ st[Len(st)].kind = "catch" /\ st[Len(st)].err = err
  /\ \A l \in 1..(Len(st) - 1) : st[l] = a.stack[l]

LEMMA CaughtOpens ==
  ASSUME NEW a \in ActivationType, Tries(a) # {}, NEW err \in ErrorName
  PROVE  Reopened(Caught(a, err).stack, a, err)
<1> DEFINE i == Innermost(Tries(a))
           t == a.stack[i]
           f == Frame("catch", t.catch, err)
           st == Append(SubSeq(a.stack, 1, i - 1), f)
<1>1. a.stack \in Seq(BlockType) /\ Tries(a) \subseteq 1..Len(a.stack) /\ Len(a.stack) \in Nat
  BY DEF ActivationType, Tries
<1>2. i \in Tries(a) /\ (\A l \in Tries(a) : l <= i) /\ i \in DOMAIN a.stack
  BY <1>1, InnermostIs DEF Tries
<1>3. i - 1 \in 0..Len(a.stack) /\ (i - 1) + 1 = i
  BY <1>1, <1>2
<1>4. f \in BlockType /\ f.kind = "catch" /\ f.err = err
  <2>1. t \in BlockType
    BY <1>1, <1>2
  <2>2. t.catch \in Seq(Statement)
    BY <2>1 DEF BlockType
  <2> HIDE DEF t
  <2> QED BY <2>2, FrameIs
<1>5. Caught(a, err).stack = st
  BY DEF Caught, ActivationType
<1> HIDE DEF f, t, i
<1>6. Len(st) = i /\ st[i] = f /\ \A l \in 1..(i - 1) : st[l] = a.stack[l]
  BY <1>1, <1>3, <1>4, NewEnd
<1> HIDE DEF st
<1> QED BY <1>2, <1>4, <1>5, <1>6 DEF Reopened

LEMMA FailStep ==
  ASSUME IInv, Running, NEW err \in ErrorName, err # None, Fail(err), err = Raised,
         UNCHANGED <<db, rowCount, temp, number, asked, tempOf>>, clientDb' = clientDb
  PROVE  StepGoal
<1> DEFINE catching == {i \in DOMAIN calls : Tries(calls[i]) # {}}
           k == Innermost(catching)
           a == Caught(calls[k], err)
<1>1. CASE catching = {}
  BY <1>1, ErrorAnswered DEF Fail
<1>2. CASE catching # {}
  <2>1. calls' = Append(SubSeq(calls, 1, k - 1), a) /\ KeepReply
    BY <1>2 DEF Fail
  <2>2. calls \in Seq(ActivationType)
    BY DEF IInv, Nested
  <2>3. /\ k \in DOMAIN calls /\ Tries(calls[k]) # {}
        /\ \A m \in (k + 1)..Len(calls) : Tries(calls[m]) = {}
    <3>1. catching \subseteq 1..Len(calls) /\ Len(calls) \in Nat /\ DOMAIN calls = 1..Len(calls)
      BY <2>2
    <3>2. k \in catching /\ \A m \in catching : m <= k
      BY <1>2, <3>1, InnermostIs
    <3>3. \A m \in (k + 1)..Len(calls) : m \in DOMAIN calls /\ ~(m <= k)
      <4> HIDE DEF k
      <4> QED BY <3>1, <3>2
    <3> HIDE DEF k
    <3> QED BY <3>2, <3>3
  <2> HIDE DEF k
  <2>4. /\ calls[k] \in ActivationType /\ (calls[k].live <=> k = 1)
        /\ BlocksFit(calls[k].stack, Above(calls, k), Len(calls[k].results))
        /\ ResultsFit(k, calls[k], asked)
    BY <2>2, <2>3 DEF IInv, Nested, BlocksInv, ResultsInv
  <2>5. a = Caught(calls[k], err)
    OBVIOUS
  <2> HIDE DEF a
  <2>6. /\ a \in ActivationType
        /\ a.flow = calls[k].flow /\ a.live = calls[k].live
        /\ a.before = calls[k].before /\ a.envDB = calls[k].envDB
        /\ BlocksFit(a.stack, Above(calls, k), Len(a.results))
        /\ a.results = SubSeq(calls[k].results, 1, calls[k].stack[Innermost(Tries(calls[k]))].mark)
        /\ \A j \in DOMAIN a.results : j \in DOMAIN calls[k].results /\ a.results[j] = calls[k].results[j]
    <3>1. /\ calls[k] \in ActivationType /\ Tries(calls[k]) # {}
          /\ BlocksFit(calls[k].stack, Above(calls, k), Len(calls[k].results))
      BY <2>3, <2>4
    <3> QED BY <2>5, <3>1, CaughtIs
  <2>7. ResultsFit(k, a, asked)
    BY <2>4, <2>6 DEF ResultsFit
  <2>8. k = 1 => Follows(a, db, clientDb, failed)
    BY <2>6 DEF IInv, FollowInv, Follows
  <2>9. ResultsGrown(calls[k], a)
    BY <2>3, <2>6 DEF ResultsGrown
  <2>10. /\ rowCount = asked /\ asked \in Nat /\ db \in Db
         /\ temp \in Nat \cup {NoTable} /\ tempOf \in 0..MaxBatches
         /\ temp # NoTable => tempOf = number
    BY DEF IInv, ResultsInv, StateTypes, SessionFollows, TempIsOfBatch
  <2>11. IInv'
    BY <2>1, <2>3, <2>4, <2>6, <2>7, <2>8, <2>10, Replaced DEF KeepReply
  <2>12. BlocksGo(k, a)
    <3>1. Reopened(a.stack, calls[k], err)
      BY <2>3, <2>4, <2>5, CaughtOpens
    <3> QED BY <2>3, <3>1 DEF BlocksGo, Opened, Reopened, Tries
  <2>13. ProcLeaves /\ ResultsGrow /\ BlockErrors
    BY <2>1, <2>3, <2>6, <2>9, <2>12, ReplacedKeeps
  <2> QED BY <2>11, <2>13 DEF StepGoal
<1> QED BY <1>1, <1>2

LEMMA ErrorStep ==
  ASSUME IInv, Error \/ Panic \/ Throw
  PROVE  StepGoal
<1>1. Running
  BY DEF Error, Panic, Throw, At
<1>2. CASE Error
  <2>1. ~BlockDone /\ ~At("if") /\ ~At("throw")
    BY <1>2 DEF Error, At, BlockDone
  <2>2. Raised = "backend"
    BY <2>1 DEF Raised
  <2> QED BY <1>1, <1>2, <2>2, FailStep DEF Error, ErrorName, None
<1>3. CASE Panic
  BY <1>1, <1>3, ErrorAnswered DEF Panic
<1>4. CASE Throw
  <2> DEFINE err == IF Stmt.bare THEN IF Top.err # None THEN Top.err ELSE "no_catch" ELSE "user"
  <2>1. Len(Cur.stack) > 0
    BY <1>4 DEF Throw, At
  <2>2. Top.err \in ErrorName
    BY <1>1, <2>1, TopIs DEF BlockType
  <2>3. err \in ErrorName /\ err # None
    BY <2>2 DEF ErrorName, None
  <2>4. Fail(err)
    BY <1>4 DEF Throw
  <2>5. UNCHANGED <<db, rowCount, temp, clientDb, number, asked, tempOf>>
    BY <1>4 DEF Throw
  <2>6. ~BlockDone /\ ~At("if") /\ At("throw") /\ Stmt.bare \in BOOLEAN
    <3>1. Running /\ Len(Cur.stack) > 0 /\ Top.todo # <<>> /\ Stmt.op = "throw" /\ At("throw")
      BY <1>4 DEF Throw, At
    <3> QED BY <3>1, TopIs, StatementAssumption DEF At, BlockDone
  <2>7. err = Raised
    BY <2>6 DEF Raised
  <2> HIDE DEF err
  <2> QED BY <1>1, <2>3, <2>4, <2>5, <2>7, FailStep
<1> QED BY <1>2, <1>3, <1>4

LEMMA IfStep ==
  ASSUME IInv, If
  PROVE  StepGoal
<1>1. Running /\ Len(Cur.stack) > 0 /\ Top.todo # <<>> /\ Stmt.op = "if"
  BY DEF If, At
<1>2. UNCHANGED <<db, rowCount, temp, clientDb, number, asked, tempOf>>
  BY DEF If
<1>3. ASSUME NEW branch \in {Stmt.then, Stmt.else},
             calls' = SetCur(Enter(Frame("block", branch, Top.err))), KeepReply
      PROVE  StepGoal
  <2>1. branch \in Seq(Statement)
    <3>1. Blocks(Stmt) \subseteq Seq(Statement)
      BY <1>1, TopIs, StatementAssumption
    <3> QED BY <1>1, <3>1 DEF Blocks
  <2>2. Top.err \in ErrorName
    BY <1>1, TopIs DEF BlockType
  <2> DEFINE f == Frame("block", branch, Top.err)
  <2>3. f \in BlockType /\ f.kind = "block" /\ f.err = Top.err
    BY <2>1, <2>2, FrameIs
  <2>4. SessionKept
    BY <1>1, <1>2, <1>3, Untouched DEF KeepReply
  <2>5. calls' = SetCur(Enter(f))
    BY <1>3
  <2> HIDE DEF f
  <2> QED BY <1>1, <2>3, <2>4, <2>5, EnterStep
<1>4. CASE CondsFail /\ Fail("condition")
  <2>1. ~BlockDone /\ At("if")
    BY <1>1 DEF If, At, BlockDone
  <2>2. Raised = "condition"
    BY <2>1 DEF Raised, At
  <2> QED BY <1>1, <1>2, <1>4, <2>2, FailStep DEF ErrorName, None
<1> QED BY <1>3, <1>4 DEF If

-----------------------------------------------------------------------------
(* Leaving blocks, and the rounds of a WHILE *)

(* The running activation keeps other blocks *)
LEMMA Restacked ==
  ASSUME IInv, Running, SessionKept, NEW st \in Seq(BlockType),
         BlocksFit(st, Above(calls, Len(calls)), Len(Cur.results)), Continued(Cur.stack, st),
         calls' = SetCur([Cur EXCEPT !.stack = st])
  PROVE  StepGoal
<1> DEFINE b == [Cur EXCEPT !.stack = st]
<1>1. Cur \in ActivationType
  BY CurIs
<1>2. /\ b \in ActivationType /\ b.stack = st
      /\ b.flow = Cur.flow /\ b.live = Cur.live
      /\ b.before = Cur.before /\ b.envDB = Cur.envDB /\ b.results = Cur.results
  BY <1>1, WithStack
<1>3. calls' = SetCur(b)
  OBVIOUS
<1> HIDE DEF b
<1> QED BY <1>2, <1>3, GoesOn

LEMMA NoBlocks ==
  ASSUME NEW above, NEW size, NEW st
  PROVE  <<>> \in Seq(BlockType) /\ BlocksFit(<<>>, above, size) /\ Continued(st, <<>>)
BY DEF BlocksFit, ErrorsFit, MarksFit, Continued

LEMMA LeaveStep ==
  ASSUME IInv, Return \/ BreakOrContinue
  PROVE  StepGoal
<1>1. Running /\ Len(Cur.stack) > 0
  BY DEF Return, BreakOrContinue, At
<1>2. SessionKept
  BY <1>1, Untouched DEF Return, BreakOrContinue
<1>3. /\ Cur.stack \in Seq(BlockType)
      /\ BlocksFit(Cur.stack, Above(calls, Len(calls)), Len(Cur.results))
  BY <1>1, TopIs, CurIs
<1>4. CASE calls' = SetCur([Cur EXCEPT !.stack = <<>>])
  BY <1>1, <1>2, <1>4, NoBlocks, Restacked
<1>5. CASE BreakOrContinue /\ Loops # {}
  <2> DEFINE i == Innermost(Loops)
             f == [Cur.stack[i] EXCEPT !.todo = <<>>]
             st == IF Stmt.op = "break" THEN SubSeq(Cur.stack, 1, i - 1)
                   ELSE Append(SubSeq(Cur.stack, 1, i - 1), f)
  <2>1. i \in DOMAIN Cur.stack /\ i - 1 \in 0..Len(Cur.stack)
    <3>1. Loops \subseteq 1..Len(Cur.stack) /\ Len(Cur.stack) \in Nat
      BY <1>3 DEF Loops
    <3>2. i \in Loops
      BY <1>5, <3>1, InnermostIs
    <3>3. \A x \in 1..Len(Cur.stack) : x - 1 \in 0..Len(Cur.stack)
      BY <3>1
    <3>4. DOMAIN Cur.stack = 1..Len(Cur.stack)
      BY <1>3
    <3> HIDE DEF i
    <3> QED BY <3>1, <3>2, <3>3, <3>4
  <2>2. calls' = SetCur([Cur EXCEPT !.stack = st])
    BY <1>5 DEF BreakOrContinue
  <2> HIDE DEF i
  <2>4. f \in BlockType /\ f.kind = Cur.stack[i].kind /\ f.err = Cur.stack[i].err /\ f.mark = Cur.stack[i].mark
    <3> DEFINE g == Cur.stack[i]
    <3>1. g \in BlockType /\ <<>> \in Seq(Statement)
      BY <1>3, <2>1
    <3> HIDE DEF g
    <3>2. /\ [g EXCEPT !.todo = <<>>] \in BlockType
          /\ [g EXCEPT !.todo = <<>>].kind = g.kind /\ [g EXCEPT !.todo = <<>>].err = g.err
          /\ [g EXCEPT !.todo = <<>>].mark = g.mark
      BY <3>1 DEF BlockType
    <3> QED BY <3>2 DEF g
  <2> HIDE DEF f
  <2>5. /\ SubSeq(Cur.stack, 1, i - 1) \in Seq(BlockType)
        /\ Append(SubSeq(Cur.stack, 1, i - 1), f) \in Seq(BlockType)
    BY <1>3, <2>1, <2>4, Prefix
  <2>6. /\ BlocksFit(SubSeq(Cur.stack, 1, i - 1), Above(calls, Len(calls)), Len(Cur.results))
        /\ Continued(Cur.stack, SubSeq(Cur.stack, 1, i - 1))
    BY <1>3, <2>1, FitClosed
  <2>7. /\ BlocksFit(Append(SubSeq(Cur.stack, 1, i - 1), f), Above(calls, Len(calls)), Len(Cur.results))
        /\ Continued(Cur.stack, Append(SubSeq(Cur.stack, 1, i - 1), f))
    BY <1>3, <2>1, <2>4, FitSame
  <2>8. /\ st \in Seq(BlockType) /\ BlocksFit(st, Above(calls, Len(calls)), Len(Cur.results))
        /\ Continued(Cur.stack, st)
    BY <2>5, <2>6, <2>7
  <2> HIDE DEF st
  <2> QED BY <1>1, <1>2, <2>2, <2>8, Restacked
<1>6. CASE BreakOrContinue /\ Loops = {}
  BY <1>4, <1>6 DEF BreakOrContinue
<1> QED BY <1>4, <1>5, <1>6 DEF Return

LEMMA NextRoundStep ==
  ASSUME IInv, NextRound
  PROVE  StepGoal
<1>1. Running /\ Len(Cur.stack) > 0
  BY DEF NextRound, BlockDone
<1>2. UNCHANGED <<db, rowCount, temp, clientDb, number, asked, tempOf>>
  BY DEF NextRound
<1>3. /\ Top \in BlockType /\ Cur.stack \in Seq(BlockType) /\ Cur \in ActivationType
      /\ Front(Cur.stack) = SubSeq(Cur.stack, 1, Len(Cur.stack) - 1)
      /\ Len(Cur.stack) \in Nat
  BY <1>1, TopIs
<1>4. ASSUME \/ Top.rounds >= MaxWhile /\ Fail("while")
             \/ ~(Top.rounds >= MaxWhile) /\ CondsFail /\ Fail("condition")
      PROVE  StepGoal
  <2>1. BlockDone /\ ~At("if") /\ ~At("throw")
    BY DEF NextRound, BlockDone, At
  <2>2. Raised = IF Top.rounds >= MaxWhile THEN "while" ELSE "condition"
    BY <2>1 DEF Raised
  <2> QED BY <1>1, <1>2, <1>4, <2>2, FailStep DEF ErrorName, None
<1>5. ASSUME ~(Top.rounds >= MaxWhile), KeepReply,
             calls' = SetCur(SetTop([Top EXCEPT !.todo = Top.body, !.rounds = @ + 1]))
      PROVE  StepGoal
  <2> DEFINE f == [Top EXCEPT !.todo = Top.body, !.rounds = @ + 1]
  <2>1. Top.rounds + 1 \in 0..MaxWhile
    BY <1>3, <1>5, BatchAssumption DEF BlockType
  <2>2. f \in BlockType /\ f.kind = Top.kind /\ f.err = Top.err /\ f.mark = Top.mark
    BY <1>3, <2>1 DEF BlockType
  <2>3. SessionKept
    BY <1>1, <1>2, <1>5, Untouched DEF KeepReply
  <2>4. calls' = SetCur(SetTop(f))
    BY <1>5
  <2> HIDE DEF f
  <2> QED BY <1>1, <2>2, <2>3, <2>4, TopSet, GoesOn
<1>6. ASSUME calls' = SetCur([Cur EXCEPT !.stack = Front(@)]), KeepReply
      PROVE  StepGoal
  <2> DEFINE st == SubSeq(Cur.stack, 1, Len(Cur.stack) - 1)
  <2>1. Len(Cur.stack) - 1 \in 0..Len(Cur.stack)
    BY <1>1, <1>3
  <2>3. BlocksFit(st, Above(calls, Len(calls)), Len(Cur.results)) /\ Continued(Cur.stack, st)
    BY <1>1, <1>3, <2>1, CurIs, FitClosed
  <2>4. st \in Seq(BlockType)
    BY <1>3, <2>1, Prefix
  <2>5. calls' = SetCur([Cur EXCEPT !.stack = st])
    BY <1>3, <1>6
  <2>6. SessionKept
    BY <1>1, <1>2, <1>6, Untouched DEF KeepReply
  <2> HIDE DEF st
  <2> QED BY <1>1, <2>3, <2>4, <2>5, <2>6, Restacked
<1> QED BY <1>4, <1>5, <1>6 DEF NextRound

-----------------------------------------------------------------------------
(* Calls and returns *)

LEMMA ExecStep ==
  ASSUME IInv, Exec
  PROVE  StepGoal
<1> DEFINE n == Len(calls)
           f == Frame("block", ProcBody[Stmt.proc], Top.err)
           b == Activation(ProcBody[Stmt.proc], FALSE, SessDb(Cur), 0, Top.err)
           c == SetCur(Advance)
<1>1. Running /\ Len(Cur.stack) > 0 /\ Top.todo # <<>> /\ Stmt.op = "exec" /\ n < MaxCalls
  BY DEF Exec, At
<1>2. ProcBody[Stmt.proc] \in Seq(Statement)
  <2>1. Stmt.proc \in DOMAIN ProcBody
    BY <1>1, TopIs, StatementAssumption
  <2> QED BY <2>1, StatementAssumption
<1>3. SessDb(Cur) \in Db
  BY <1>1, CurIs DEF SessDb, ActivationType, IInv, StateTypes
<1>4. Top.err \in ErrorName /\ Top \in BlockType
  BY <1>1, TopIs DEF BlockType
<1>5. f \in BlockType /\ f.kind = "block" /\ f.err = Top.err
  BY <1>2, <1>4, FrameIs
<1>6. /\ b \in ActivationType /\ b.live = FALSE /\ b.stack = <<f>> /\ b.results = <<>>
  <2>1. <<f>> \in Seq(BlockType) /\ <<>> \in Seq(ResultType) /\ 0 \in Nat
    BY <1>5
  <2>2. HasControlFlow(ProcBody[Stmt.proc]) \in BOOLEAN
    BY DEF HasControlFlow
  <2> HIDE DEF f
  <2>3. b = [flow |-> HasControlFlow(ProcBody[Stmt.proc]), live |-> FALSE, db |-> SessDb(Cur),
             rowCount |-> 0, before |-> SessDb(Cur), envDB |-> None, results |-> <<>>, stack |-> <<f>>]
    BY DEF Activation, f
  <2> HIDE DEF b
  <2> QED BY <1>3, <2>1, <2>2, <2>3 DEF ActivationType
<1>7. /\ calls \in Seq(ActivationType) /\ n \in 1..n /\ n - 1 \in 0..n /\ DOMAIN calls = 1..n
      /\ c = Append(SubSeq(calls, 1, n - 1), Advance) /\ (n - 1) + 1 = n /\ n \in Nat
  BY <1>1, CurIs DEF IInv, Nested, SetCur
<1>8. /\ c \in Seq(ActivationType) /\ Len(c) = n /\ c[n] = Advance
      /\ \A i \in 1..(n - 1) : c[i] = calls[i]
  BY <1>1, <1>7, AdvanceIs, NewEnd
<1>9. calls' = Append(c, b)
  BY DEF Exec
<1> HIDE DEF c, b, n, f
<1>10. /\ calls' \in Seq(ActivationType) /\ Len(calls') = n + 1 /\ DOMAIN calls' = 1..(n + 1)
       /\ calls'[n + 1] = b /\ calls'[n] = Advance
       /\ \A i \in 1..(n - 1) : calls'[i] = calls[i]
  BY <1>6, <1>7, <1>8, <1>9
<1>11. \A i \in 1..(n + 1) : i \in 1..(n - 1) \/ i = n \/ i = n + 1
  BY <1>7
<1>12. /\ Cur = calls[n] /\ (Advance.live <=> n = 1)
       /\ Advance.flow = Cur.flow /\ Advance.results = Cur.results
       /\ Advance.before = Cur.before /\ Advance.envDB = Cur.envDB
       /\ Advance.stack[Len(Advance.stack)].err = Top.err
       /\ Advance.stack \in Seq(BlockType) /\ Advance.stack # <<>>
       /\ BlocksFit(Advance.stack, Above(calls, n), Len(Advance.results))
       /\ Continued(Cur.stack, Advance.stack)
  BY <1>1, CurIs, AdvanceIs DEF n
<1>13. UNCHANGED <<db, rowCount, temp, clientDb, reply, failed, number, asked, tempOf>>
  BY DEF Exec
<1>14. StateTypes' /\ SessionFollows'
  <2>1. StateTypes'
    BY <1>13 DEF IInv, StateTypes
  <2>2. calls' # <<>>
    BY <1>7, <1>10
  <2> QED BY <1>1, <1>13, <2>1, <2>2
       DEF IInv, SessionFollows, TracksUntilError, RowCountAppliesFlat, Capped, TempIsOfBatch, Running
<1>15. Nested'
  <2>1. Len(calls') <= MaxCalls
    BY <1>1, <1>7, <1>10, BatchAssumption DEF n
  <2>2. \A i \in 1..(n + 1) : calls'[i].live <=> i = 1
    <3>1. \A i \in 1..(n - 1) : calls'[i].live <=> i = 1
      BY <1>7, <1>10 DEF IInv, Nested
    <3>2. calls'[n].live <=> n = 1
      BY <1>10, <1>12
    <3>3. ~calls'[n + 1].live /\ n + 1 # 1
      BY <1>6, <1>7, <1>10
    <3> QED BY <1>11, <3>1, <3>2, <3>3
  <2> QED BY <1>10, <2>1, <2>2 DEF Nested
<1>16. BlocksInv'
  <2>1. \A i \in 1..n : Above(calls', i) = Above(calls, i)
    <3> TAKE i \in 1..n
    <3>1. i > 1 => i - 1 \in 1..(n - 1) /\ calls'[i - 1] = calls[i - 1]
      BY <1>7, <1>10
    <3> QED BY <3>1 DEF Above
  <2>2. \A i \in 1..n : BlocksFit(calls'[i].stack, Above(calls', i), Len(calls'[i].results))
    <3>1. \A i \in 1..n : BlocksFit(calls'[i].stack, Above(calls, i), Len(calls'[i].results))
      BY <1>7, <1>10, <1>11, <1>12 DEF IInv, BlocksInv
    <3> QED BY <2>1, <3>1 DEF BlocksFit, ErrorsFit
  <2>3. f.err = Above(calls', n + 1)
    <3>1. n + 1 > 1 /\ (n + 1) - 1 = n
      BY <1>7
    <3>2. Last(Advance.stack) = Advance.stack[Len(Advance.stack)]
      BY <1>12, Fronts
    <3> QED BY <1>5, <1>10, <1>12, <3>1, <3>2 DEF Above
  <2>4. BlocksFit(<<f>>, Above(calls', n + 1), 0)
    BY <1>5, <2>3 DEF BlocksFit, ErrorsFit, MarksFit
  <2>5. \A i \in 1..(n + 1) : i \in 1..n \/ i = n + 1
    BY <1>7
  <2>6. calls'[n + 1].stack = <<f>> /\ Len(calls'[n + 1].results) = 0
    BY <1>6, <1>10
  <2>7. \A i \in 1..(n + 1) : BlocksFit(calls'[i].stack, Above(calls', i), Len(calls'[i].results))
    BY <2>2, <2>4, <2>5, <2>6
  <2> QED BY <1>10, <2>7 DEF BlocksInv
<1>17. ResultsInv'
  <2>1. \A i \in 1..n : ResultsFit(i, calls'[i], asked)
    <3>1. \A i \in 1..(n - 1) : ResultsFit(i, calls'[i], asked)
      BY <1>7, <1>10 DEF IInv, ResultsInv
    <3>2. ResultsFit(n, Advance, asked)
      BY <1>1, <1>7, <1>12 DEF IInv, ResultsInv, ResultsFit
    <3> QED BY <1>7, <1>10, <1>11, <3>1, <3>2
  <2>2. ResultsFit(n + 1, b, asked)
    BY <1>6 DEF ResultsFit
  <2>3. \A i \in 1..(n + 1) : i \in 1..n \/ i = n + 1
    BY <1>7
  <2>4. rowCount' = asked' /\ asked' = asked
    BY <1>13 DEF IInv, ResultsInv
  <2> QED BY <1>10, <2>1, <2>2, <2>3, <2>4 DEF ResultsInv
<1>18. FollowInv'
  <2>1. Follows(calls'[1], db, clientDb, failed)
    <3>1. CASE n = 1
      BY <1>1, <1>10, <1>12, <3>1 DEF IInv, FollowInv, Follows
    <3>2. CASE n # 1
      <4>1. calls'[1] = calls[1]
        BY <1>7, <1>10, <3>2
      <4> QED BY <1>1, <4>1 DEF IInv, FollowInv
    <3> QED BY <3>1, <3>2
  <2> QED BY <1>13, <2>1 DEF FollowInv
<1>19. ProcLeaves /\ ResultsGrow /\ BlockErrors
  <2>1. Len(calls') # Len(calls)
    <3>1. n + 1 # n
      BY <1>7
    <3> QED BY <1>10, <3>1 DEF n
  <2>2. \A i \in 1..n : calls'[i].results = calls[i].results /\ calls[i].results \in Seq(ResultType)
    <3>1. \A i \in 1..n : calls[i] \in ActivationType
      BY <1>7
    <3>2. \A i \in 1..n : calls'[i].results = calls[i].results
      BY <1>7, <1>10, <1>11, <1>12
    <3> QED BY <3>1, <3>2 DEF ActivationType
  <2>3. \A rs \in Seq(ResultType) : IsPrefix(rs, rs)
    BY DEF IsPrefix
  <2>4. \A i \in 1..n : Continued(calls[i].stack, calls'[i].stack)
    <3>1. \A i \in 1..(n - 1) : calls'[i] = calls[i]
      BY <1>10
    <3>2. \A i \in 1..n : i \in 1..(n - 1) \/ i = n
      BY <1>7
    <3> QED BY <1>10, <1>12, <3>1, <3>2 DEF Continued
  <2>5. BlockErrors
    BY <1>7, <2>4 DEF BlockErrors, BlockKept, Continued
  <2> QED BY <1>7, <1>13, <2>1, <2>2, <2>3, <2>5 DEF ProcLeaves, ResultsGrow
<1> QED BY <1>14, <1>15, <1>16, <1>17, <1>18, <1>19 DEF IInv, StepGoal

(* A procedure's last result goes to its caller *)
LEMMA ReturnStep ==
  ASSUME IInv, Running, Len(calls) > 1, ReturnToCaller,
         UNCHANGED <<db, rowCount, temp, number, asked, tempOf>>
  PROVE  StepGoal
<1> DEFINE k == Len(calls) - 1
           caller == calls[k]
           r == IF caller.flow THEN Last(Cur.results) ELSE Limit(Last(Cur.results), SessRowCount(caller))
           got == IF Cur.results = <<>> \/ Last(Cur.results).from = "affected" THEN <<>> ELSE <<r>>
           rs == caller.results \o got
           a == [caller EXCEPT !.results = rs]
<1>1. /\ calls \in Seq(ActivationType) /\ Len(calls) \in Nat
      /\ k \in DOMAIN calls /\ k - 1 \in 0..Len(calls)
      /\ Cur = calls[Len(calls)] /\ Cur \in ActivationType /\ Cur.results \in Seq(ResultType)
  BY CurIs DEF IInv, Nested, ActivationType
<1>2. calls' = Append(SubSeq(calls, 1, k - 1), a)
  <2>1. calls' = Append(Front(Front(calls)), a)
    BY DEF ReturnToCaller
  <2>2. Front(Front(calls)) = SubSeq(calls, 1, k - 1)
    <3>1. \A s \in Seq(ActivationType) :
            Len(s) > 1 => SubSeq(SubSeq(s, 1, Len(s) - 1), 1, Len(SubSeq(s, 1, Len(s) - 1)) - 1)
                            = SubSeq(s, 1, (Len(s) - 1) - 1)
      OBVIOUS
    <3> QED BY <1>1, <3>1 DEF Front
  <2> QED BY <2>1, <2>2
<1>3. /\ caller \in ActivationType /\ caller.results \in Seq(ResultType) /\ (caller.live <=> k = 1)
      /\ BlocksFit(caller.stack, Above(calls, k), Len(caller.results))
      /\ ResultsFit(k, caller, asked)
      /\ SessRowCount(caller) \in Nat /\ (caller.live => SessRowCount(caller) = asked)
  <2>1. caller \in ActivationType
    BY <1>1
  <2> QED BY <1>1, <2>1 DEF IInv, Nested, BlocksInv, ResultsInv, ActivationType, SessRowCount, StateTypes
<1>4. ResultsFit(Len(calls), Cur, asked)
  BY CurIs
<1> HIDE DEF caller, k
<1>5. /\ got \in Seq(ResultType)
      /\ \A j \in DOMAIN got : got[j].due = asked /\ (k = 1 /\ ~caller.flow => Capped(got[j]))
  <2>1. CASE Cur.results = <<>> \/ Last(Cur.results).from = "affected"
    <3>1. got = <<>>
      BY <2>1
    <3> QED BY <3>1
  <2>2. CASE ~(Cur.results = <<>> \/ Last(Cur.results).from = "affected")
    <3> DEFINE l == Last(Cur.results)
    <3>1. l \in ResultType /\ l.due = asked
      <4>1. /\ l = Cur.results[Len(Cur.results)] /\ l \in ResultType
            /\ Len(Cur.results) \in DOMAIN Cur.results
        BY <1>1, <2>2, Fronts
      <4>2. Len(calls) # 1
        BY <1>1
      <4> QED BY <1>4, <4>1, <4>2 DEF ResultsFit
    <3> HIDE DEF l
    <3>2. l.rows \in Nat /\ asked \in Nat
      BY <3>1 DEF ResultType, IInv, StateTypes
    <3>3. \A m \in Nat : Limit(l, m) \in ResultType /\ Limit(l, m).due = asked
      BY <3>1 DEF Limit, ResultType
    <3>4. Capped(Limit(l, asked))
      BY <3>1, <3>2 DEF Capped, Limit, ResultType
    <3>5. r = IF caller.flow THEN l ELSE Limit(l, SessRowCount(caller))
      BY DEF l
    <3>6. r \in ResultType /\ r.due = asked /\ (k = 1 /\ ~caller.flow => Capped(r))
      BY <1>3, <3>1, <3>3, <3>4, <3>5
    <3>7. got = <<r>>
      BY <2>2
    <3> HIDE DEF r, got
    <3> QED BY <3>6, <3>7
  <2> QED BY <2>1, <2>2
<1> HIDE DEF got
<1>6. /\ rs \in Seq(ResultType) /\ IsPrefix(caller.results, rs)
      /\ Len(caller.results) <= Len(rs) /\ Len(rs) \in Nat /\ Len(caller.results) \in Nat
      /\ \A j \in DOMAIN rs : \/ j \in DOMAIN caller.results /\ rs[j] = caller.results[j]
                              \/ \E i \in DOMAIN got : rs[j] = got[i]
  <2>1. \A s, t \in Seq(ResultType) :
          /\ s \o t \in Seq(ResultType) /\ Len(s) <= Len(s \o t) /\ Len(s \o t) \in Nat /\ Len(s) \in Nat
          /\ SubSeq(s, 1, Len(s)) = SubSeq(s \o t, 1, Len(s))
    OBVIOUS
  <2>2. ASSUME NEW s \in Seq(ResultType), NEW t \in Seq(ResultType), NEW j \in DOMAIN (s \o t)
        PROVE  \/ j \in DOMAIN s /\ (s \o t)[j] = s[j]
               \/ \E i \in DOMAIN t : (s \o t)[j] = t[i]
    <3>1. j \in 1..(Len(s) + Len(t)) /\ DOMAIN s = 1..Len(s) /\ DOMAIN t = 1..Len(t)
      BY <2>2
    <3>2. CASE j <= Len(s)
      BY <3>1, <3>2
    <3>3. CASE ~(j <= Len(s))
      <4>1. j - Len(s) \in DOMAIN t /\ (s \o t)[j] = t[j - Len(s)]
        BY <3>1, <3>3
      <4> QED BY <4>1
    <3> QED BY <3>2, <3>3
  <2> QED BY <1>3, <1>5, <2>1, <2>2 DEF IsPrefix
<1> HIDE DEF rs
<1>7. /\ a \in ActivationType /\ a.results = rs /\ a.stack = caller.stack
      /\ a.flow = caller.flow /\ a.live = caller.live
      /\ a.before = caller.before /\ a.envDB = caller.envDB
  BY <1>3, <1>6, WithResults
<1> HIDE DEF a
<1>8. BlocksFit(a.stack, Above(calls, k), Len(a.results))
  <2>1. a.stack \in Seq(BlockType)
    BY <1>7 DEF ActivationType
  <2> QED BY <1>3, <1>6, <1>7, <2>1, FitMore
<1>9. ResultsFit(k, a, asked)
  BY <1>3, <1>5, <1>6, <1>7 DEF ResultsFit
<1>10. k = 1 => Follows(a, db, clientDb, failed)
  BY <1>7 DEF IInv, FollowInv, Follows, caller
<1>11. /\ rowCount = asked /\ asked \in Nat /\ db \in Db
       /\ temp \in Nat \cup {NoTable} /\ tempOf \in 0..MaxBatches
       /\ temp # NoTable => tempOf = number
  BY DEF IInv, ResultsInv, StateTypes, SessionFollows, TempIsOfBatch
<1>12. UNCHANGED <<reply, failed, clientDb>>
  BY DEF ReturnToCaller
<1>13. IInv'
  BY <1>1, <1>2, <1>3, <1>7, <1>8, <1>9, <1>10, <1>11, <1>12, Replaced
<1>14. ResultsGrown(calls[k], a)
  BY <1>6, <1>7 DEF ResultsGrown, caller
<1>15. ProcLeaves /\ ResultsGrow /\ BlockErrors
  <2>1. BlocksGo(k, a)
    BY <1>7 DEF BlocksGo, Continued, caller
  <2> QED BY <1>1, <1>2, <1>7, <1>14, <2>1, ReplacedKeeps
<1> QED BY <1>13, <1>15 DEF StepGoal

(* The connection's batch is answered *)
LEMMA AnswerStep ==
  ASSUME IInv, Running, ~(Len(calls) > 1), AnswerClient,
         UNCHANGED <<db, rowCount, temp, number, asked, tempOf>>
  PROVE  StepGoal
<1> DEFINE env == IF ~Cur.flow THEN Cur.envDB ELSE IF db # Cur.before THEN db ELSE None
           broken == \E i \in DOMAIN Cur.results : Cur.results[i].from = "broken"
<1>1. CASE broken
  BY <1>1, ErrorAnswered DEF AnswerClient
<1>2. CASE ~broken
  <2>1. /\ calls' = <<>> /\ failed' = failed
        /\ reply' = [kind |-> "result", flow |-> Cur.flow, results |-> Cur.results]
        /\ clientDb' = IF env = None THEN clientDb ELSE env
    BY <1>2 DEF AnswerClient
  <2>2. /\ Len(calls) = 1 /\ Cur = calls[1] /\ Cur \in ActivationType
        /\ ResultsFit(1, Cur, asked) /\ Follows(Cur, db, clientDb, failed)
    <3>1. Len(calls) \in 1..Len(calls) /\ Len(calls) \in Nat
      BY CurIs DEF IInv, Nested
    <3>2. Len(calls) = 1
      <4>1. \A x \in Nat : x \in 1..x /\ ~(x > 1) => x = 1
        OBVIOUS
      <4> QED BY <3>1, <4>1
    <3> QED BY <3>2, CurIs DEF IInv, FollowInv
  <2>3. env \in Db \cup {None} /\ (~failed => IF env = None THEN clientDb = db ELSE env = db)
    BY <2>2, DbAssumption DEF Follows, ActivationType, IInv, StateTypes
  <2> HIDE DEF env
  <2>4. clientDb' \in Db /\ (~failed => clientDb' = db)
    BY <2>1, <2>3, DbAssumption DEF IInv, StateTypes
  <2>5. StateTypes'
    BY <2>1, <2>4 DEF IInv, StateTypes
  <2>6. DOMAIN calls' = {} /\ Len(calls') = 0
    BY <2>1
  <2>7. Nested' /\ BlocksInv' /\ ResultsInv' /\ FollowInv'
    BY <2>1, <2>6, BatchAssumption DEF Nested, BlocksInv, ResultsInv, FollowInv, Running, IInv
  <2>8. SessionFollows'
    <3>1. TracksUntilError'
      BY <2>1, <2>4 DEF TracksUntilError
    <3>2. RowCountAppliesFlat'
      BY <2>1, <2>2 DEF RowCountAppliesFlat, ResultsFit, Capped
    <3>3. TempIsOfBatch'
      BY <2>1 DEF TempIsOfBatch, Running
    <3> QED BY <3>1, <3>2, <3>3 DEF SessionFollows
  <2>9. ProcLeaves /\ ResultsGrow /\ BlockErrors
    BY <2>2, <2>6 DEF ProcLeaves, ResultsGrow, BlockErrors
  <2> QED BY <2>5, <2>7, <2>8, <2>9 DEF IInv, StepGoal
<1> QED BY <1>1, <1>2

LEMMA FinishStep ==
  ASSUME IInv, Finish
  PROVE  StepGoal
BY ReturnStep, AnswerStep DEF Finish

(* A batch begins *)
LEMMA SubmitStep ==
  ASSUME IInv, NEW n \in 1..MaxBatches, NEW stmts \in Batch[n], Submit(stmts)
  PROVE  StepGoal
<1> DEFINE f == Frame("block", stmts, None)
           b == Activation(stmts, TRUE, db, rowCount, None)
<1>1. stmts \in Seq(Statement) /\ None \in ErrorName
  BY StatementAssumption DEF ErrorName
<1>2. f \in BlockType /\ f.kind = "block" /\ f.err = None
  BY <1>1, FrameIs
<1>3. db \in Db /\ rowCount \in Nat /\ rowCount = asked /\ number \in 0..MaxBatches /\ calls = <<>>
  BY DEF IInv, StateTypes, ResultsInv, Submit, Running
<1>4. /\ b \in ActivationType /\ b.live = TRUE /\ b.stack = <<f>> /\ b.results = <<>>
      /\ b.before = db /\ b.envDB = None
  <2>1. <<f>> \in Seq(BlockType) /\ <<>> \in Seq(ResultType)
    BY <1>2
  <2>2. HasControlFlow(stmts) \in BOOLEAN
    BY DEF HasControlFlow
  <2> HIDE DEF f
  <2>3. b = [flow |-> HasControlFlow(stmts), live |-> TRUE, db |-> db,
             rowCount |-> rowCount, before |-> db, envDB |-> None, results |-> <<>>, stack |-> <<f>>]
    BY DEF Activation, f
  <2> HIDE DEF b
  <2> QED BY <1>3, <2>1, <2>2, <2>3 DEF ActivationType
<1>5. /\ calls' = <<b>> /\ temp' = NoTable /\ reply' = [kind |-> None] /\ number' = number + 1
      /\ number < MaxBatches
      /\ UNCHANGED <<db, rowCount, clientDb, failed, asked, tempOf>>
  BY DEF Submit
<1> HIDE DEF b, f
<1>6. /\ calls' \in Seq(ActivationType) /\ Len(calls') = 1 /\ DOMAIN calls' = {1} /\ calls'[1] = b
      /\ calls' # <<>>
  BY <1>4, <1>5
<1>7. StateTypes'
  <2>1. number + 1 \in 0..MaxBatches
    BY <1>3, <1>5, BatchAssumption
  <2>2. reply'.kind \in {"none", "result", "error"}
    BY <1>5 DEF None
  <2> QED BY <1>5, <2>1, <2>2 DEF IInv, StateTypes
<1>8. Nested'
  BY <1>4, <1>6, BatchAssumption DEF Nested
<1>9. BlocksInv'
  <2>1. Above(calls', 1) = None
    BY DEF Above
  <2>2. BlocksFit(<<f>>, Above(calls', 1), 0)
    BY <1>2, <2>1 DEF BlocksFit, ErrorsFit, MarksFit
  <2> QED BY <1>4, <1>6, <2>2 DEF BlocksInv
<1>10. ResultsInv'
  BY <1>3, <1>4, <1>5, <1>6 DEF ResultsInv, ResultsFit
<1>11. FollowInv'
  <2>1. ~failed => db = clientDb
    BY <1>3 DEF IInv, SessionFollows, TracksUntilError, Running
  <2> QED BY <1>4, <1>5, <1>6, <2>1 DEF FollowInv, Follows
<1>12. SessionFollows'
  BY <1>5, <1>6 DEF SessionFollows, TracksUntilError, RowCountAppliesFlat, TempIsOfBatch, Running, None
<1>13. ProcLeaves /\ ResultsGrow /\ BlockErrors
  BY <1>3 DEF ProcLeaves, ResultsGrow, BlockErrors
<1> QED BY <1>7, <1>8, <1>9, <1>10, <1>11, <1>12, <1>13 DEF IInv, StepGoal

-----------------------------------------------------------------------------
(* The theorems *)

LEMMA InitHolds ==
  ASSUME Init
  PROVE  IInv
<1>1. LoginDb \in Db
  BY DbAssumption DEF LoginDb
<1>2. StateTypes
  <2>1. 0 \in 0..MaxBatches /\ 0 \in Nat
    BY BatchAssumption
  <2>2. reply.kind \in {"none", "result", "error"} /\ failed \in BOOLEAN
    BY DEF Init, None
  <2> QED BY <1>1, <2>1, <2>2 DEF Init, StateTypes
<1>3. Nested /\ BlocksInv /\ ResultsInv /\ FollowInv
  BY BatchAssumption DEF Init, Nested, BlocksInv, ResultsInv, FollowInv, Running
<1>4. SessionFollows
  BY DEF Init, SessionFollows, TracksUntilError, RowCountAppliesFlat, TempIsOfBatch, Running, None
<1> QED BY <1>2, <1>3, <1>4 DEF IInv

LEMMA NextStep ==
  ASSUME IInv, Next
  PROVE  StepGoal
<1>1. ASSUME NEW n \in 1..MaxBatches, NEW stmts \in Batch[n], Submit(stmts)
      PROVE  StepGoal
  BY <1>1, SubmitStep
<1>2. CASE Step
  <2>1. CASE Finish \/ EndBlock \/ Exec
    BY <2>1, FinishStep, EndBlockStep, ExecStep
  <2>2. CASE Panic \/ Error \/ Throw
    BY <2>2, ErrorStep
  <2>3. CASE Use \/ SetRowCount
    BY <2>3, UseStep, SetRowCountStep
  <2>4. CASE Select \/ BrokenSelect \/ Write
    BY <2>4, SelectStep
  <2>5. CASE CreateTemp \/ InsertTemp \/ ReadTemp
    BY <2>5, TempStep
  <2>6. CASE If \/ While \/ Try
    BY <2>6, IfStep, WhileStep
  <2>7. CASE Return \/ BreakOrContinue \/ NextRound
    BY <2>7, LeaveStep, NextRoundStep
  <2> QED BY <1>2, <2>1, <2>2, <2>3, <2>4, <2>5, <2>6, <2>7 DEF Step
<1> QED BY <1>1, <1>2 DEF Next

LEMMA StutterStep ==
  ASSUME IInv, UNCHANGED vars
  PROVE  IInv'
<1>1. StateTypes' /\ Nested' /\ BlocksInv' /\ ResultsInv' /\ FollowInv'
  BY DEF vars, IInv, StateTypes, Nested, BlocksInv, Above, ResultsInv, FollowInv, Running
<1>2. SessionFollows'
  BY DEF vars, IInv, SessionFollows, TracksUntilError, RowCountAppliesFlat, Capped, TempIsOfBatch, Running
<1> QED BY <1>1, <1>2 DEF IInv

LEMMA InvariantHolds == Spec => []IInv
<1>1. Init => IInv
  BY InitHolds
<1>2. IInv /\ [Next]_vars => IInv'
  BY NextStep, StutterStep DEF StepGoal
<1> QED BY <1>1, <1>2, PTL DEF Spec

(* The connection, its session and every activation of ExecBatch hold what *)
(* their Go types and the interpreter's limits say, however deep batches   *)
(* nest blocks and procedures call procedures, and the outermost           *)
(* activation alone works on the connection's own Session.                 *)
THEOREM SessionTypes == Spec => []TypeOK
<1>1. IInv => TypeOK
  <2> SUFFICES ASSUME IInv PROVE TypeOK
    OBVIOUS
  <2>1. \A i \in DOMAIN calls : calls[i] \in ActivationType
    BY DEF IInv, Nested
  <2>2. ASSUME NEW i \in DOMAIN calls, NEW j \in DOMAIN calls[i].stack
        PROVE  FrameOK(calls[i].stack[j])
    <3>1. calls[i].stack \in Seq(BlockType)
      BY <2>1 DEF ActivationType
    <3>2. calls[i].stack[j] \in BlockType
      BY <2>2, <3>1
    <3> QED BY <3>2 DEF BlockType, FrameOK
  <2>3. ASSUME NEW i \in DOMAIN calls, NEW j \in DOMAIN calls[i].results
        PROVE  ResultOK(calls[i].results[j])
    <3>1. calls[i].results \in Seq(ResultType)
      BY <2>1 DEF ActivationType
    <3>2. calls[i].results[j] \in ResultType
      BY <2>3, <3>1
    <3> QED BY <3>2 DEF ResultType, ResultOK
  <2> QED BY <2>2, <2>3 DEF IInv, StateTypes, Nested, TypeOK
<1> QED BY <1>1, InvariantHolds, PTL

(* What a session hands from batch to batch, and what it must not, follows *)
(* the batches: until one fails the client knows the session's database, a *)
(* flat batch's results obey the SET ROWCOUNT in force when their          *)
(* statements ran, and no batch sees the #t of another (Session.ExecBatch, *)
(* handleMessage).                                                         *)
THEOREM SessionFollowsCorrect == Spec => []SessionFollows
<1>1. IInv => SessionFollows
  BY DEF IInv
<1> QED BY <1>1, InvariantHolds, PTL

(* ERROR_MESSAGE() and a bare THROW find the error of the innermost CATCH  *)
(* they are in, and none outside every CATCH, whatever blocks and          *)
(* procedures lie between (tds.WithError, execTry).                        *)
LEMMA ErrorOnlyInCatchHolds == Spec => []ErrorOnlyInCatch
<1>1. IInv => ErrorOnlyInCatch
  BY DEF IInv, BlocksInv, BlocksFit, ErrorsFit, Above, ErrorOnlyInCatch, Around
<1> QED BY <1>1, InvariantHolds, PTL

(* Errors are seen in their CATCH only, and each CATCH has its own: an     *)
(* error that is raised opens the CATCH of the innermost TRY around it, *)
(* in whatever procedure that is and in whatever CATCH, with that error;   *)
(* no step changes the error of a block that stays open.                   *)
THEOREM CatchHasItsErrorCorrect == Spec => CatchHasItsError
<1>1. IInv /\ [Next]_vars => [BlockErrors]_vars
  BY NextStep DEF StepGoal
<1> QED BY <1>1, ErrorOnlyInCatchHolds, InvariantHolds, PTL DEF Spec, CatchHasItsError

(* No step of a procedure changes the session or the results of whoever    *)
(* called it, and an error that is caught drops the results of its TRY and *)
(* no others (execStoredProc, execTry).                                    *)
THEOREM CallersKeptCorrect == Spec => CallersKept
<1>1. IInv /\ [Next]_vars => [ProcLeaves /\ ResultsGrow]_vars
  BY NextStep DEF StepGoal
<1> QED BY <1>1, InvariantHolds, PTL DEF Spec, CallersKept

=============================================================================
