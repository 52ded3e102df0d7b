-------------------------- MODULE SelectStatement --------------------------
(***************************************************************************)
(* internal/engine/engine.go: a SELECT of one or several arms joined by    *)
(* set operators, over tables and CTEs, while other connections write.     *)
(*                                                                         *)
(* Every arm is a scan of its own: nothing holds the tables still from one *)
(* arm, or from one round of a recursive CTE, to the next.                 *)
(***************************************************************************)
EXTENDS RowOps

CONSTANTS
  Tables,             \* tables of the backend
  Contents,           \* what the tables may hold
  Statements,         \* statements: [arms, ops, ctes]
  maxRecursionDepth,  \* maxRecursionDepth
  MaxWrites           \* bound: writes of other connections during the statement

(* A CTE is [anchors, recs]: its non-recursive arms, and for each recursive *)
(* arm the table it joins the CTE with; recs is empty for a plain CTE.      *)
ASSUME StatementAssumption ==
  /\ maxRecursionDepth \in Nat /\ MaxWrites \in Nat
  /\ \A t \in Contents : DOMAIN t = Tables
  /\ \A s \in Statements :
       /\ Len(s.arms) = Len(s.ops) + 1
       /\ DOMAIN s.ctes \cap Tables = {}
       /\ \A c \in DOMAIN s.ctes : {Len(s.ctes[c].anchors), Len(s.ctes[c].recs)} \subseteq Nat
       /\ \A i \in DOMAIN s.arms : s.arms[i].from \in Tables \cup DOMAIN s.ctes

VARIABLES
  q,        \* the statement; never changes
  tables,   \* the tables
  pc,       \* what the engine does next
  armRows,  \* armRows: the answers of the arms run so far
  acc, working, next, depth,  \* runRecursiveCTE's variables
  turn,     \* the anchor or recursive arm that is next
  answer,   \* the rows sent
  read,     \* history: the rows every arm read
  writes    \* writes of other connections so far

recursion == <<acc, working, next, depth, turn>>
vars == <<q, tables, pc, armRows, recursion, answer, read, writes>>

-----------------------------------------------------------------------------
(* Set operators: INTERSECT binds first, the others from left to right.    *)

Keys(rows) == {RowKey(rows[i]) : i \in DOMAIN rows}
BugIntersectRows(a, b) == SelectSeq(a, LAMBDA r : RowKey(r) \in Keys(b))

IntersectRows(a, b) == Distinct(SelectSeq(a, LAMBDA r : RowKey(r) \in Keys(b)))
ExceptRows(a, b)    == Distinct(SelectSeq(a, LAMBDA r : RowKey(r) \notin Keys(b)))

(* the arms with every run of INTERSECTs made one, and the operators left *)
Terms(rows, ops) ==
  LET Step(s, i) ==
        IF ops[i] = "intersect"
          THEN [s EXCEPT !.terms = Append(Front(s.terms), IntersectRows(Last(s.terms), rows[i + 1]))]
          ELSE [terms |-> Append(s.terms, rows[i + 1]), outer |-> Append(s.outer, ops[i])]
  IN FoldLeft(Step, [terms |-> <<rows[1]>>, outer |-> <<>>], [i \in DOMAIN ops |-> i])

CombineSetOps(rows, ops) ==
  LET t == Terms(rows, ops)
      Apply(result, i) ==
        CASE t.outer[i] = "except" -> ExceptRows(result, t.terms[i + 1])
          [] t.outer[i] = "union"  -> Distinct(result \o t.terms[i + 1])
          [] t.outer[i] = "all"    -> result \o t.terms[i + 1]
  IN FoldLeft(Apply, t.terms[1], [i \in DOMAIN t.outer |-> i])

(* an arm of several keeps its TOP; ORDER BY and FETCH are for the whole *)
ArmQuery(i) ==
  LET a == q.arms[i] IN
  IF Len(q.arms) = 1 THEN a
  ELSE [a EXCEPT !.order = <<>>, !.offset = 0,
                 !.limit = IF a.top THEN a.limit ELSE 0,
                 !.percent = a.top /\ a.percent]

(* what is left of the last arm, over the combined rows *)
WholeQuery(a) == [a EXCEPT !.limit = IF a.top THEN 0 ELSE a.limit, !.percent = ~a.top /\ a.percent]

Ordered == Sorted(CombineSetOps(armRows, q.ops), Last(q.arms).order)
UnionRun ==
  IF Len(q.arms) = 1 THEN armRows[1] ELSE PageOf(WholeQuery(Last(q.arms)), Ordered)

-----------------------------------------------------------------------------
Init ==
  /\ q \in Statements
  /\ tables \in Contents
  /\ pc = "arms" /\ armRows = <<>> /\ answer = <<>> /\ read = <<>>
  /\ acc = <<>> /\ working = <<>> /\ next = <<>> /\ depth = 0 /\ turn = 1
  /\ writes = 0

Arm     == Len(armRows) + 1
More    == Arm <= Len(q.arms)
Source  == q.arms[Arm].from
Cte     == q.ctes[Source]
IsCte   == Source \in DOMAIN q.ctes
IsRecursiveCTE == IsCte /\ Cte.recs # <<>>

Answered(rows) ==
  /\ armRows' = Append(armRows, ApplyWith(ArmQuery(Arm), rows))
  /\ read' = Append(read, rows)

(* an arm over a table or a plain CTE, which is run again wherever it is named *)
RunArm ==
  /\ pc = "arms" /\ More /\ ~IsRecursiveCTE
  /\ Answered(IF IsCte THEN ApplyWith(Cte.anchors[1], tables[Cte.anchors[1].from])
                       ELSE tables[Source])
  /\ UNCHANGED <<q, tables, pc, recursion, answer, writes>>

StartRecursion ==
  /\ pc = "arms" /\ More /\ IsRecursiveCTE
  /\ pc' = "anchors"
  /\ acc' = <<>> /\ turn' = 1
  /\ UNCHANGED <<q, tables, armRows, working, next, depth, answer, read, writes>>

RunAnchor ==
  /\ pc = "anchors" /\ turn <= Len(Cte.anchors)
  /\ LET a == Cte.anchors[turn] IN acc' = acc \o ApplyWith(a, tables[a.from])
  /\ turn' = turn + 1
  /\ UNCHANGED <<q, tables, pc, armRows, working, next, depth, answer, read, writes>>

AnchorsDone ==
  /\ pc = "anchors" /\ turn > Len(Cte.anchors)
  /\ pc' = "rounds"
  /\ working' = acc /\ next' = <<>> /\ depth' = 0 /\ turn' = 1
  /\ UNCHANGED <<q, tables, armRows, acc, answer, read, writes>>

Recursing == depth < maxRecursionDepth /\ working # <<>>

(* the overlay shows the working rows as the CTE: SELECT c.1, t.2 FROM c JOIN t ON t.1 = c.2 *)
Overlay(rows, t) ==
  FlattenSeq([i \in DOMAIN rows |->
    LET children == SelectSeq(t, LAMBDA e : Comparable(e[1], rows[i][2])
                                            /\ LowerCase(e[1]) = LowerCase(rows[i][2]))
    IN Listed([k \in DOMAIN children |-> <<rows[i][1], children[k][2]>>])])

RunRecursiveArm ==
  /\ pc = "rounds" /\ Recursing /\ turn <= Len(Cte.recs)
  /\ next' = next \o Overlay(working, tables[Cte.recs[turn]])
  /\ turn' = turn + 1
  /\ UNCHANGED <<q, tables, pc, armRows, acc, working, depth, answer, read, writes>>

BugRoundDoneUncounted ==
  /\ pc = "rounds" /\ Recursing /\ turn > Len(Cte.recs)
  /\ acc' = acc \o next
  /\ working' = next
  /\ next' = <<>> /\ turn' = 1
  /\ UNCHANGED <<q, tables, pc, armRows, depth, answer, read, writes>>

(* the last arm of a round has run; a round without rows leaves `working' *)
RoundDone ==
  /\ pc = "rounds" /\ Recursing /\ turn > Len(Cte.recs)
  /\ acc' = acc \o next
  /\ working' = next
  /\ depth' = IF next = <<>> THEN depth ELSE depth + 1
  /\ next' = <<>> /\ turn' = 1
  /\ UNCHANGED <<q, tables, pc, armRows, answer, read, writes>>

(* no rows, or no rounds, left: what there is is the CTE *)
RecursionDone ==
  /\ pc = "rounds" /\ ~Recursing
  /\ Answered(acc)
  /\ pc' = "arms"
  /\ UNCHANGED <<q, tables, recursion, answer, writes>>

Combine ==
  /\ pc = "arms" /\ ~More
  /\ answer' = UnionRun
  /\ pc' = "done"
  /\ UNCHANGED <<q, tables, armRows, recursion, read, writes>>

Write ==
  /\ pc # "done" /\ writes < MaxWrites
  /\ tables' \in Contents
  /\ writes' = writes + 1
  /\ UNCHANGED <<q, pc, armRows, recursion, answer, read>>

Engine ==
  \/ RunArm \/ StartRecursion \/ RunAnchor \/ AnchorsDone
  \/ RunRecursiveArm \/ RoundDone \/ RecursionDone \/ Combine

(* the answer is sent; nothing else keeps the engine from a next step *)
Sent == pc = "done" /\ UNCHANGED vars

Next == Engine \/ Write \/ Sent

Spec == Init /\ [][Next]_vars

-----------------------------------------------------------------------------
(* What the statement means, said with rows and columns instead of keys    *)
(* and passes.                                                             *)

SameValue(a, b) == LowerCase(a) = LowerCase(b)
SameRow(r, s)   == Len(r) = Len(s) /\ \A c \in DOMAIN r : SameValue(r[c], s[c])
SameOn(r, s, cols) == \A c \in cols : SameValue(r[c], s[c])

(* no two of the rows, or of their parts, print alike without being alike *)
Separable(rows) ==
  \A r, s \in rows : \A cols \in SUBSET DOMAIN r :
    LET k == InOrder(cols)
    IN RowKey(Pick(r, k)) = RowKey(Pick(s, k)) => SameOn(r, s, cols)

Count(rows, r) == Cardinality({i \in DOMAIN rows : SameRow(rows[i], r)})
AllRows == UNION {ToSet(armRows[i]) : i \in DOMAIN armRows}

(* how often r is in the first i arms: of a run of INTERSECTs once, if in all of it *)
Start(i)   == Max({1} \cup {j \in 2..i : q.ops[j - 1] # "intersect"})
Run(i, r)  == IF Start(i) = i THEN Count(armRows[i], r)
              ELSE IF \A j \in Start(i)..i : Count(armRows[j], r) > 0 THEN 1 ELSE 0
Times(r) ==
  LET times[i \in 0..Len(q.arms)] ==
        IF i = 0 THEN 0
        ELSE LET before == times[Start(i) - 1]
                 here   == Run(i, r)
                 op     == IF Start(i) = 1 THEN "all" ELSE q.ops[Start(i) - 1]
             IN CASE op = "all"    -> before + here
                  [] op = "union"  -> IF before + here > 0 THEN 1 ELSE 0
                  [] op = "except" -> IF before > 0 /\ here = 0 THEN 1 ELSE 0
  IN times[Len(q.arms)]

(* A set operation has each row exactly as often as its operators say,     *)
(* INTERSECT binding first and the rest from left to right (combineSetOps, *)
(* unionRun): no operator removes the duplicates another one keeps.        *)
SetOpsMeanBags ==
  (pc = "done" /\ Len(q.arms) > 1 /\ Separable(AllRows)) =>
    \A r \in AllRows : Count(Ordered, r) = Times(r)

IndicesOf(rows, r, cols) == {i \in DOMAIN rows : SameOn(rows[i], r, cols)}

AggOf(it, rows, members) ==
  LET vals == {i \in members : rows[i][it.col] # Null} IN
  CASE it.fn = "COUNT(*)" -> <<Cardinality(members)>>
    [] it.fn = "COUNT" /\ ~it.dist -> <<Cardinality(vals)>>
    [] it.fn \in {"COUNT", "APPROX"} -> <<Cardinality({LowerCase(rows[i][it.col]) : i \in vals})>>
    [] it.fn = "SUM" -> <<MapThenSumSet(LAMBDA i : rows[i][it.col][1],
         IF it.dist THEN {i \in vals : \A j \in vals : SameValue(rows[i][it.col], rows[j][it.col]) => i <= j}
                    ELSE vals)>>

(* GROUP BY, ROLLUP, CUBE and GROUPING SETS (groupOneSet): in every set    *)
(* every row is in exactly one group, whose subtotal NULLs GROUPING_ID     *)
(* tells from NULLs of the data, and whose aggregates are over the rows    *)
(* alike in the columns of the set and no others.                          *)
GroupsPartition ==
  \A i \in DOMAIN read :
    LET a    == q.arms[i]
        rows == read[i]
        out  == armRows[i]
        by   == UNION {ToSet(a.sets[s]) : s \in DOMAIN a.sets}
    IN (/\ a.sets # <<>> /\ a.having = 0 /\ ArmQuery(i).limit = 0 /\ ArmQuery(i).offset = 0
        /\ a.sel[1].kind = "grouping" /\ ToSet(a.sel[1].cols) = by
        /\ Separable(ToSet(rows)))
       => \A s \in DOMAIN a.sets : \A r \in ToSet(rows) :
            LET set  == ToSet(a.sets[s])
                mine == {k \in DOMAIN out :
                           /\ out[k][1] = <<GroupingValue(a.sel[1].cols, a.sets[s])>>
                           /\ \A j \in DOMAIN a.sel : a.sel[j].kind = "col" =>
                                SameValue(out[k][j], IF a.sel[j].col \in set THEN r[a.sel[j].col] ELSE Null)}
            IN /\ Cardinality(mine) = 1
               /\ \A k \in mine, j \in DOMAIN a.sel : a.sel[j].kind = "agg" =>
                    out[k][j] = AggOf(a.sel[j], rows, IndicesOf(rows, r, set))

Part(w, r, rows)  == IndicesOf(rows, rows[r], ToSet(w.part))
AheadOf(w, r, rows) == {s \in Part(w, r, rows) : Less(rows[s], rows[r], w.order)}
UpTo(w, r, rows)  == {s \in Part(w, r, rows) : ~Less(rows[r], rows[s], w.order)}
Number(w, r, rows) ==
  1 + Cardinality(AheadOf(w, r, rows) \cup {s \in UpTo(w, r, rows) : s < r})

WindowOf(w, r, rows) ==
  LET ahead == AheadOf(w, r, rows)
      upto  == UpTo(w, r, rows)
      KeysOf(S) == {[k \in DOMAIN w.order |-> LowerCase(rows[s][w.order[k].col])] : s \in S}
      Away(n) == {s \in Part(w, r, rows) : Number(w, s, rows) = Number(w, r, rows) + n}
      ValueOf(S) == IF S = {} THEN Null ELSE rows[CHOOSE s \in S : TRUE][w.col]
  IN CASE w.fn = "ROW_NUMBER" -> <<Number(w, r, rows)>>
       [] w.fn = "RANK"       -> <<1 + Cardinality(ahead)>>
       [] w.fn = "DENSE_RANK" -> <<1 + Cardinality(KeysOf(ahead))>>
       [] w.fn = "CUME_DIST"  -> <<Cardinality(upto), Cardinality(Part(w, r, rows))>>
       [] w.fn = "LAG"        -> ValueOf(Away(-w.n))
       [] w.fn = "LEAD"       -> ValueOf(Away(w.n))
       [] w.fn = "SUM" /\ \A s \in upto : rows[s][w.col] = Null -> Null
       [] OTHER -> AggOf([fn |-> w.fn, col |-> w.col, dist |-> FALSE], rows, upto)

Counting == {"ROW_NUMBER", "RANK", "DENSE_RANK", "CUME_DIST", "LAG", "LEAD", "COUNT", "SUM"}

EvenBuckets(w, j, rows, out) ==
  \A r \in DOMAIN rows :
    LET Size(b) == Cardinality({s \in Part(w, r, rows) : out[s][j] = <<b>>})
    IN \A b, d \in 1..w.n : b < d => Size(d) <= Size(b) /\ Size(b) <= Size(d) + 1

(* Window functions (computeWindow, applyWindow), when no NULL is ordered  *)
(* by: what a row gets follows from the rows of its partition ahead of it  *)
(* or level with it, wherever the scan has them; NTILE deals a partition   *)
(* into buckets whose sizes differ by at most one, the larger ones first.  *)
WindowsCount ==
  \A i \in DOMAIN read :
    LET a    == ArmQuery(i)
        rows == read[i]
    IN (a.order = <<>> /\ ~a.distinct /\ a.limit = 0 /\ Separable(ToSet(rows))) =>
         \A j \in {k \in DOMAIN a.sel : a.sel[k].kind = "win"} :
           LET w == a.sel[j] IN
           /\ w.fn = "NTILE" => EvenBuckets(w, j, rows, armRows[i])
           /\ (/\ w.fn \in Counting
               /\ \A r \in DOMAIN rows, k \in DOMAIN w.order : rows[r][w.order[k].col] # Null) =>
                \A r \in DOMAIN rows : armRows[i][r][j] = WindowOf(w, r, rows)

(* how many of n rows a limit leaves *)
Wanted(t, n) ==
  IF t.top \/ t.limit = 0 THEN n
  ELSE IF t.percent THEN Min({k \in 0..n : 100 * k >= t.limit * n})
  ELSE t.limit

(* page is cut out of all, which has no row that belongs before it behind it *)
IsPage(page, all, t) ==
  LET from == Min({t.offset, Len(all)}) IN
  /\ Len(page) = Min({Wanted(t, Len(all)), Len(all) - from})
  /\ all = SubSeq(all, 1, from) \o page \o SubSeq(all, from + Len(page) + 1, Len(all))
  /\ \A m, n \in DOMAIN all :
       m < n /\ {m, n} \cap (from + 1)..(from + Len(page)) # {} => ~Less(all[n], all[m], t.order)

(* ORDER BY of a statement, when no NULL is ordered by: the rows sent are  *)
(* in order, none that paging cut off before the page is after one of the  *)
(* page and none cut off behind it is ahead (less, paginate, unionRun).    *)
PageInOrder ==
  (pc = "done" /\ Len(q.arms) > 1
   /\ \A r \in AllRows, k \in DOMAIN Last(q.arms).order : r[Last(q.arms).order[k].col] # Null) =>
    IsPage(answer, Ordered, Last(q.arms))

(* the chains of at most n steps down from the anchors, as row numbers *)
Follows(r, e)   == Comparable(r[2], e[1]) /\ SameValue(r[2], e[1])
Anchored(rows)  == {<<rows[k][1], rows[k][2], <<k>>>> : k \in DOMAIN rows}
Edges(c, t)     == UNION {{<<k, e>> : e \in DOMAIN t[c.recs[k]]} : k \in DOMAIN c.recs}
Below(ch, c, t) ==
  {<<ch[1], t[c.recs[s[1]]][s[2]][2], ch[3] \o s>> :
     s \in {e \in Edges(c, t) : Follows(ch, t[c.recs[e[1]]][e[2]])}}
Chains(c, t, n) ==
  LET chains[m \in 0..n] ==
        IF m = 0 THEN Anchored(FlattenSeq([k \in DOMAIN c.anchors |->
                                 ApplyWith(c.anchors[k], t[c.anchors[k].from])]))
        ELSE UNION {Below(ch, c, t) : ch \in chains[m - 1]}
  IN UNION {chains[m] : m \in 0..n}

OncePerChain(rows, chains) ==
  \A r \in ToSet(rows) \cup {<<ch[1], ch[2]>> : ch \in chains} :
    Count(rows, r) = Cardinality({ch \in chains : SameRow(<<ch[1], ch[2]>>, r)})

(* A recursive CTE (runRecursiveCTE) has one row for every way down from   *)
(* its anchors, of any length its depth allows; if it stopped before the   *)
(* limit that is all of them.                                              *)
HierarchyWhole ==
  \A i \in DOMAIN read :
    (writes = 0 /\ q.arms[i].from \in DOMAIN q.ctes /\ q.ctes[q.arms[i].from].recs # <<>>) =>
      OncePerChain(read[i], Chains(q.ctes[q.arms[i].from], tables, maxRecursionDepth))

(* A SELECT answers the rows its operators mean, each as often: set        *)
(* operators, grouping sets with their aggregates and recursive CTEs.      *)
AnswersMeant == SetOpsMeanBags /\ GroupsPartition /\ HierarchyWhole

(* What depends on the order of rows depends on no other order than the    *)
(* one that is asked for: window functions and pages.                      *)
OrderObeyed == WindowsCount /\ PageInOrder

(* Every step of the engine is towards the answer (runRecursiveCTE,        *)
(* unionRun): no hierarchy, one with cycles included, and no write of      *)
(* another connection keeps it running.                                    *)
Phase == CASE pc = "arms" -> 0 [] pc = "anchors" -> 1 [] pc = "rounds" -> 2 [] pc = "done" -> 3
Left  ==
  CASE pc = "anchors" -> Len(Cte.anchors) + 1 - turn
    [] pc = "rounds"  ->
         IF Recursing THEN (maxRecursionDepth - depth) * (Len(Cte.recs) + 1) + Len(Cte.recs) + 1 - turn
         ELSE 0
    [] OTHER -> 0
EngineProgresses ==
  [][writes' = writes =>
       \/ Len(armRows') > Len(armRows)
       \/ Len(armRows') = Len(armRows) /\ Phase' > Phase
       \/ Len(armRows') = Len(armRows) /\ Phase' = Phase /\ Left' \in 0..(Left - 1)]_vars

=============================================================================
