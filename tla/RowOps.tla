------------------------------- MODULE RowOps -------------------------------
(***************************************************************************)
(* internal/exec: what a SELECT does with the rows its WHERE has kept:     *)
(* windows, grouping, ORDER BY, DISTINCT and paging.                       *)
(*                                                                         *)
(* A value is the sequence of the words %v prints for it, NULL the empty   *)
(* one; a number is one word.  Words w and w + CaseStep are the same but   *)
(* for case.  Case-sensitive collations, expressions and the results that  *)
(* are floats (AVG, VAR, STDEV, PERCENTILE_CONT) are left out.             *)
(***************************************************************************)
EXTENDS Integers, Sequences, FiniteSets, SequencesExt, FiniteSetsExt

CONSTANTS
  CaseStep,  \* what folding to lower case takes off
  NilWord    \* the word %v prints for NULL, <nil>

ASSUME RowOpsAssumption == CaseStep \in Nat \ {0} /\ NilWord \in 0..(CaseStep - 1)

Null == <<>>

(* f itself, its elements evaluated once and not each time one is asked for *)
Listed(f) == SubSeq(f, 1, Len(f))

LowerCase(v) == Listed([i \in DOMAIN v |-> v[i] % CaseStep])

(* RowKey prints the folded values of a row with a blank between them *)
Shown(v)  == IF v = Null THEN <<NilWord>> ELSE LowerCase(v)
RowKey(r) == FlattenSeq([i \in DOMAIN r |-> Shown(r[i])])

Before(a, b) ==
  LET f == LowerCase(a)
      g == LowerCase(b)
      n == Len(LongestCommonPrefix({f, g}))
  IN n < Len(g) /\ (n < Len(f) => f[n + 1] < g[n + 1])

Comparable(a, b) == a # Null /\ b # Null

(* an ORDER BY item is [col, desc]; NULL ties with everything *)
Ties(a, b, o)  == Comparable(a[o.col], b[o.col]) => LowerCase(a[o.col]) = LowerCase(b[o.col])
Ahead(a, b, o) == IF o.desc THEN Before(b[o.col], a[o.col]) ELSE Before(a[o.col], b[o.col])
Less(a, b, order) ==
  \E i \in DOMAIN order :
    /\ ~Ties(a, b, order[i]) /\ Ahead(a, b, order[i])
    /\ \A j \in 1..(i - 1) : Ties(a, b, order[j])

KeysEqual(a, b, order) ==
  \A i \in DOMAIN order :
    LET c == order[i].col IN Comparable(a[c], b[c]) /\ LowerCase(a[c]) = LowerCase(b[c])

At(rows, indices) == Listed([k \in DOMAIN indices |-> rows[indices[k]]])
InOrder(S)        == SelectSeq([i \in 1..Max({0} \cup S) |-> i], LAMBDA i : i \in S)
Pick(r, cols)     == At(r, cols)

(* sort.SliceStable: an insertion sort, up to twenty elements *)
StableOrder(rows, members, order) ==
  LET Insert(s, m) ==
        InsertAt(s, 1 + Max({0} \cup {k \in DOMAIN s : ~Less(rows[m], rows[s[k]], order)}), m)
  IN FoldLeft(Insert, <<>>, members)

Sorted(rows, order) == At(rows, StableOrder(rows, [i \in DOMAIN rows |-> i], order))

(* the rows whose key is new *)
Distinct(rows) ==
  LET key == Listed([i \in DOMAIN rows |-> RowKey(rows[i])])
  IN At(rows, InOrder({i \in DOMAIN rows : \A j \in 1..(i - 1) : key[j] # key[i]}))

EffLimit(q, total) ==
  IF q.percent /\ q.limit > 0 THEN (q.limit * total + 99) \div 100 ELSE q.limit

Paginate(rows, offset, limit) ==
  SubSeq(rows, offset + 1, IF limit > 0 THEN Min({offset + limit, Len(rows)}) ELSE Len(rows))

PageOf(q, rows) == Paginate(rows, q.offset, EffLimit(q, Len(rows)))

-----------------------------------------------------------------------------
(* Partitions: the indices of the rows with the same key, in the order the *)
(* keys first appear.                                                      *)

Partitions(rows, cols) ==
  LET key    == Listed([i \in DOMAIN rows |-> RowKey(Pick(rows[i], cols))])
      firsts == InOrder({i \in DOMAIN rows : \A j \in 1..(i - 1) : key[j] # key[i]})
  IN Listed([k \in DOMAIN firsts |-> InOrder({j \in DOMAIN rows : key[j] = key[firsts[k]]})])

(* the first of the least (or greatest) values *)
Best(vals, desc) ==
  LET Wins(a, b) == IF desc THEN Before(b, a) ELSE Before(a, b)
  IN IF vals = <<>> THEN Null
     ELSE vals[Min({i \in DOMAIN vals : \A j \in DOMAIN vals : ~Wins(vals[j], vals[i])})]

Known(rows, col) == SelectSeq([i \in DOMAIN rows |-> rows[i][col]], LAMBDA v : v # Null)
DistinctValues(vals) ==
  LET once == Distinct([i \in DOMAIN vals |-> <<vals[i]>>]) IN [i \in DOMAIN once |-> once[i][1]]

(* an aggregate is [fn, col, dist]; SUM of no values is 0 *)
ComputeAgg(g, rows) ==
  LET known == Known(rows, g.col)
      vals  == IF g.dist THEN DistinctValues(known) ELSE known
  IN CASE g.fn = "COUNT(*)"   -> <<Len(rows)>>
       [] g.fn = "COUNT"      -> <<Len(vals)>>
       [] g.fn = "APPROX"     -> <<Len(DistinctValues(vals))>>
       [] g.fn = "SUM"        -> <<FoldLeft(LAMBDA s, v : s + v[1], 0, vals)>>
       [] g.fn = "MIN"        -> Best(vals, FALSE)
       [] g.fn = "MAX"        -> Best(vals, TRUE)
       [] g.fn = "STRING_AGG" -> FlattenSeq(vals)

-----------------------------------------------------------------------------
(* Grouping.  q.sets are the grouping sets (GROUP BY is one set), q.sel    *)
(* the select list.                                                        *)

Universe(q) == UNION {ToSet(q.sets[s]) : s \in DOMAIN q.sets}

GroupingValue(cols, set) ==
  FoldLeft(LAMBDA mask, c : 2 * mask + (IF c \in ToSet(set) THEN 0 ELSE 1), 0, cols)

AggRowSet(q, set, rows) ==
  Listed([j \in DOMAIN q.sel |->
     LET it == q.sel[j] IN
     CASE it.kind = "grouping" -> <<GroupingValue(it.cols, set)>>
       [] it.kind = "agg"      -> ComputeAgg(it, rows)
       [] it.kind = "col"      ->
            IF rows = <<>> \/ (it.col \in Universe(q) /\ it.col \notin ToSet(set))
              THEN Null ELSE rows[1][it.col]])

(* the rows of one grouping set; without columns all rows are one group *)
GroupOneSet(q, set, rows) ==
  LET parts  == IF set = <<>> /\ rows = <<>> THEN << <<>> >> ELSE Partitions(rows, set)
      groups == Listed([k \in DOMAIN parts |-> At(rows, parts[k])])
      kept   == SelectSeq(groups, LAMBDA g : Len(g) >= q.having)
  IN Listed([k \in DOMAIN kept |-> AggRowSet(q, set, kept[k])])

IsAggregate(q) == q.sets # <<>> \/ \E j \in DOMAIN q.sel : q.sel[j].kind = "agg"

(* DISTINCT is not looked at; HAVING is COUNT( * ) >= q.having *)
Aggregate(q, rows) ==
  LET sets == IF q.sets = <<>> THEN << <<>> >> ELSE q.sets
  IN PageOf(q, Sorted(FlattenSeq([s \in DOMAIN sets |-> GroupOneSet(q, sets[s], rows)]), q.order))

-----------------------------------------------------------------------------
(* Windows.  w is [fn, col, part, order, n]; ms are the indices of the     *)
(* ordered partition and i a position in it.                               *)

PeerStart(w, ms, i, rows) ==
  Max({1} \cup {j \in 2..i : ~KeysEqual(rows[ms[j - 1]], rows[ms[j]], w.order)})

BugPeerEnd(w, ms, i, rows) == i

PeerEnd(w, ms, i, rows) ==
  Min({Len(ms)} \cup {j \in i..(Len(ms) - 1) : ~KeysEqual(rows[ms[j]], rows[ms[j + 1]], w.order)})

Bucket(n, total, i) ==
  LET base == total \div n
      rem  == total % n
  IN Min({b \in 1..n : b * base + Min({b, rem}) >= i})

Shifted(w, ms, j, rows) == IF j \in DOMAIN ms THEN rows[ms[j]][w.col] ELSE Null

(* over no values every aggregate but COUNT is NULL *)
AggregateOver(w, rows) ==
  IF w.fn = "SUM" /\ Known(rows, w.col) = <<>> THEN Null
  ELSE ComputeAgg([fn |-> w.fn, col |-> w.col, dist |-> FALSE], rows)

PercentileDisc(p, vals) ==
  IF vals = <<>> THEN Null
  ELSE LET up == [i \in DOMAIN vals |-> <<vals[i]>>]
       IN Sorted(up, <<[col |-> 1, desc |-> FALSE]>>)
            [Min({Len(vals), Max({1, (p * Len(vals) + 99) \div 100})})][1]

ApplyWindow(w, ms, i, rows) ==
  CASE w.fn = "ROW_NUMBER"      -> <<i>>
    [] w.fn = "RANK"            -> <<PeerStart(w, ms, i, rows)>>
    [] w.fn = "DENSE_RANK"      ->
         <<1 + Cardinality({j \in 2..i : ~KeysEqual(rows[ms[j - 1]], rows[ms[j]], w.order)})>>
    [] w.fn = "CUME_DIST"       -> <<PeerEnd(w, ms, i, rows), Len(ms)>>
    [] w.fn = "NTILE"           -> <<Bucket(w.n, Len(ms), i)>>
    [] w.fn = "FIRST_VALUE"     -> rows[Head(ms)][w.col]
    [] w.fn = "LAST_VALUE"      -> rows[Last(ms)][w.col]
    [] w.fn = "LAG"             -> Shifted(w, ms, i - w.n, rows)
    [] w.fn = "LEAD"            -> Shifted(w, ms, i + w.n, rows)
    [] w.fn = "PERCENTILE_DISC" -> PercentileDisc(w.n, Known(At(rows, ms), w.col))
    [] OTHER                    ->
         LET end == IF w.order = <<>> THEN Len(ms) ELSE PeerEnd(w, ms, i, rows)
         IN AggregateOver(w, At(rows, SubSeq(ms, 1, end)))

(* one value per row *)
ComputeWindow(w, rows) ==
  LET parts  == Partitions(rows, w.part)
      sorted == Listed([k \in DOMAIN parts |-> StableOrder(rows, parts[k], w.order)])
  IN Listed([r \in DOMAIN rows |->
       LET ms == CHOOSE p \in ToSet(sorted) : r \in ToSet(p)
       IN ApplyWindow(w, ms, CHOOSE i \in DOMAIN ms : ms[i] = r, rows)])

(* a column for every window, after those of the table *)
MaterializeWindows(q, rows) ==
  LET window == Listed([j \in DOMAIN q.sel |->
                  IF q.sel[j].kind = "win" THEN ComputeWindow(q.sel[j], rows) ELSE [r \in DOMAIN rows |-> Null]])
  IN Listed([r \in DOMAIN rows |-> rows[r] \o [j \in DOMAIN q.sel |-> window[j][r]]])

Project(q, wide) ==
  Listed([r \in DOMAIN wide |-> Listed([j \in DOMAIN q.sel |->
    wide[r][IF q.sel[j].kind = "win" THEN Len(wide[r]) - Len(q.sel) + j ELSE q.sel[j].col]])])

Deduplicated(q, rows) == IF q.distinct THEN Distinct(rows) ELSE rows

ApplyWith(q, rows) ==
  IF IsAggregate(q) THEN Aggregate(q, rows)
  ELSE PageOf(q, Deduplicated(q, Project(q, Sorted(MaterializeWindows(q, rows), q.order))))
=============================================================================
