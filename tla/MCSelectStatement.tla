------------------------- MODULE MCSelectStatement -------------------------
(* Instances of SelectStatement for TLC: two tables of a text and a number, *)
(* and the edges of a hierarchy.  1, 2, 3 are words and numbers, 101 is the *)
(* word 1 in capitals.                                                      *)
EXTENDS SelectStatement

CONSTANTS items, others, edges, tree

MCTables == {items, others, edges}

A == <<1>>  B == <<2>>  CapA == <<101>>  Root == <<9>>  N(n) == <<n>>

(* a hierarchy that branches and joins again, one with a cycle, and none *)
Dag   == << <<Root, N(1)>>, <<N(1), N(2)>>, <<N(1), N(3)>>, <<N(2), N(3)>> >>
Cycle == << <<Root, N(1)>>, <<N(1), N(2)>>, <<N(2), N(1)>>, <<Null, Null>> >>
Long  == << <<Root, N(1)>>, <<N(1), N(2)>>, <<N(2), N(3)>>, <<N(3), N(4)>>, <<N(4), N(5)>> >>

T1 == << <<A, N(3)>>, <<B, N(1)>>, <<CapA, N(3)>>, <<A, N(2)>> >>
T2 == << <<B, N(2)>>, <<Null, N(1)>>, <<B, Null>>, <<Null, N(1)>>, <<A, Null>> >>
T3 == << <<A, N(2)>>, <<B, N(1)>>, <<A, N(1)>>, <<B, N(2)>>, <<CapA, N(2)>> >>
Store(a, b, d) == [x \in MCTables |-> CASE x = items -> a [] x = others -> b [] x = edges -> d]
MCContents == {Store(T1, T3, Dag), Store(T2, T1, Cycle), Store(T3, <<>>, Long)}

Item(k)     == [kind |-> "col", col |-> k]
Grouping    == [kind |-> "grouping", cols |-> <<1, 2>>]
Agg(f, k, d) == [kind |-> "agg", fn |-> f, col |-> k, dist |-> d]
Win(f, k, p, o, n) == [kind |-> "win", fn |-> f, col |-> k, part |-> p, order |-> o, n |-> n]
By(k, d)    == [col |-> k, desc |-> d]

Select(from, sel) ==
  [from |-> from, sel |-> sel, sets |-> <<>>, having |-> 0, order |-> <<>>,
   distinct |-> FALSE, offset |-> 0, limit |-> 0, percent |-> FALSE, top |-> FALSE]
All(from) == Select(from, <<Item(1), Item(2)>>)
One(a)    == [arms |-> <<a>>, ops |-> <<>>, ctes |-> <<>>]

(* grouping *)
Rollup == << <<1, 2>>, <<1>>, <<>> >>
Cube   == << <<1, 2>>, <<1>>, <<2>>, <<>> >>
Aggs   == <<Agg("COUNT(*)", 1, FALSE), Agg("COUNT", 1, TRUE), Agg("SUM", 2, FALSE)>>
Grouped(from, sets) == [Select(from, <<Grouping, Item(1), Item(2)>> \o Aggs) EXCEPT !.sets = sets]
Groupings ==
  {One(Grouped(x, s)) : x \in {items, others}, s \in {<< <<1, 2>> >>, Rollup, Cube, << <<2>>, <<1>> >>}}
  \cup {One([Grouped(items, << <<1, 2>> >>) EXCEPT !.having = 2, !.order = <<By(6, TRUE)>>]),
        One(Select(others, <<Agg("MIN", 1, FALSE), Agg("MAX", 2, FALSE), Agg("STRING_AGG", 1, FALSE),
                        Agg("APPROX", 1, FALSE), Agg("SUM", 2, TRUE)>>))}

(* windows *)
Windows ==
  {One(Select(items, <<Item(2), Win(f, 2, p, o, 1)>>)) :
     f \in Counting, p \in {<<>>, <<1>>}, o \in {<<>>, <<By(2, FALSE)>>, <<By(1, TRUE), By(2, FALSE)>>}}
  \cup {One(Select(x, <<Item(1), Win("NTILE", 2, p, <<By(2, FALSE)>>, n)>>)) :
          x \in {items, others}, p \in {<<>>, <<1>>}, n \in {2, 3, 6}}
  \cup {One([Select(items, <<Win(f, 2, <<>>, <<By(1, FALSE)>>, 50)>>) EXCEPT !.order = <<By(2, TRUE)>>]) :
          f \in {"FIRST_VALUE", "LAST_VALUE", "PERCENTILE_DISC", "MAX"}}

(* set operators, with a TOP, a page or a recursive CTE in them *)
Ops == {"all", "union", "intersect", "except"}
Ends ==
  {[All(items) EXCEPT !.order = <<By(2, TRUE)>>, !.offset = 1, !.limit = 2],
   [All(others) EXCEPT !.order = <<By(2, FALSE), By(1, FALSE)>>, !.limit = 34, !.percent = TRUE],
   [All(items) EXCEPT !.limit = 2, !.top = TRUE, !.distinct = TRUE]}
SetOps ==
  {[arms |-> <<[All(items) EXCEPT !.limit = 50, !.percent = TRUE, !.top = TRUE], All(others), z>>,
    ops |-> <<o1, o2>>, ctes |-> <<>>] : z \in Ends, o1 \in Ops, o2 \in Ops}
  \cup {[arms |-> <<All(items), All(others), All(items), All(others)>>, ops |-> <<o1, o2, o3>>, ctes |-> <<>>] :
          o1 \in Ops, o2 \in Ops, o3 \in Ops}

(* everything below the first edge, counted twice where two arms are the same *)
Top1 == [All(edges) EXCEPT !.limit = 1, !.top = TRUE]
Hierarchies ==
  {[arms |-> x, ops |-> [i \in 1..(Len(x) - 1) |-> "all"],
    ctes |-> (tree :> [anchors |-> an, recs |-> r])] :
     x \in {<<All(tree)>>, <<All(items), [All(tree) EXCEPT !.distinct = TRUE]>>},
     an \in {<<Top1>>, <<Top1, Top1>>}, r \in {<<edges>>, <<edges, edges>>, <<>>}}

MCStatements == Groupings \cup Windows \cup SetOps \cup Hierarchies
=============================================================================
