------------------------------ MODULE MCParser ------------------------------
(* Statements that between them have every construct of the grammar, and   *)
(* those whose reading depends on precedence or on how far a clause looks. *)
EXTENDS Parser

C(name) == Col(<<name>>)
TC(table, name) == Col(<<table, name>>)
N(n) == Lit(Number(n))
S(s) == Lit(String(s))
Cmp(left, op, value) == Pred(left, op, value, FALSE, <<>>)
Eq(name, n) == Cmp(C(name), "=", N(n))
Item(name) == <<"column", C(name), "">>
Expr(value, alias) == <<"expr", value, alias>>
By(value) == [by |-> <<value>>, ordinal |-> 0, desc |-> FALSE, cs |-> FALSE]
Table(name) == <<"table", <<name>>, "">>
As(name, alias) == <<"table", <<name>>, alias>>
From(name) == [EmptyQuery EXCEPT !.select = <<Item("a")>>, !.from = Table(name)]
Body(q) == [arms |-> <<q>>, ops |-> <<>>]
Sel(q) == <<"select", <<>>, Body(q)>>
Where(cond) == Sel([From("t") EXCEPT !.where = <<cond>>])
Items(items) == Sel([From("t") EXCEPT !.select = items])
Between(left, lo, hi) == <<"and", <<Cmp(left, ">=", lo), Cmp(left, "<=", hi)>>>>
Over(func, args, partition, order, within) ==
  [func |-> func, args |-> args, partition |-> partition, order |-> order, within |-> within]
Group(by, sets, cs) == <<[by |-> by, sets |-> sets, cs |-> cs]>>

Conditions == <<
  \* OR of ANDs, an OR inside an AND, NOT of a disjunction
  Where(<<"or", <<<<"and", <<Eq("a", 1), Eq("b", 2)>>>>, Eq("c", 3)>>>>),
  Where(<<"and", <<<<"or", <<Eq("a", 1), Eq("b", 2)>>>>, Eq("c", 3)>>>>),
  Where(<<"and", <<<<"not", <<"or", <<Eq("a", 1), Eq("b", 2)>>>>>>, <<"not", Eq("c", 3)>>>>>>),
  \* BETWEEN's AND next to one of its own, and under NOT
  Where(<<"and", <<Between(C("a"), N(1), Bin("+", N(2), C("b"))), Eq("c", 3)>>>>),
  Where(<<"or", <<<<"not", Between(C("a"), N(1), N(2))>>, Eq("b", 3)>>>>),
  \* collations, IN, LIKE, IS
  Where(<<"and", <<Pred(C("a"), "=", S("x"), TRUE, <<>>), Pred(C("b"), "IN", <<"list", <<Number(1), Keyword("NULL")>>>>, FALSE, <<>>)>>>>),
  Where(<<"and", <<<<"not", Pred(C("a"), "LIKE", S("x%"), FALSE, <<"!">>)>>, Pred(C("b"), "IS NOT NULL", <<>>, FALSE, <<>>),
                   Pred(C("c"), "IS NULL", <<>>, FALSE, <<>>)>>>>),
  \* subqueries: IN, EXISTS and a value
  Where(<<"not", Pred(C("a"), "IN", <<"sub", [arms |-> <<From("t"), From("u")>>, ops |-> <<"UNION ALL">>]>>, FALSE, <<>>)>>),
  Where(<<"or", <<<<"exists", Body([From("u") EXCEPT !.where = <<Cmp(TC("u", "a"), "=", TC("t", "a"))>>])>>, Eq("b", 2)>>>>),
  Where(Cmp(C("a"), "<>", <<"sub", Body(From("u"))>>)) >>

Values == <<
  \* precedence and association of the arithmetic, unary minus, a negated product
  Items(<<Expr(Bin("-", Bin("-", C("a"), C("b")), Bin("*", C("c"), N(2))), "x")>>),
  Items(<<Expr(Bin("*", Bin("+", C("a"), C("b")), Bin("%", C("c"), N(2))), ""), Expr(Bin("-", C("a"), Bin("-", C("b"), N(1))), "")>>),
  Items(<<Expr(Bin("/", Bin("-", N(0), C("a")), Bin("-", N(0), Bin("*", C("b"), N(2)))), "x")>>),
  \* both forms of CASE, a CASE with an operand and no ELSE
  Items(<<Expr(<<"case", <<>>, <<<<<<"and", <<Eq("a", 1), Eq("b", 2)>>>>, N(3)>>>>, <<C("c")>>>>, "x")>>),
  Items(<<Expr(<<"case", <<C("a")>>, <<<<N(1), S("x")>>, <<N(2), S("y")>>>>, <<>>>>, "")>>),
  \* conversions with and without a length and a style, functions with a syntax of their own
  Items(<<Expr(<<"cast", C("a"), "VARCHAR", 9, <<>>>>, "x"), Expr(<<"cast", C("b"), "DATE", 0, <<N(1)>>>>, "")>>),
  Items(<<Expr(Func("DATEADD", <<Lit(String("day")), N(1), C("a")>>, FALSE), ""),
          Expr(Func("JSON_OBJECT", <<S("x"), C("a"), S("y"), N(2)>>, FALSE), "")>>),
  Items(<<Expr(Func("LEFT", <<C("a"), N(2)>>, FALSE), "FIRST"), Expr(Func("@@ROWCOUNT", <<>>, FALSE), ""), Expr(Func("GETDATE", <<>>, FALSE), "")>>) >>

Aggregates == <<
  \* an aggregate alone and as an operand, with DISTINCT, a separator, a value inside
  Items(<<<<"agg", "COUNT", Col(<<"*">>), <<>>, FALSE, "n">>, Expr(Bin("+", Func("COUNT", <<Col(<<"*">>)>>, FALSE), N(1)), "")>>),
  Items(<<<<"agg", "COUNT", C("a"), <<>>, TRUE, "">>, <<"agg", "STRING_AGG", C("b"), <<",">>, FALSE, "x">>,
          <<"agg", "SUM", Bin("*", C("a"), N(2)), <<>>, FALSE, "">>>>),
  \* windows
  Items(<<<<"window", Over("SUM", <<C("a")>>, <<<<"b">>>>, <<[By(C("c")) EXCEPT !.desc = TRUE]>>, <<>>), "x">>,
          <<"window", Over("PERCENTILE_CONT", <<N(1)>>, <<>>, <<>>, <<By(C("a"))>>), "">>>>),
  \* grouping, HAVING, an ordinal that stands for an alias
  Sel([From("t") EXCEPT !.select = <<Item("a"), <<"agg", "MAX", C("b"), <<>>, FALSE, "m">>>>,
       !.group = Group(<<<<"a">>, <<"t", "c">>>>, <<>>, {<<"a">>}), !.having = <<Cmp(Func("MAX", <<C("b")>>, FALSE), ">", N(1))>>,
       !.order = <<[By(C("m")) EXCEPT !.ordinal = 2, !.desc = TRUE], [By(C("a")) EXCEPT !.cs = TRUE]>>]),
  Sel([From("t") EXCEPT !.group = Group(<<<<"a">>, <<"b">>>>, <<<<<<<<"a">>, <<"b">>>>, <<<<"a">>>>, <<>>>>>>, {})]),
  Sel([From("t") EXCEPT !.group = Group(<<<<"b">>, <<"a">>>>, <<<<<<<<"b">>>>, <<>>, <<<<"a">>, <<"b">>>>>>>>, {<<"b">>})]) >>

Sources == <<
  Sel([From("t") EXCEPT !.select = <<<<"column", Col(<<"t", "*">>), "">>>>, !.from = <<"table", <<"db", "dbo", "t">>, "ROWS">>,
       !.joins = <<<<"LEFT", As("u", "v"), <<<<"or", <<Eq("a", 1), Eq("b", 2)>>>>>>>>, <<"CROSS", Table("w"), <<>>>>>>]),
  Sel([From("t") EXCEPT !.from = <<"sub", Body(From("u")), "d">>,
       !.joins = <<<<"INNER", <<"sub", Body(From("w")), "e">>, <<Cmp(TC("d", "a"), "=", TC("e", "a"))>>>>,
                   <<"OUTER APPLY", <<"func", "STRING_SPLIT", <<C("a"), S(",")>>, "s">>, <<>>>>>>]),
  Sel([EmptyQuery EXCEPT !.from = <<"sub", [arms |-> <<[EmptyQuery EXCEPT !.select = <<Expr(N(1), "x"), Expr(S("p"), "y")>>],
                                                       [EmptyQuery EXCEPT !.select = <<Expr(N(2), "x"), Expr(S("q"), "y")>>]>>,
                                            ops |-> <<"UNION ALL">>], "v">>,
       !.joins = <<<<"CROSS APPLY", <<"values", <<<<C("x")>>, <<C("y")>>>>, <<"z">>, "w">>, <<>>>>>>]),
  Sel([EmptyQuery EXCEPT !.from = Table("t"), !.pivot = <<"PIVOT", "SUM", <<"a">>, <<"b">>, <<<<"x">>, <<"y">>>>, "p">>]),
  Sel([EmptyQuery EXCEPT !.from = Table("t"), !.pivot = <<"UNPIVOT", <<"a">>, <<"b">>, <<<<"x">>, <<"y">>>>, "u">>]),
  \* set operations, paging, TOP, common table expressions
  <<"select", ("c" :> [arms |-> <<From("t"), From("u")>>, ops |-> <<"INTERSECT">>]) @@ ("d" :> Body(From("c"))),
    [arms |-> <<[From("c") EXCEPT !.distinct = TRUE, !.top = TRUE, !.limit = 5, !.percent = TRUE], From("t"),
                [From("d") EXCEPT !.order = <<By(C("a"))>>, !.offset = 1, !.limit = 2]>>, ops |-> <<"UNION", "EXCEPT">>]>> >>

Preds == << <<<<"a">>, "=", Number(1), FALSE>>, <<<<"b">>, "<>", String("x"), TRUE>> >>
Writes == <<
  <<"delete", <<"t">>, Preds>>, <<"delete", <<"dbo", "t">>, <<>>>>,
  <<"update", <<"t">>, << <<<<"a">>, Number(1)>>, <<<<"b">>, Keyword("NULL")>> >>, Preds>>,
  <<"insert", <<"t">>, <<<<"a">>, <<"b">>>>, <<<<Number(1), String("x")>>, <<Number(2), Keyword("NULL")>>>>>>,
  <<"create table", "t", << <<<<"a">>, "int32", FALSE>>, <<<<"b">>, "string", TRUE>> >>>>,
  <<"alter", "t", << <<<<"a">>, "int64">>, <<<<"b">>, "bool">> >>, <<>>>>, <<"alter", "t", <<>>, <<<<"a">>, <<"b">>>>>>,
  <<"drop table", "t">>, <<"create database", <<"d">>>>, <<"drop database", <<"d">>>> >>

MCStatements == Conditions \o Values \o Aggregates \o Sources \o Writes
\* Every keyword, every kind of token, and the words that a clause looks for.
MCStrays == {Ident("a"), Ident("z"), Number(7), String("x"), Star, Comma, Dot, LParen, RParen, Colon} \cup
  {Op(sign) : sign \in {"-", "+", "%", "=", "<>", ">="}} \cup
  {Keyword(word) : word \in Keywords} \cup
  {Ident(word) : word \in {"OVER", "WITHIN", "PARTITION", "SUM", "MAX", "CAST", "COLLATE", "ESCAPE", "OPTION"}}
=============================================================================
