------------------------------ MODULE SqlText ------------------------------
(***************************************************************************)
(* How a statement is written in T-SQL: the tokens of a statement tree,    *)
(* with the parentheses that precedence requires and no others.  It is the *)
(* reference the parser is compared with, and uses none of its functions.  *)
(* The sugared writing of the same tree takes every longer or older form   *)
(* the language has for it: BETWEEN, NOT IN, CONVERT, INNER JOIN,          *)
(* alias = value, hints, ASC, optional words.                              *)
(***************************************************************************)
EXTENDS Tokens, SequencesExt

\* Values and conditions at a level of precedence, and query bodies.
RECURSIVE Phrase(_, _, _, _)
ValueText(v, level, s) == Phrase("value", v, level, s)
CondText(c, level, s) == Phrase("condition", c, level, s)
BodyText(body, s) == Phrase("body", body, 1, s)

Kw(words) == [i \in DOMAIN words |-> Keyword(words[i])]
Joined(texts, separator) == \* texts with the separator between them
  FoldLeft(LAMBDA all, text : IF all = <<>> THEN text ELSE all \o separator \o text, <<>>, texts)
List(texts) == Joined(texts, <<Comma>>)
Parens(text) == <<LParen>> \o text \o <<RParen>>
If(condition, text) == IF condition THEN text ELSE <<>>

NameText(parts) == Joined([i \in DOMAIN parts |-> <<IF parts[i] = "*" THEN Star ELSE Word(parts[i])>>], <<Dot>>)
NamesText(names) == List([i \in DOMAIN names |-> NameText(names[i])])
AliasText(alias, as) == If(alias # "", as \o <<Word(alias)>>)
CollateText(cs) == If(cs, <<Ident("COLLATE"), Ident("CS_AS")>>)
TypeText(type, length) ==
  <<Word(type)>> \o If(length # DefaultLength(type), Parens(<<IF length = 0 THEN Ident("MAX") ELSE Number(length)>>))

-----------------------------------------------------------------------------
(* Values, at precedence 1 (sums), 2 (products) or 3 (a single operand).   *)

ValuesText(values, s) == List([i \in DOMAIN values |-> ValueText(values[i], 1, s)])

\* A function whose name has a syntax of its own takes ordinary arguments when a schema is written before it.
Part(args) == args # <<>> /\ args[1][1] = "lit" /\ args[1][2][1] = "string"
Ordinary(name, args) == name \in SpecialFuncs \/ (name \in DatePartFuncs /\ ~Part(args))
SchemaText == <<Ident("dbo"), Dot>>

CallText(name, args, distinct, s) ==
  IF name \in Globals THEN <<Ident(name)>>
  ELSE If(Ordinary(name, args), SchemaText) \o <<Word(name)>> \o Parens(If(distinct, Kw(<<"DISTINCT">>)) \o
    (CASE name \in DatePartFuncs /\ Part(args) -> List(<<<<Ident(args[1][2][2])>>, ValuesText(Tail(args), s)>>)
       [] name = "JSON_OBJECT" ->
            List([i \in 1..(Len(args) \div 2) |->
                    ValueText(args[2 * i - 1], 1, s) \o <<Colon>> \o ValueText(args[2 * i], 1, s)])
       [] OTHER -> ValuesText(args, s)))

\* A searched CASE of one WHEN and an ELSE may be an IIF.
CaseText(operand, whens, else, s) ==
  IF s /\ operand = <<>> /\ Len(whens) = 1 /\ else # <<>>
  THEN <<Ident("IIF")>> \o Parens(List(<<CondText(whens[1][1], 1, s), ValueText(whens[1][2], 1, s), ValueText(else[1], 1, s)>>))
  ELSE Kw(<<"CASE">>) \o ValuesText(operand, s) \o
    FlattenSeq([i \in DOMAIN whens |->
      Kw(<<"WHEN">>) \o (IF operand = <<>> THEN CondText(whens[i][1], 1, s) ELSE ValueText(whens[i][1], 1, s)) \o
      Kw(<<"THEN">>) \o ValueText(whens[i][2], 1, s)]) \o
    If(else # <<>>, Kw(<<"ELSE">>) \o ValuesText(else, s)) \o Kw(<<"END">>)

\* CAST has no style; without one, either may be written.
CastText(value, type, length, style, s) ==
  IF style # <<>> \/ s
  THEN <<Ident("CONVERT")>> \o Parens(List(<<TypeText(type, length)>> \o <<ValueText(value, 1, s)>> \o
         [i \in DOMAIN style |-> ValueText(style[i], 1, s)]))
  ELSE <<Ident("CAST")>> \o Parens(ValueText(value, 1, s) \o Kw(<<"AS">>) \o TypeText(type, length))

\* 0 - x is written -x, and then is a single operand.
BinText(op, left, right, level, s) ==
  LET product == op \in {"*", "/", "%"}
      own == IF product THEN 2 ELSE 1
      sign == IF op = "*" THEN Star ELSE <<"op", op>>
      text == ValueText(left, own, s) \o <<sign>> \o ValueText(right, own + 1, s)
  IN IF op = "-" /\ left = <<"lit", Number(0)>> THEN <<sign>> \o ValueText(right, 3, s)
     ELSE IF own < level THEN Parens(text) ELSE text

ValuePhrase(v, level, s) ==
  CASE v[1] = "col" -> NameText(v[2])
    [] v[1] = "lit" -> <<v[2]>>
    [] v[1] = "bin" -> BinText(v[2], v[3], v[4], level, s)
    [] v[1] = "func" -> CallText(v[2], v[3], v[4], s)
    [] v[1] = "case" -> CaseText(v[2], v[3], v[4], s)
    [] v[1] = "cast" -> CastText(v[2], v[3], v[4], v[5], s)
    [] v[1] = "sub" -> Parens(BodyText(v[2], s))

-----------------------------------------------------------------------------
(* Conditions, at precedence 1 (OR), 2 (AND) or 3 (NOT and below).         *)

IsRange(c) == \* what BETWEEN means
  /\ c[1] = "and" /\ Len(c[2]) = 2
  /\ \A i \in 1..2 : c[2][i][1] = "pred" /\ c[2][i][3] = <<">=", "<=">>[i]
  /\ c[2][1][2] = c[2][2][2] /\ c[2][1][5] = c[2][2][5]
RangeText(c, not, s) ==
  LET lo == c[2][1]
      hi == c[2][2]
  IN ValueText(lo[2], 1, s) \o CollateText(lo[5]) \o not \o Kw(<<"BETWEEN">>) \o
     ValueText(lo[4], 1, s) \o Kw(<<"AND">>) \o ValueText(hi[4], 1, s)

Operand(op, value, s) ==
  CASE op = "IN" -> Parens(IF value[1] = "sub" THEN BodyText(value[2], s)
                           ELSE List([i \in DOMAIN value[2] |-> <<value[2][i]>>]))
    [] op \in {"IS NULL", "IS NOT NULL"} -> <<>>
    [] OTHER -> ValueText(value, 1, s)
Operator(op) ==
  CASE op \in {"IN", "LIKE"} -> Kw(<<op>>)
    [] op = "IS NULL" -> Kw(<<"IS", "NULL">>)
    [] op = "IS NOT NULL" -> Kw(<<"IS", "NOT", "NULL">>)
    [] OTHER -> <<<<"op", op>>>>
\* The collation may stand after either side of a comparison.
PredText(c, not, s) ==
  LET after == s /\ c[3] \notin {"IN", "IS NULL", "IS NOT NULL"}
  IN ValueText(c[2], 1, s) \o CollateText(c[5] /\ ~after) \o not \o Operator(c[3]) \o Operand(c[3], c[4], s) \o
     CollateText(c[5] /\ after) \o If(c[6] # <<>>, <<Ident("ESCAPE")>> \o [i \in DOMAIN c[6] |-> String(c[6][i])])

TermsText(c, s) ==
  LET word == IF c[1] = "or" THEN "OR" ELSE "AND"
      level == IF c[1] = "or" THEN 2 ELSE 3
  IN Joined([i \in DOMAIN c[2] |-> CondText(c[2][i], level, s)], Kw(<<word>>))
NotText(c, s) ==
  LET not == Kw(<<"NOT">>) IN
  IF s /\ IsRange(c) THEN RangeText(c, not, s)
  ELSE IF s /\ c[1] = "pred" /\ c[3] \in {"IN", "LIKE"} THEN PredText(c, not, s)
  ELSE not \o CondText(c, 3, s)

CondPhrase(c, level, s) ==
  CASE c[1] = "exists" -> Kw(<<"EXISTS">>) \o Parens(BodyText(c[2], s))
    [] c[1] = "pred" -> PredText(c, <<>>, s)
    [] c[1] = "not" -> NotText(c[2], s)
    [] c[1] \in {"and", "or"} ->
         IF s /\ IsRange(c) THEN RangeText(c, <<>>, s)
         ELSE IF level > (IF c[1] = "or" THEN 1 ELSE 2) THEN Parens(TermsText(c, s))
         ELSE TermsText(c, s)

-----------------------------------------------------------------------------
(* Clauses *)

OrderItemText(o, s) ==
  (IF o.ordinal > 0 THEN <<Number(o.ordinal)>> ELSE ValueText(o.by[1], 1, s) \o CollateText(o.cs)) \o
  (IF o.desc THEN Kw(<<"DESC">>) ELSE If(s, Kw(<<"ASC">>)))
OrderText(items, s) ==
  If(items # <<>>, Kw(<<"ORDER", "BY">>) \o List([i \in DOMAIN items |-> OrderItemText(items[i], s)]))

WindowText(w, s) ==
  CallText(w.func, w.args, FALSE, s) \o
  If(w.within # <<>>, <<Ident("WITHIN"), Keyword("GROUP")>> \o Parens(OrderText(w.within, s))) \o <<Ident("OVER")>> \o
  Parens(If(w.partition # <<>>, <<Ident("PARTITION"), Keyword("BY")>> \o NamesText(w.partition)) \o OrderText(w.order, s))

SelectItemText(item, s) ==
  LET alias == Last(item)
      what == item[2]
      text == CASE item[1] = "column" -> ValueText(what, 1, s)
                [] item[1] = "expr" -> If(what[1] = "func" /\ what[2] \in AggNames, SchemaText) \o ValueText(what, 1, s)
                [] item[1] = "window" -> WindowText(item[2], s)
                [] item[1] = "agg" ->
                     <<Ident(item[2])>> \o Parens(If(item[5], Kw(<<"DISTINCT">>)) \o
                       List(<<ValueText(item[3], 1, s)>> \o [i \in DOMAIN item[4] |-> <<String(item[4][i])>>]))
  IN IF s /\ alias # "" THEN <<Word(alias), Op("=")>> \o text
     ELSE text \o AliasText(alias, <<>>)

RowsText(rows, s) == List([i \in DOMAIN rows |-> Parens(ValuesText(rows[i], s))])
SourceText(f, s) ==
  (CASE f[1] = "table" -> NameText(f[2])
     [] f[1] = "sub" -> Parens(BodyText(f[2], s))
     [] f[1] = "func" -> CallText(f[2], f[3], FALSE, s)
     [] f[1] = "values" -> Parens(Kw(<<"VALUES">>) \o RowsText(f[2], s))) \o
  AliasText(Last(f), Kw(<<"AS">>)) \o
  If(f[1] = "values" /\ f[3] # <<>>, Parens(NamesText([i \in DOMAIN f[3] |-> <<f[3][i]>>]))) \o
  If(s, Kw(<<"WITH">>) \o Parens(<<Ident("INDEX")>> \o Parens(<<Number(1)>>)))

\* A chain of SELECTs without FROM, one per row, may be written as a table-value constructor.
IsRows(body) ==
  /\ \A i \in DOMAIN body.ops : body.ops[i] = "UNION ALL"
  /\ \A i \in DOMAIN body.arms :
       /\ body.arms[i].from = <<>> /\ body.arms[i].where = <<>> /\ body.arms[i].order = <<>>
       /\ \A j \in DOMAIN body.arms[i].select : body.arms[i].select[j][1] = "expr"
FromText(f, s) ==
  IF s /\ f[1] = "sub" /\ IsRows(f[2])
  THEN SourceText(<<"values", [i \in DOMAIN f[2].arms |-> [j \in DOMAIN f[2].arms[i].select |-> f[2].arms[i].select[j][2]]],
                    [j \in DOMAIN f[2].arms[1].select |-> Last(f[2].arms[1].select[j])], f[3]>>, s)
  ELSE SourceText(f, s)

PivotText(f) ==
  CASE f[1] = "PIVOT" ->
         <<Keyword("PIVOT")>> \o Parens(<<Ident(f[2])>> \o Parens(NameText(f[3])) \o
           <<Ident("FOR")>> \o NameText(f[4]) \o Kw(<<"IN">>) \o Parens(NamesText(f[5]))) \o AliasText(f[6], Kw(<<"AS">>))
    [] f[1] = "UNPIVOT" ->
         <<Keyword("UNPIVOT")>> \o Parens(NameText(f[2]) \o <<Ident("FOR")>> \o NameText(f[3]) \o Kw(<<"IN">>) \o
           Parens(NamesText(f[4]))) \o AliasText(f[5], Kw(<<"AS">>))

JoinText(j, s) ==
  (CASE j[1] \in {"CROSS APPLY", "OUTER APPLY"} -> Kw(<<IF j[1] = "CROSS APPLY" THEN "CROSS" ELSE "OUTER", "APPLY">>)
     [] j[1] = "INNER" -> Kw(IF s THEN <<"INNER", "JOIN">> ELSE <<"JOIN">>)
     [] j[1] = "CROSS" -> Kw(<<"CROSS", "JOIN">>)
     [] OTHER -> Kw(IF s THEN <<j[1], "OUTER", "JOIN">> ELSE <<j[1], "JOIN">>)) \o
  SourceText(j[2], s) \o If(j[3] # <<>>, Kw(<<"ON">>) \o CondText(j[3][1], 1, s))

\* ROLLUP where the sets are its; else the sets as they are.
GroupText(g, s) ==
  LET ident(parts) == NameText(parts) \o CollateText(parts \in g.cs)
      idents(names) == List([i \in DOMAIN names |-> ident(names[i])])
      isRollup == g.sets = <<[i \in 1..(Len(g.by) + 1) |-> SubSeq(g.by, 1, Len(g.by) + 1 - i)]>>
  IN IF g.sets = <<>> THEN idents(g.by)
     ELSE IF s /\ isRollup THEN <<Ident("ROLLUP")>> \o Parens(idents(g.by))
     ELSE <<Ident("GROUPING"), Ident("SETS")>> \o Parens(List([i \in DOMAIN g.sets[1] |-> Parens(idents(g.sets[1][i]))]))

PageText(q, s) ==
  If(q.offset > 0 \/ (q.limit > 0 /\ ~q.top),
     Kw(<<"OFFSET">>) \o <<Number(q.offset)>> \o Kw(<<"ROWS">>) \o
     If(q.limit > 0 /\ ~q.top, Kw(<<"FETCH">>) \o If(s, Kw(<<"NEXT">>)) \o <<Number(q.limit)>> \o Kw(<<"ROWS", "ONLY">>)))

QueryText(q, s) ==
  LET cond(word, c) == If(c # <<>>, Kw(<<word>>) \o FlattenSeq([i \in DOMAIN c |-> CondText(c[i], 1, s)])) IN
  Kw(<<"SELECT">>) \o If(q.distinct, Kw(<<"DISTINCT">>)) \o
  If(q.top, Kw(<<"TOP">>) \o (IF s THEN Parens(<<Number(q.limit)>>) ELSE <<Number(q.limit)>>)) \o If(q.percent, Kw(<<"PERCENT">>)) \o
  (IF q.select = <<>> THEN <<Star>> ELSE List([i \in DOMAIN q.select |-> SelectItemText(q.select[i], s)])) \o
  If(q.from # <<>>, Kw(<<"FROM">>) \o FromText(q.from, s)) \o If(q.pivot # <<>>, PivotText(q.pivot)) \o
  FlattenSeq([i \in DOMAIN q.joins |-> JoinText(q.joins[i], s)]) \o cond("WHERE", q.where) \o
  If(q.group # <<>>, Kw(<<"GROUP", "BY">>) \o FlattenSeq([i \in DOMAIN q.group |-> GroupText(q.group[i], s)])) \o
  cond("HAVING", q.having) \o OrderText(q.order, s) \o PageText(q, s)

BodyPhrase(body, s) ==
  FlattenSeq([i \in DOMAIN body.arms |->
    (IF i = 1 THEN <<>> ELSE IF body.ops[i - 1] = "UNION ALL" THEN Kw(<<"UNION", "ALL">>) ELSE Kw(<<body.ops[i - 1]>>)) \o
    QueryText(body.arms[i], s)])

Phrase(kind, x, level, s) ==
  CASE kind = "value" -> ValuePhrase(x, level, s)
    [] kind = "condition" -> CondPhrase(x, level, s)
    [] kind = "body" -> BodyPhrase(x, s)

SelectText(ctes, body, s) ==
  LET names == SetToSeq(DOMAIN ctes)
      cte(name) == <<Ident(name)>> \o Kw(<<"AS">>) \o Parens(BodyText(ctes[name], s))
  IN If(names # <<>>, Kw(<<"WITH">>) \o List([i \in DOMAIN names |-> cte(names[i])])) \o BodyText(body, s) \o
     If(s /\ Last(body.arms).order # <<>>, <<Ident("OPTION")>> \o Parens(<<Ident("RECOMPILE")>>))

-----------------------------------------------------------------------------
(* Writes *)

WhereText(preds, s) ==
  LET comparison(c) == NameText(c[1]) \o CollateText(c[4] /\ ~s) \o <<<<"op", c[2]>>, c[3]>> \o CollateText(c[4] /\ s)
  IN If(preds # <<>>, Kw(<<"WHERE">>) \o Joined([i \in DOMAIN preds |-> comparison(preds[i])], Kw(<<"AND">>)))
HintText(s) == If(s, Kw(<<"WITH">>) \o Parens(<<Ident("ROWLOCK")>>))

InsertText(table, cols, rows, s) ==
  Kw(IF s THEN <<"INSERT">> ELSE <<"INSERT", "INTO">>) \o NameText(table) \o If(cols # <<>>, Parens(NamesText(cols))) \o
  Kw(<<"VALUES">>) \o List([i \in DOMAIN rows |-> Parens(List([j \in DOMAIN rows[i] |-> <<rows[i][j]>>]))])
UpdateText(table, set, where, s) ==
  Kw(<<"UPDATE">>) \o NameText(table) \o HintText(s) \o Kw(<<"SET">>) \o
  List([i \in DOMAIN set |-> NameText(set[i][1]) \o <<Op("="), set[i][2]>>]) \o WhereText(where, s)
DeleteText(table, where, s) ==
  Kw(<<"DELETE", "FROM">>) \o NameText(table) \o HintText(s) \o WhereText(where, s)

\* A type that stands for the kind.
TypeOfKind == [int32 |-> "INT", int64 |-> "BIGINT", bool |-> "BIT", float64 |-> "FLOAT", decimal |-> "DECIMAL",
               time |-> "DATE", uuid |-> "UNIQUEIDENTIFIER", bytes |-> "VARBINARY", string |-> "TEXT"]
ColumnText(col) == NameText(col[1]) \o <<Ident(TypeOfKind[col[2]])>>
ColumnDefText(col, s) ==
  ColumnText(col) \o (IF col[3] THEN Kw(<<"NULL">>) ELSE If(s, Kw(<<"NOT", "NULL">>)))
AlterText(name, adds, drops, s) ==
  Kw(<<"ALTER", "TABLE">>) \o <<Word(name)>> \o Kw(IF adds # <<>> THEN <<"ADD">> ELSE <<"DROP", "COLUMN">>) \o
  If(s /\ adds # <<>>, Kw(<<"COLUMN">>)) \o List([i \in DOMAIN adds |-> ColumnText(adds[i])]) \o NamesText(drops)

\* The text of a statement, plain or sugared.
Text(stmt, s) ==
  CASE stmt[1] = "select" -> SelectText(stmt[2], stmt[3], s)
    [] stmt[1] = "insert" -> InsertText(stmt[2], stmt[3], stmt[4], s)
    [] stmt[1] = "update" -> UpdateText(stmt[2], stmt[3], stmt[4], s)
    [] stmt[1] = "delete" -> DeleteText(stmt[2], stmt[3], s)
    [] stmt[1] = "create table" ->
         Kw(<<"CREATE", "TABLE">>) \o <<Word(stmt[2])>> \o
         Parens(List([i \in DOMAIN stmt[3] |-> ColumnDefText(stmt[3][i], s)]))
    [] stmt[1] = "drop table" -> Kw(<<"DROP", "TABLE">>) \o <<Word(stmt[2])>>
    [] stmt[1] = "alter" -> AlterText(stmt[2], stmt[3], stmt[4], s)
    [] stmt[1] = "create database" -> Kw(<<"CREATE", "DATABASE">>) \o NameText(stmt[2])
    [] stmt[1] = "drop database" -> Kw(<<"DROP", "DATABASE">>) \o NameText(stmt[2])
=============================================================================
