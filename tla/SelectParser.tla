---------------------------- MODULE SelectParser ----------------------------
(***************************************************************************)
(* The recursive-descent parser of SELECT (internal/tsql/parser.go): from  *)
(* tokens to the query tree, one operator per parse function.  A value is  *)
(* <<"col", parts>>, <<"lit", token>>, <<"bin", op, left, right>>,         *)
(* <<"func", name, args, distinct>>, <<"case", operand, whens, else>>,     *)
(* <<"cast", value, type, length, style>> or <<"sub", body>>; a condition  *)
(* <<"and"/"or", terms>>, <<"not", c>>, <<"exists", body>> or              *)
(* <<"pred", left, op, value, caseSensitive, escape>>.  What may be absent *)
(* is a sequence of at most one element.  A body is the SELECTs of a chain *)
(* of set operations and the operations between them (Query.Union, SetOp). *)
(***************************************************************************)
EXTENDS Tokens, SequencesExt

\* The rules the others call back into, tied together at the end of the module.
RECURSIVE Rule(_, _)
ValueExpr(p) == Rule("value", p)
OrExpr(p) == Rule("condition", p)
SelectStmt(p) == Rule("select", p)

Col(parts) == <<"col", parts>>
Lit(token) == <<"lit", token>>
Bin(op, left, right) == <<"bin", op, left, right>>
Func(name, args, distinct) == <<"func", name, args, distinct>>

AdditiveOps == {"+", "-", "&", "|", "^"}
IsOp(p, signs) == Peek(p)[1] = "op" /\ Peek(p)[2] \in signs

\* The arms of UNION [ALL], INTERSECT and EXCEPT, in the order written.
RECURSIVE UnionTail(_, _)
UnionTail(p, body) ==
  LET all == IsKeyword(p, "UNION") /\ IsKeyword(NextTok(p), "ALL")
      op == IF all THEN "UNION ALL" ELSE Peek(p)[2]
  IN IF ~IsAny(p, {"UNION", "INTERSECT", "EXCEPT"}) THEN Give(p, body)
     ELSE Then(SelectStmt(IF all THEN NextTok(NextTok(p)) ELSE NextTok(p)), LAMBDA r :
            UnionTail(r, [arms |-> Append(body.arms, r.v), ops |-> Append(body.ops, op)]))

\* A parenthesised query body: a SELECT and any set-operation arms after it.
Subquery(p) == Then(SelectStmt(p), LAMBDA r : UnionTail(r, [arms |-> <<r.v>>, ops |-> <<>>]))

-----------------------------------------------------------------------------
(* Values *)

\* One argument: *, a value, or JSON_OBJECT's key : value.
Arg(p, json) ==
  IF Peek(p) = Star THEN Give(NextTok(p), <<Col(<<"*">>)>>)
  ELSE Then(ValueExpr(p), LAMBDA k :
         IF ~json THEN Give(k, <<k.v>>)
         ELSE Then(Expect(k, Colon), LAMBDA c :
                Then(ValueExpr(c), LAMBDA r : Give(r, <<k.v, r.v>>))))

\* ( args ) at the parenthesis; DISTINCT only inside an aggregate.
FuncArgs(p, name) ==
  LET distinct == name \in AggNames /\ IsKeyword(NextTok(p), "DISTINCT")
      q == IF distinct THEN NextTok(NextTok(p)) ELSE NextTok(p)
      args == IF Peek(q) = RParen THEN Give(q, <<>>)
              ELSE SepList(LAMBDA a : Arg(a, name = "JSON_OBJECT"), q)
  IN Then(args, LAMBDA r : Then(Expect(r, RParen), LAMBDA e :
       Give(e, Func(name, FlattenSeq(r.v), distinct))))
FuncCall(p) == FuncArgs(NextTok(p), Peek(p)[2])

\* DATEADD(day, ...): the part is a literal, not a column.
RECURSIVE MoreArgs(_, _)
MoreArgs(p, args) ==
  IF Peek(p) # Comma THEN Give(p, args)
  ELSE Then(ValueExpr(NextTok(p)), LAMBDA r : MoreArgs(r, Append(args, r.v)))
DatePartCall(p) ==
  LET part == PeekN(p, 2)
  IN IF ~IsWord(part) THEN Fail(p)
     ELSE Then(MoreArgs(NextTok(NextTok(NextTok(p))), <<Lit(String(part[2]))>>), LAMBDA r :
            Then(Expect(r, RParen), LAMBDA e : Give(e, Func(Peek(p)[2], r.v, FALSE))))

\* CAST(value AS type), and CONVERT(type, value [, style]).
CastExpr(p) ==
  Then(ValueExpr(NextTok(NextTok(p))), LAMBDA value :
    Then(ExpectKeyword(value, "AS"), LAMBDA q :
      Then(Closed(CastType, q), LAMBDA type :
        Give(type, <<"cast", value.v, type.v[1], type.v[2], <<>>>>))))
ConvertExpr(p) ==
  Then(CastType(NextTok(NextTok(p))), LAMBDA type :
    Then(MoreArgs(type, <<>>), LAMBDA args :
      IF Len(args.v) \notin {1, 2} THEN Fail(args)
      ELSE Then(Expect(args, RParen), LAMBDA e :
             Give(e, <<"cast", args.v[1], type.v[1], type.v[2], Tail(args.v)>>))))

\* IIF(condition, yes, no) is a searched CASE.
IifExpr(p) ==
  Then(OrExpr(NextTok(NextTok(p))), LAMBDA cond :
    Then(Expect(cond, Comma), LAMBDA a : Then(ValueExpr(a), LAMBDA yes :
      Then(Expect(yes, Comma), LAMBDA b : Then(ValueExpr(b), LAMBDA no :
        Then(Expect(no, RParen), LAMBDA e :
          Give(e, <<"case", <<>>, <<<<cond.v, yes.v>>>>, <<no.v>>>>)))))))

\* CASE [operand] WHEN ... THEN ... [ELSE ...] END: a WHEN holds a condition, or a value to match the operand.
RECURSIVE Whens(_, _, _)
Whens(p, searched, whens) ==
  IF ~IsKeyword(p, "WHEN") THEN Give(p, whens)
  ELSE Then(IF searched THEN OrExpr(NextTok(p)) ELSE ValueExpr(NextTok(p)), LAMBDA when :
         Then(ExpectKeyword(when, "THEN"), LAMBDA q : Then(ValueExpr(q), LAMBDA result :
           Whens(result, searched, Append(whens, <<when.v, result.v>>)))))
OptValue(p, present) == IF present THEN Then(ValueExpr(p), LAMBDA r : Give(r, <<r.v>>)) ELSE Give(p, <<>>)
CaseExpr(p) ==
  Then(OptValue(NextTok(p), ~IsKeyword(NextTok(p), "WHEN")), LAMBDA operand :
    Then(Whens(operand, operand.v = <<>>, <<>>), LAMBDA whens :
      Then(OptValue(Skip(whens, "ELSE"), IsKeyword(whens, "ELSE")), LAMBDA else :
        Then(ExpectKeyword(else, "END"), LAMBDA e :
          Give(e, <<"case", operand.v, whens.v, else.v>>)))))

\* A name: a global, a function with a syntax of its own, a function, or a column.
Column(p) ==
  Then(QualifiedName(p), LAMBDA r :
    IF Peek(r) = LParen THEN FuncArgs(r, Last(r.v)) ELSE Give(r, Col(r.v)))
NameOrCall(p) ==
  LET name == Peek(p)[2]
      called == PeekN(p, 1) = LParen
  IN CASE name \in Globals -> Give(NextTok(p), Func(name, <<>>, FALSE))
       [] called /\ name \in CastFuncs -> CastExpr(p)
       [] called /\ name \in ConvertFuncs -> ConvertExpr(p)
       [] called /\ name = "IIF" -> IifExpr(p)
       [] called /\ name \in DatePartFuncs -> DatePartCall(p)
       [] called /\ name \notin SpecialFuncs \cup DatePartFuncs \cup Globals -> FuncCall(p)
       [] ~called /\ name \notin Globals -> Column(p)

\* ( SELECT ... ) is a scalar subquery, ( anything else ) a value.
ParenValue(p) ==
  IF IsKeyword(NextTok(p), "SELECT")
  THEN Then(Closed(Subquery, NextTok(p)), LAMBDA r : Give(r, <<"sub", r.v>>))
  ELSE Closed(ValueExpr, NextTok(p))

\* A keyword before a parenthesis is a function (LEFT, RIGHT ...), reserved or not.
PrimaryValue(p) ==
  LET kind == Peek(p)[1] IN
  IF IsKeyword(p, "CASE") THEN CaseExpr(p)
  ELSE IF IsKeyword(p, "NULL") \/ kind \in {"string", "number"}
  THEN Then(Literal(p), LAMBDA r : Give(r, Lit(r.v)))
  ELSE IF kind = "keyword" /\ PeekN(p, 1) = LParen THEN FuncCall(p)
  ELSE IF kind = "lparen" THEN ParenValue(p)
  ELSE IF IdentLike(p) THEN NameOrCall(p)
  ELSE Fail(p)

RECURSIVE Factor(_), TermFrom(_), SumFrom(_)
Factor(p) ==
  IF IsOp(p, {"-"}) THEN Then(Factor(NextTok(p)), LAMBDA r : Give(r, Bin("-", Lit(Number(0)), r.v)))
  ELSE PrimaryValue(p)

\* Left-associative: p.v is what stands to the left.
TermFrom(p) ==
  IF Peek(p) = Star \/ IsOp(p, {"/", "%"})
  THEN Then(Factor(NextTok(p)), LAMBDA r : TermFrom(Give(r, Bin(Peek(p)[2], p.v, r.v))))
  ELSE p
Term(p) == Then(Factor(p), TermFrom)
(* A bug: + and - associate to the right. *)
BugSumFrom(p) ==
  IF IsOp(p, AdditiveOps) THEN Then(ValueExpr(NextTok(p)), LAMBDA r : Give(r, Bin(Peek(p)[2], p.v, r.v))) ELSE p
SumFrom(p) ==
  IF IsOp(p, AdditiveOps)
  THEN Then(Term(NextTok(p)), LAMBDA r : SumFrom(Give(r, Bin(Peek(p)[2], p.v, r.v))))
  ELSE p
Sum(p) == Then(Term(p), SumFrom)

-----------------------------------------------------------------------------
(* Conditions *)

Comparisons == {"=", "<>", "<", "<=", ">", ">="}
Pred(left, op, value, cs, escape) == <<"pred", left, op, value, cs, escape>>

\* One value of an IN list, with the collation after it.
InItem(p) == Then(Literal(p), LAMBDA l : Then(OptCollate(l), LAMBDA c : Give(c, <<l.v, c.v>>)))

\* The value and the collation after it.
Collated(p) == Then(ValueExpr(p), LAMBDA r : Then(OptCollate(r), LAMBDA c : Give(c, <<r.v, c.v>>)))

\* ESCAPE takes a string of one character.
LikeEscape(p) ==
  IF Peek(p)[1] = "string" /\ Len(Peek(p)[2]) = 1 THEN Give(NextTok(p), <<Peek(p)[2]>>) ELSE Fail(p)

IsTail(p, left, cs) ==
  LET q == NextTok(p)
  IN Then(ExpectKeyword(Skip(q, "NOT"), "NULL"), LAMBDA e :
       Give(e, Pred(left, IF IsKeyword(q, "NOT") THEN "IS NOT NULL" ELSE "IS NULL", <<>>, cs, <<>>)))

InTail(p, left, cs) ==
  LET q == NextTok(p) IN
  IF Peek(q) = LParen /\ IsKeyword(NextTok(q), "SELECT")
  THEN Then(Paren(Subquery, q), LAMBDA r : Give(r, Pred(left, "IN", <<"sub", r.v>>, cs, <<>>)))
  ELSE Then(Paren(LAMBDA i : SepList(InItem, i), q), LAMBDA r :
         Give(r, Pred(left, "IN", <<"list", [i \in DOMAIN r.v |-> r.v[i][1]]>>,
                      cs \/ \E i \in DOMAIN r.v : r.v[i][2], <<>>)))

LikeTail(p, left, cs) ==
  Then(Collated(NextTok(p)), LAMBDA r :
    Then(IF PeekIs(r, "ESCAPE") THEN LikeEscape(NextTok(r)) ELSE Give(r, <<>>), LAMBDA e :
      Give(e, Pred(left, "LIKE", r.v[1], cs \/ r.v[2], e.v))))

\* BETWEEN's AND belongs to it: left >= low AND left <= high.
BetweenTail(p, left, cs) ==
  Then(Collated(NextTok(p)), LAMBDA lo :
    Then(ExpectKeyword(lo, "AND"), LAMBDA q :
      Then(Collated(q), LAMBDA hi :
        LET exact == cs \/ lo.v[2] \/ hi.v[2]
        IN Give(hi, <<"and", <<Pred(left, ">=", lo.v[1], exact, <<>>), Pred(left, "<=", hi.v[1], exact, <<>>)>>>>))))

CompareTail(p, left, cs) ==
  IF ~IsOp(p, Comparisons) THEN Fail(p)
  ELSE Then(Collated(NextTok(p)), LAMBDA r : Give(r, Pred(left, Peek(p)[2], r.v[1], cs \/ r.v[2], <<>>)))

\* NOT before IN, LIKE or BETWEEN negates it; before IS it is dropped.
Negated(p, neg) == Then(p, LAMBDA r : Give(r, IF neg THEN <<"not", r.v>> ELSE r.v))
PredicateTail(p, left, cs) ==
  LET neg == IsKeyword(p, "NOT")
      q == Skip(p, "NOT")
  IN CASE IsKeyword(q, "IS") -> IsTail(q, left, cs)
       [] IsKeyword(q, "IN") -> Negated(InTail(q, left, cs), neg)
       [] IsKeyword(q, "LIKE") -> Negated(LikeTail(q, left, cs), neg)
       [] IsKeyword(q, "BETWEEN") -> Negated(BetweenTail(q, left, cs), neg)
       [] OTHER -> IF neg THEN Fail(q) ELSE CompareTail(q, left, cs)
Predicate(p) == Then(Collated(p), LAMBDA r : PredicateTail(r, r.v[1], r.v[2]))

\* A parenthesis opens a condition, never the value a predicate starts with.
PrimaryExpr(p) ==
  IF IsKeyword(p, "EXISTS")
  THEN Then(Paren(Subquery, NextTok(p)), LAMBDA r : Give(r, <<"exists", r.v>>))
  ELSE IF Peek(p) = LParen THEN Closed(OrExpr, NextTok(p))
  ELSE Predicate(p)

RECURSIVE NotExpr(_)
NotExpr(p) ==
  IF IsKeyword(p, "NOT") THEN Then(NotExpr(NextTok(p)), LAMBDA r : Give(r, <<"not", r.v>>)) ELSE PrimaryExpr(p)

\* Terms joined by AND, then by OR; one term alone is itself.
RECURSIVE Terms(_, _)
Terms(p, terms) ==
  IF IsKeyword(p, "AND") THEN Then(NotExpr(NextTok(p)), LAMBDA r : Terms(r, Append(terms, r.v))) ELSE Give(p, terms)
AndExpr(p) ==
  Then(NotExpr(p), LAMBDA first :
    Then(Terms(first, <<first.v>>), LAMBDA r : Give(r, IF Len(r.v) = 1 THEN r.v[1] ELSE <<"and", r.v>>)))
RECURSIVE Alternatives(_, _)
Alternatives(p, terms) ==
  IF IsKeyword(p, "OR") THEN Then(AndExpr(NextTok(p)), LAMBDA r : Alternatives(r, Append(terms, r.v))) ELSE Give(p, terms)
Disjunction(p) ==
  Then(AndExpr(p), LAMBDA first :
    Then(Alternatives(first, <<first.v>>), LAMBDA r : Give(r, IF Len(r.v) = 1 THEN r.v[1] ELSE <<"or", r.v>>)))

-----------------------------------------------------------------------------
(* ORDER BY, windows and the select list.  An item of ORDER BY is          *)
(* [by, ordinal, desc, cs]; an item of the select list                     *)
(* <<"column", column, alias>>, <<"expr", value, alias>>,                  *)
(* <<"agg", name, argument, separator, distinct, alias>> or                *)
(* <<"window", [func, args, partition, order, within], alias>>.            *)

Direction(p, item) ==
  Give(IF IsAny(p, {"ASC", "DESC"}) THEN NextTok(p) ELSE p, [item EXCEPT !.desc = IsKeyword(p, "DESC")])
OrderItem(p) ==
  IF Peek(p)[1] = "number"
  THEN Direction(NextTok(p), [by |-> <<>>, ordinal |-> Peek(p)[2], desc |-> FALSE, cs |-> FALSE])
  ELSE Then(Collated(p), LAMBDA r :
         Direction(r, [by |-> <<r.v[1]>>, ordinal |-> 0, desc |-> FALSE, cs |-> r.v[2]]))
OrderList(p) == SepList(OrderItem, p)
OrderBy(p) == Then(ExpectKeyword(p, "ORDER"), LAMBDA q : Then(ExpectKeyword(q, "BY"), OrderList))

\* OVER ( [PARTITION BY columns] [ORDER BY items] ), at OVER.
PartitionBy(p) ==
  IF Peek(p) # Ident("PARTITION") THEN Give(p, <<>>)
  ELSE Then(ExpectKeyword(NextTok(p), "BY"), IdentList)
OverClause(p, func, args, within) ==
  Then(Expect(NextTok(p), LParen), LAMBDA q :
    Then(PartitionBy(q), LAMBDA partition :
      Then(IF IsKeyword(partition, "ORDER") THEN OrderBy(partition) ELSE Give(partition, <<>>), LAMBDA order :
        Then(Expect(order, RParen), LAMBDA e :
          Give(e, [func |-> func, args |-> args, partition |-> partition.v, order |-> order.v, within |-> within])))))

\* f(args) WITHIN GROUP (ORDER BY ...) OVER (...), at WITHIN.
WithinGroupWindow(p, func, args) ==
  IF ~PeekIs(NextTok(p), "GROUP") THEN Fail(p)
  ELSE Then(Paren(OrderBy, NextTok(NextTok(p))), LAMBDA r :
         IF PeekIs(r, "OVER") THEN OverClause(r, func, args, r.v) ELSE Fail(r))

\* An aggregate call that arithmetic follows, as in COUNT( * ) + 1, is an operand of an expression.
AggIsOperand(p) ==
  LET close == Closing(p.toks, p.pos + 1)
  IN close # 0 /\ p.toks[close + 1] \in {Star, Op("/"), Op("%")} \cup {Op(sign) : sign \in AdditiveOps}

\* The item and its alias; a leading alias wins over the one that follows.
Aliased(p, lead, item) == LET r == OptAlias(p) IN Give(r, Append(item, IF lead # "" THEN lead ELSE r.v))

\* STRING_AGG's separator, which must be a string.
Separator(p, name) ==
  IF name # "STRING_AGG" THEN Give(p, <<>>)
  ELSE Then(Expect(p, Comma), LAMBDA q : Then(ValueExpr(q), LAMBDA r :
         IF r.v[1] = "lit" /\ r.v[2][1] = "string" THEN Give(r, <<r.v[2][2]>>) ELSE Fail(r)))
AggItem(p, lead) ==
  LET name == Peek(p)[2]
      q == NextTok(NextTok(p))
      inner == Skip(q, "DISTINCT")
  IN Then(IF Peek(inner) = Star THEN Give(NextTok(inner), Col(<<"*">>)) ELSE ValueExpr(inner), LAMBDA arg :
       Then(Separator(arg, name), LAMBDA sep :
         Then(Expect(sep, RParen), LAMBDA e :
           IF Peek(e) = Ident("OVER")
           THEN Then(OverClause(e, name, IF arg.v = Col(<<"*">>) THEN <<>> ELSE <<arg.v>>, <<>>), LAMBDA w :
                  Aliased(w, lead, <<"window", w.v>>))
           ELSE Aliased(e, lead, <<"agg", name, arg.v, sep.v, IsKeyword(q, "DISTINCT")>>))))

ValueItem(p, lead) ==
  Then(ValueExpr(p), LAMBDA r :
    LET isCall == r.v[1] = "func" IN
    IF isCall /\ PeekIs(r, "WITHIN")
    THEN Then(WithinGroupWindow(r, r.v[2], r.v[3]), LAMBDA w : Aliased(w, lead, <<"window", w.v>>))
    ELSE IF isCall /\ Peek(r) = Ident("OVER")
    THEN Then(OverClause(r, r.v[2], r.v[3], <<>>), LAMBDA w : Aliased(w, lead, <<"window", w.v>>))
    ELSE Aliased(r, lead, <<IF r.v[1] = "col" THEN "column" ELSE "expr", r.v>>))

\* alias = item, t.*, an aggregate that is the whole item, or a value.
SelectItem(p) ==
  LET led == IdentLike(p) /\ PeekN(p, 1) = Op("=")
      lead == IF led THEN Peek(p)[2] ELSE ""
      q == IF led THEN NextTok(NextTok(p)) ELSE p
      name == Peek(q)[2]
      isIdent == Peek(q)[1] = "ident"
  IN IF isIdent /\ PeekN(q, 1) = Dot /\ PeekN(q, 2) = Star
     THEN Give(NextTok(NextTok(NextTok(q))), <<"column", Col(<<name, "*">>), lead>>)
     ELSE IF isIdent /\ name \in AggNames /\ PeekN(q, 1) = LParen /\ ~AggIsOperand(q)
     THEN AggItem(q, lead)
     ELSE ValueItem(q, lead)
SelectItems(p) == SepList(SelectItem, p)

-----------------------------------------------------------------------------
(* FROM: <<"table", parts, alias>>, <<"sub", body, alias>>,                *)
(* <<"func", name, args, alias>> or <<"values", rows, columns, alias>>,    *)
(* which in FROM itself (not after JOIN) becomes a chain of SELECTs.       *)

EmptyQuery == [distinct |-> FALSE, limit |-> 0, top |-> FALSE, percent |-> FALSE, select |-> <<>>,
               from |-> <<>>, pivot |-> <<>>, joins |-> <<>>, where |-> <<>>, group |-> <<>>,
               having |-> <<>>, order |-> <<>>, offset |-> 0]

ValuesClause(p) ==
  Then(ExpectKeyword(p, "VALUES"), LAMBDA q :
    SepList(LAMBDA r : Paren(LAMBDA i : SepList(ValueExpr, i), r), q))
ValuesQuery(rows, cols) ==
  LET name(i) == IF i <= Len(cols) THEN cols[i] ELSE "col" \o ToString(i)
      arm(row) == [EmptyQuery EXCEPT !.select = [i \in DOMAIN row |-> <<"expr", row[i], name(i)>>]]
  IN [arms |-> [i \in DOMAIN rows |-> arm(rows[i])], ops |-> [i \in 1..(Len(rows) - 1) |-> "UNION ALL"]]

WithAlias(p, source) == LET r == OptTableAlias(p) IN Give(r, Append(source, r.v))
TableSource(p) ==
  IF Peek(p) = LParen /\ PeekN(p, 1) = Keyword("VALUES")
  THEN Then(Closed(ValuesClause, NextTok(p)), LAMBDA rows :
         Then(AliasWithCols(rows), LAMBDA r : Give(r, <<"values", rows.v, r.v[2], r.v[1]>>)))
  ELSE IF Peek(p) = LParen
  THEN Then(Closed(Subquery, NextTok(p)), LAMBDA r : WithAlias(r, <<"sub", r.v>>))
  ELSE IF Peek(p)[1] = "ident" /\ PeekN(p, 1) = LParen
  THEN Then(FuncCall(p), LAMBDA r : WithAlias(r, <<"func", r.v[2], r.v[3]>>))
  ELSE Then(TableName(p), LAMBDA r : WithAlias(r, <<"table", r.v>>))
HintedSource(p) == Then(TableSource(p), TableHints)

InValueList(p) == Then(ExpectKeyword(p, "IN"), LAMBDA q : Paren(IdentList, q))

\* column FOR column IN ( names )
ForIn(p) ==
  IF ~PeekIs(p, "FOR") THEN Fail(p)
  ELSE Then(QualifiedName(NextTok(p)), LAMBDA for : Then(InValueList(for), LAMBDA in : Give(in, <<for.v, in.v>>)))
PivotBody(p) ==
  LET agg == Peek(p)[2] IN
  IF ~IdentLike(p) THEN Fail(p)
  ELSE Then(Paren(LAMBDA a : IF Peek(a) = Star THEN Give(NextTok(a), <<"*">>) ELSE QualifiedName(a), NextTok(p)), LAMBDA col :
         Then(ForIn(col), LAMBDA r : Give(r, <<"PIVOT", agg, col.v, r.v[1], r.v[2]>>)))
UnpivotBody(p) ==
  Then(QualifiedName(p), LAMBDA value : Then(ForIn(value), LAMBDA r : Give(r, <<"UNPIVOT", value.v, r.v[1], r.v[2]>>)))
PivotClause(p) ==
  IF PeekIs(p, "PIVOT") THEN Then(Paren(PivotBody, NextTok(p)), LAMBDA r : WithAlias(r, r.v))
  ELSE IF PeekIs(p, "UNPIVOT") THEN Then(Paren(UnpivotBody, NextTok(p)), LAMBDA r : WithAlias(r, r.v))
  ELSE Give(p, <<>>)

JoinWords == {"JOIN", "INNER", "LEFT", "RIGHT", "FULL", "CROSS", "OUTER"}
Unconditional == {"CROSS", "CROSS APPLY", "OUTER APPLY"}
JoinType(p) ==
  LET word == Peek(p)[2]
      q == NextTok(p)
  IN CASE word = "JOIN" -> Give(q, "INNER")
       [] word = "INNER" -> Give(ExpectKeyword(q, "JOIN"), "INNER")
       [] word \in {"LEFT", "RIGHT", "FULL"} -> Give(ExpectKeyword(Skip(q, "OUTER"), "JOIN"), word)
       [] word = "CROSS" -> IF IsKeyword(q, "APPLY") THEN Give(NextTok(q), "CROSS APPLY")
                            ELSE Give(ExpectKeyword(q, "JOIN"), "CROSS")
       [] word = "OUTER" -> Give(ExpectKeyword(q, "APPLY"), "OUTER APPLY")
Join(p) ==
  Then(JoinType(p), LAMBDA type : Then(HintedSource(type), LAMBDA source :
    Then(IF type.v \in Unconditional THEN Give(source, <<>>)
         ELSE Then(ExpectKeyword(source, "ON"), LAMBDA q : Then(OrExpr(q), LAMBDA r : Give(r, <<r.v>>))), LAMBDA on :
      Give(on, <<type.v, source.v, on.v>>))))

\* GROUP BY: the columns, the grouping sets if any, and the columns grouped case-sensitively.
GroupIdent(p) == Then(QualifiedName(p), LAMBDA n : Then(OptCollate(n), LAMBDA c : Give(c, <<n.v, c.v>>)))
GroupIdentList(p) == SepList(GroupIdent, p)
Names(idents) == [i \in DOMAIN idents |-> idents[i][1]]
GroupBy(idents, sets) ==
  [by |-> Names(idents), sets |-> sets, cs |-> {idents[i][1] : i \in {j \in DOMAIN idents : idents[j][2]}}]

RollupSets(cols) == [i \in 1..(Len(cols) + 1) |-> SubSeq(cols, 1, Len(cols) + 1 - i)]
CubeSets(cols) ==
  FoldRight(LAMBDA col, sets : [i \in DOMAIN sets |-> <<col>> \o sets[i]] \o sets, cols, <<<<>>>>)

\* ( columns ), () or one bare column.
GroupingSet(p) ==
  IF Peek(p) # LParen THEN Then(GroupIdent(p), LAMBDA r : Give(r, <<r.v>>))
  ELSE IF PeekN(p, 1) = RParen THEN Give(NextTok(NextTok(p)), <<>>)
  ELSE Closed(GroupIdentList, NextTok(p))
\* Each column once, where it first appears.
Universe(idents) ==
  LET isFirst(i) == \A j \in 1..(i - 1) : idents[j][1] # idents[i][1]
  IN FoldLeft(LAMBDA names, i : IF isFirst(i) THEN Append(names, idents[i][1]) ELSE names, <<>>,
              [i \in 1..Len(idents) |-> i])
GroupByClause(p) ==
  IF PeekIs(p, "ROLLUP") /\ PeekN(p, 1) = LParen
  THEN Then(Paren(GroupIdentList, NextTok(p)), LAMBDA r : Give(r, GroupBy(r.v, <<RollupSets(Names(r.v))>>)))
  ELSE IF PeekIs(p, "CUBE") /\ PeekN(p, 1) = LParen
  THEN Then(Paren(GroupIdentList, NextTok(p)), LAMBDA r : Give(r, GroupBy(r.v, <<CubeSets(Names(r.v))>>)))
  ELSE IF PeekIs(p, "GROUPING") /\ PeekN(p, 1) = Ident("SETS")
  THEN Then(Paren(LAMBDA q : SepList(GroupingSet, q), NextTok(NextTok(p))), LAMBDA r :
         LET all == FlattenSeq(r.v)
         IN Give(r, [GroupBy(all, <<[i \in DOMAIN r.v |-> Names(r.v[i])]>>) EXCEPT !.by = Universe(all)]))
  ELSE Then(GroupIdentList(p), LAMBDA r : Give(r, GroupBy(r.v, <<>>)))

-----------------------------------------------------------------------------
(* SELECT: each clause takes a parser whose v is the query so far.         *)

\* Fill a field of the query q with what a clause read.
Fill(q, r, field) == IF Failed(r) THEN r ELSE Give(r, [q EXCEPT ![field] = r.v])
Optional(p, read, field) == Fill(p.v, Then(read, LAMBDA r : Give(r, <<r.v>>)), field)

TopClause(p) ==
  LET paren == PeekN(p, 1) = LParen
      read == IF paren THEN Paren(IntLit, NextTok(p)) ELSE IntLit(NextTok(p))
  IN IF ~IsKeyword(p, "TOP") THEN p
     ELSE Then(read, LAMBDA r :
            Give(Skip(r, "PERCENT"), [p.v EXCEPT !.limit = r.v, !.top = TRUE, !.percent = IsKeyword(r, "PERCENT")]))

\* An empty select list is *.
ItemsClause(p) == IF Peek(p) = Star THEN NextTok(p) ELSE Fill(p.v, SelectItems(p), "select")

FromClause(p) ==
  IF ~IsKeyword(p, "FROM") THEN p
  ELSE Then(HintedSource(NextTok(p)), LAMBDA source :
         LET s == source.v
             from == IF s[1] = "values" THEN <<"sub", ValuesQuery(s[2], s[3]), s[4]>> ELSE s
         IN Fill([p.v EXCEPT !.from = from], PivotClause(source), "pivot"))

RECURSIVE JoinClauses(_)
JoinClauses(p) ==
  IF IsAny(p, JoinWords)
  THEN Then(Join(p), LAMBDA r : JoinClauses(Give(r, [p.v EXCEPT !.joins = Append(@, r.v)])))
  ELSE p

WhereClause(p) == IF IsKeyword(p, "WHERE") THEN Optional(p, OrExpr(NextTok(p)), "where") ELSE p
HavingClause(p) == IF IsKeyword(p, "HAVING") THEN Optional(p, OrExpr(NextTok(p)), "having") ELSE p
GroupClause(p) ==
  IF ~IsKeyword(p, "GROUP") THEN p
  ELSE Optional(p, Then(ExpectKeyword(NextTok(p), "BY"), GroupByClause), "group")

\* ORDER BY n stands for the column or the alias of the n-th item of the select list, if it has one.
Resolved(item, select) ==
  IF item.ordinal \notin DOMAIN select THEN item
  ELSE LET s == select[item.ordinal] IN
       IF s[1] = "column" THEN [item EXCEPT !.by = <<s[2]>>]
       ELSE IF Last(s) # "" THEN [item EXCEPT !.by = <<Col(<<Last(s)>>)>>] ELSE item
OrderClause(p) ==
  IF ~IsKeyword(p, "ORDER") THEN p
  ELSE Then(OrderBy(p), LAMBDA r :
         Give(r, [p.v EXCEPT !.order = [i \in DOMAIN r.v |-> Resolved(r.v[i], p.v.select)]]))

Rows(p) == IF IsAny(p, {"ROW", "ROWS"}) THEN NextTok(p) ELSE Fail(p)
\* FETCH [NEXT] n ROWS ONLY takes over the limit, TOP's if there was one.
FetchClause(p) ==
  IF ~IsKeyword(p, "FETCH") THEN p
  ELSE LET q == NextTok(p) IN
       Then(IntLit(IF IsAny(q, {"NEXT", "FIRST"}) THEN NextTok(q) ELSE q), LAMBDA n : Then(Rows(n), LAMBDA r :
         Then(ExpectKeyword(r, "ONLY"), LAMBDA e : Give(e, [p.v EXCEPT !.limit = n.v]))))
OffsetClause(p) ==
  IF ~IsKeyword(p, "OFFSET") THEN p
  ELSE Then(IntLit(NextTok(p)), LAMBDA n : Then(Rows(n), LAMBDA r :
         FetchClause(Give(r, [p.v EXCEPT !.offset = n.v]))))

Select(p) ==
  LET list(s) == Then(TopClause(Give(Skip(s, "DISTINCT"), [EmptyQuery EXCEPT !.distinct = IsKeyword(s, "DISTINCT")])),
                      ItemsClause)
      rows(s) == Then(Then(Then(s, FromClause), JoinClauses), WhereClause)
      groups(s) == Then(Then(s, GroupClause), HavingClause)
  IN Then(ExpectKeyword(p, "SELECT"), LAMBDA s :
       Then(Then(groups(rows(list(s))), OrderClause), OffsetClause))

\* WITH name AS ( query ), ...: a name given twice keeps its last query.
Cte(p) ==
  IF Peek(p)[1] # "ident" THEN Fail(p)
  ELSE Then(ExpectKeyword(NextTok(p), "AS"), LAMBDA q :
         Then(Paren(Subquery, q), LAMBDA r : Give(r, Peek(p)[2] :> r.v)))
CteList(p) ==
  Then(SepList(Cte, NextTok(p)), LAMBDA r : Give(r, FoldRight(LAMBDA cte, ctes : ctes @@ cte, r.v, <<>>)))

\* A whole SELECT statement: the common table expressions, the body, and nothing after it.
Statement(p) ==
  Then(IF IsKeyword(p, "WITH") THEN CteList(p) ELSE Give(p, <<>>), LAMBDA ctes :
    Then(Then(Subquery(ctes), OptionClause), LAMBDA r :
      IF AtEnd(r) THEN Give(r, <<"select", ctes.v, r.v>>) ELSE Fail(r)))

Rule(rule, p) ==
  CASE rule = "value" -> Sum(p)
    [] rule = "condition" -> Disjunction(p)
    [] rule = "select" -> Select(p)
    [] rule = "statement" -> Statement(p)

Parse(text) == Rule("statement", Parser(text))
=============================================================================
