------------------------------- MODULE Tokens -------------------------------
(***************************************************************************)
(* The tokens of a statement and the parser's cursor over them             *)
(* (internal/tsql/lexer.go, parser.go).  The characters are abstracted: a  *)
(* token is its kind and its text, in one case, a number its value.        *)
(*                                                                         *)
(* A parser p is [toks, pos, v]: the tokens up to the end marker, the      *)
(* position, and v, what the last parse function returned.  A parse        *)
(* function takes a parser and gives one; position 0 is a returned error,  *)
(* and Then is the `if err != nil { return }` after each call.             *)
(***************************************************************************)
EXTENDS Integers, Sequences, FiniteSetsExt

Ident(word) == <<"ident", word>>
Keyword(word) == <<"keyword", word>>
Number(n) == <<"number", n>>
String(s) == <<"string", s>>
Op(sign) == <<"op", sign>>
Star == <<"star", "*">>
Comma == <<"comma", ",">>
Dot == <<"dot", ".">>
Colon == <<"colon", ":">>
LParen == <<"lparen", "(">>
RParen == <<"rparen", ")">>
EOF == <<"eof", "">>

\* lexer.go's keywords, and those that are names wherever no clause wants them.
NonReserved == {"FIRST", "NEXT", "ROW", "ROWS", "ONLY", "OFFSET", "FETCH", "ADD", "COLUMN", "APPLY",
                "PIVOT", "UNPIVOT", "TABLESAMPLE"}
Keywords == NonReserved \cup
  {"SELECT", "WITH", "DISTINCT", "TOP", "PERCENT", "FROM", "WHERE", "GROUP", "HAVING", "ORDER", "BY",
   "ASC", "DESC", "AS", "AND", "OR", "NOT", "IN", "LIKE", "EXISTS", "IS", "NULL", "BETWEEN", "JOIN",
   "INNER", "LEFT", "RIGHT", "FULL", "OUTER", "CROSS", "ON", "CASE", "WHEN", "THEN", "ELSE", "END",
   "UNION", "ALL", "INTERSECT", "EXCEPT", "INSERT", "INTO", "VALUES", "UPDATE", "SET", "DELETE",
   "CREATE", "DROP", "TABLE", "DATABASE", "ALTER"}

\* The aggregates, and the other functions with a syntax of their own.
AggNames == {"COUNT", "SUM", "AVG", "MIN", "MAX", "COUNT_BIG", "STDEV", "STDEVP", "VAR", "VARP",
             "STRING_AGG", "CHECKSUM_AGG", "APPROX_COUNT_DISTINCT"}
DatePartFuncs == {"DATEADD", "DATEDIFF", "DATEDIFF_BIG", "DATEPART", "DATENAME", "DATETRUNC"}
CastFuncs == {"CAST", "TRY_CAST", "PARSE", "TRY_PARSE"}
ConvertFuncs == {"CONVERT", "TRY_CONVERT"}
SpecialFuncs == CastFuncs \cup ConvertFuncs \cup {"IIF"}
Globals == {"@@ROWCOUNT"}

\* The token the lexer makes of a word.
Word(word) == IF word \in Keywords THEN Keyword(word) ELSE Ident(word)

Parser(text) == [toks |-> Append(text, EOF), pos |-> 1, v |-> <<>>]

Failed(p) == p.pos = 0
Fail(p) == [p EXCEPT !.pos = 0]
Give(p, value) == [p EXCEPT !.v = value]

\* The rest of a parse function after a call that may have returned an error.
Then(p, Rest(_)) == IF Failed(p) THEN p ELSE Rest(p)

Peek(p) == p.toks[p.pos]
PeekN(p, n) == p.toks[Min({p.pos + n, Len(p.toks)})]

\* The last token, the end marker, is never passed.
NextTok(p) == [p EXCEPT !.pos = Min({@ + 1, Len(p.toks)})]

AtEnd(p) == Peek(p) = EOF
IsKeyword(p, word) == Peek(p) = Keyword(word)
IsAny(p, words) == Peek(p)[1] = "keyword" /\ Peek(p)[2] \in words

\* A word whether the lexer knows it as a keyword or not.
PeekIs(p, word) == Peek(p) \in {Ident(word), Keyword(word)}
IsWord(t) == t[1] \in {"ident", "keyword"}

\* Usable as a name: an identifier or a keyword that is not reserved.
IdentLike(p) == Peek(p)[1] = "ident" \/ IsAny(p, NonReserved)

\* One required token, a required word, and an optional one.
Expect(p, token) == IF Peek(p) = token THEN NextTok(p) ELSE Fail(p)
ExpectKeyword(p, word) == Expect(p, Keyword(word))
Skip(p, word) == IF IsKeyword(p, word) THEN NextTok(p) ELSE p

\* A comma-separated list of what Item reads.
SepList(Item(_), p) ==
  LET RECURSIVE More(_, _)
      More(q, items) ==
        Then(Item(q), LAMBDA r :
          IF Peek(r) = Comma THEN More(NextTok(r), Append(items, r.v))
                             ELSE Give(r, Append(items, r.v)))
  IN More(p, <<>>)

\* What Item reads, and the closing parenthesis after it.
Closed(Item(_), p) == Then(Item(p), LAMBDA r : Expect(r, RParen))

\* ( what Item reads )
Paren(Item(_), p) == Then(Expect(p, LParen), LAMBDA r : Closed(Item, r))

\* The parts of a dotted name; a dot with no name after it is eaten.
RECURSIVE MoreParts(_, _)
MoreParts(p, parts) ==
  IF Peek(p) # Dot THEN Give(p, parts)
  ELSE IF ~IdentLike(NextTok(p)) THEN Give(NextTok(p), parts)
  ELSE MoreParts(NextTok(NextTok(p)), Append(parts, PeekN(p, 1)[2]))
QualifiedName(p) ==
  IF IdentLike(p) THEN MoreParts(NextTok(p), <<Peek(p)[2]>>) ELSE Fail(p)

IdentList(p) == SepList(QualifiedName, p)

\* database.schema.table: the last three parts, and here the dot needs a name.
TableName(p) ==
  Then(QualifiedName(p), LAMBDA r :
    IF r.toks[r.pos - 1] = Dot THEN Fail(r)
    ELSE Give(r, SubSeq(r.v, Max({1, Len(r.v) - 2}), Len(r.v))))

\* A table's alias, "" for none: PIVOT, UNPIVOT, TABLESAMPLE and APPLY name one only after AS.
TableClauseWords == {"PIVOT", "UNPIVOT", "TABLESAMPLE", "APPLY"}
OptTableAlias(p) ==
  LET as == IsKeyword(p, "AS")
      q == Skip(p, "AS")
  IN IF IdentLike(q) /\ (as \/ ~IsAny(q, TableClauseWords)) THEN Give(NextTok(q), Peek(q)[2])
     ELSE Give(q, "")

\* alias (column, column ...): commas and the closing parenthesis are optional.
RECURSIVE AliasCols(_, _)
AliasCols(p, cols) ==
  IF IdentLike(p)
  THEN LET q == NextTok(p) IN AliasCols(IF Peek(q) = Comma THEN NextTok(q) ELSE q, Append(cols, Peek(p)[2]))
  ELSE Give(IF Peek(p) = RParen THEN NextTok(p) ELSE p, cols)
AliasWithCols(p) ==
  Then(OptTableAlias(p), LAMBDA r :
    IF Peek(r) # LParen THEN Give(r, <<r.v, <<>>>>)
    ELSE Then(AliasCols(NextTok(r), <<>>), LAMBDA c : Give(c, <<r.v, c.v>>)))

\* An output column's alias, which after AS may be a string.
OptAlias(p) ==
  LET q == Skip(p, "AS")
  IN IF IdentLike(q) \/ (IsKeyword(p, "AS") /\ Peek(q)[1] = "string") THEN Give(NextTok(q), Peek(q)[2])
     ELSE Give(q, "")

\* The parenthesis that closes the one at position i, or 0: what aggIsOperand and skipParenGroup count to.
Depth(toks, i, j) == Cardinality({k \in i..j : toks[k] = LParen}) - Cardinality({k \in i..j : toks[k] = RParen})
Closing(toks, i) ==
  LET closes == {j \in i..Len(toks) : Depth(toks, i, j) = 0}
  IN IF closes = {} THEN 0 ELSE Min(closes)
SkipParenGroup(p) ==
  IF Peek(p) # LParen \/ Closing(p.toks, p.pos) = 0 THEN Fail(p)
  ELSE [p EXCEPT !.pos = Closing(p.toks, p.pos) + 1]

\* TABLESAMPLE and WITH (...) after a table source are read and discarded.
RECURSIVE TableHints(_)
TableHints(p) ==
  IF PeekIs(p, "TABLESAMPLE")
  THEN Then(SkipParenGroup(IF PeekIs(NextTok(p), "SYSTEM") THEN NextTok(NextTok(p)) ELSE NextTok(p)), LAMBDA r :
         Then(IF PeekIs(r, "REPEATABLE") THEN SkipParenGroup(NextTok(r)) ELSE r, TableHints))
  ELSE IF IsKeyword(p, "WITH") /\ PeekN(p, 1) = LParen
  THEN Then(SkipParenGroup(NextTok(p)), TableHints)
  ELSE p

\* A trailing OPTION (...) is read and discarded.
OptionClause(p) ==
  IF PeekIs(p, "OPTION") /\ PeekN(p, 1) = LParen THEN SkipParenGroup(NextTok(p)) ELSE p

\* COLLATE name: gives whether the collation is case-sensitive.
CaseSensitive(collation) == collation = "CS_AS"
OptCollate(p) ==
  IF ~PeekIs(p, "COLLATE") THEN Give(p, FALSE)
  ELSE IF ~IsWord(PeekN(p, 1)) THEN Fail(p)
  ELSE Give(NextTok(NextTok(p)), CaseSensitive(PeekN(p, 1)[2]))

\* A literal, kept as its token; NULL is the keyword.
Literal(p) ==
  IF IsKeyword(p, "NULL") \/ Peek(p)[1] \in {"string", "number"} THEN Give(NextTok(p), Peek(p)) ELSE Fail(p)
IntLit(p) == IF Peek(p)[1] = "number" THEN Give(NextTok(p), Peek(p)[2]) ELSE Fail(p)

\* A type and its length or scale, with the default CAST gives: anything else in its parentheses is passed over.
ScaledType == {"TIME", "DATETIME2", "DATETIMEOFFSET"}
SizedType == {"CHAR", "VARCHAR", "NCHAR", "NVARCHAR", "BINARY", "VARBINARY"}
DefaultLength(type) == IF type \in ScaledType THEN 7 ELSE IF type \in SizedType THEN 30 ELSE 0
CastType(p) ==
  LET type == Peek(p)[2]
      q == NextTok(p)
      inside == NextTok(q)
      given == IF type \in ScaledType \cup SizedType /\ Peek(inside)[1] = "number" THEN Peek(inside)[2] ELSE 0
      ends == {i \in inside.pos..Len(p.toks) : p.toks[i] \in {RParen, EOF}}
      end == [inside EXCEPT !.pos = Min(ends)]
  IN IF ~IsWord(Peek(p)) THEN Fail(p)
     ELSE IF Peek(q) # LParen THEN Give(q, <<type, DefaultLength(type)>>)
     ELSE Give(IF AtEnd(end) THEN end ELSE NextTok(end), <<type, given>>)
=============================================================================
