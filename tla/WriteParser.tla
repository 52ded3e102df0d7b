---------------------------- MODULE WriteParser ----------------------------
(***************************************************************************)
(* The parser of INSERT, UPDATE, DELETE, CREATE, DROP and ALTER            *)
(* (internal/tsql/write.go), and which of the two parsers a statement      *)
(* meets (engine.go).  Only literals are assigned and compared; WHERE is a *)
(* conjunction of comparisons <<column, op, literal, caseSensitive>>, and  *)
(* an empty one means every row.                                           *)
(***************************************************************************)
EXTENDS SelectParser

Kinds == ("INT" :> "int32") @@ ("INTEGER" :> "int32") @@ ("SMALLINT" :> "int32") @@ ("TINYINT" :> "int32")
  @@ ("BIGINT" :> "int64") @@ ("BIT" :> "bool") @@ ("FLOAT" :> "float64") @@ ("REAL" :> "float64")
  @@ ("DECIMAL" :> "decimal") @@ ("NUMERIC" :> "decimal") @@ ("MONEY" :> "decimal") @@ ("DATE" :> "time")
  @@ ("DATETIME" :> "time") @@ ("DATETIME2" :> "time") @@ ("TIME" :> "time")
  @@ ("UNIQUEIDENTIFIER" :> "uuid") @@ ("VARBINARY" :> "bytes") @@ ("BINARY" :> "bytes")
SqlTypeToKind(type) == IF type \in DOMAIN Kinds THEN Kinds[type] ELSE "string"

\* column op literal AND ...
Comparison(p) ==
  Then(GroupIdent(p), LAMBDA left :
    IF ~IsOp(left, Comparisons) THEN Fail(left)
    ELSE Then(Literal(NextTok(left)), LAMBDA value : Then(OptCollate(value), LAMBDA c :
           Give(c, <<left.v[1], Peek(left)[2], value.v, left.v[2] \/ c.v>>))))
RECURSIVE SimpleWhere(_, _)
SimpleWhere(p, preds) ==
  Then(Comparison(p), LAMBDA r :
    IF IsKeyword(r, "AND") THEN SimpleWhere(NextTok(r), Append(preds, r.v)) ELSE Give(r, Append(preds, r.v)))
OptWhere(p) == IF IsKeyword(p, "WHERE") THEN SimpleWhere(NextTok(p), <<>>) ELSE Give(p, <<>>)

LiteralList(p) == SepList(Literal, p)
ParseInsert(p) ==
  Then(TableName(Skip(NextTok(p), "INTO")), LAMBDA table :
    Then(IF Peek(table) = LParen THEN Paren(IdentList, table) ELSE Give(table, <<>>), LAMBDA cols :
      Then(ExpectKeyword(cols, "VALUES"), LAMBDA q :
        Then(SepList(LAMBDA r : Paren(LiteralList, r), q), LAMBDA rows :
          Give(rows, <<"insert", table.v, cols.v, rows.v>>)))))

Assignment(p) ==
  Then(QualifiedName(p), LAMBDA col : Then(Expect(col, Op("=")), LAMBDA q :
    Then(Literal(q), LAMBDA value : Give(value, <<col.v, value.v>>))))
\* The hints of UPDATE and DELETE are consumed, or the WHERE after them would go unseen.
ParseUpdate(p) ==
  Then(Then(TableName(NextTok(p)), TableHints), LAMBDA table :
    Then(ExpectKeyword(table, "SET"), LAMBDA q : Then(SepList(Assignment, q), LAMBDA set :
      Then(OptWhere(set), LAMBDA where : Give(where, <<"update", table.v, set.v, where.v>>)))))
ParseDelete(p) ==
  Then(ExpectKeyword(NextTok(p), "FROM"), LAMBDA q :
    Then(Then(TableName(q), TableHints), LAMBDA table :
      Then(OptWhere(table), LAMBDA where : Give(where, <<"delete", table.v, where.v>>))))

\* What follows a column's type, to the comma or parenthesis: only the last of
\* NULL and NOT NULL counts, in whatever token the word is.
Says(p, word) == Peek(p)[1] # "number" /\ Peek(p)[2] = word
RECURSIVE ColumnConstraints(_, _)
ColumnConstraints(p, nullable) ==
  LET q == NextTok(p)
      group == IF Closing(p.toks, p.pos) = 0 THEN [p EXCEPT !.pos = Len(p.toks)] ELSE SkipParenGroup(p)
  IN CASE Peek(p) \in {Comma, RParen, EOF} -> Give(p, nullable)
       [] Peek(p) = LParen -> ColumnConstraints(group, nullable)
       [] Says(p, "NOT") -> ColumnConstraints(IF Says(q, "NULL") THEN NextTok(q) ELSE q, FALSE)
       [] Says(p, "NULL") -> ColumnConstraints(q, TRUE)
       [] Says(p, "COLLATE") -> ColumnConstraints(NextTok(q), nullable)
       [] OTHER -> ColumnConstraints(q, nullable)

\* column type, which a column of CREATE TABLE has constraints after.
TypedColumn(p) ==
  Then(QualifiedName(p), LAMBDA col : Then(CastType(col), LAMBDA type :
    Give(type, <<col.v, SqlTypeToKind(type.v[1])>>)))
ColumnDef(p) ==
  Then(TypedColumn(p), LAMBDA col : Then(ColumnConstraints(col, FALSE), LAMBDA r : Give(r, Append(col.v, r.v))))

\* A table is created, altered or dropped by the last part of its name.
BareTable(p) == Then(TableName(p), LAMBDA r : Give(r, Last(r.v)))
ParseTableDef(p) ==
  Then(BareTable(p), LAMBDA name : Then(Paren(LAMBDA q : SepList(ColumnDef, q), name), LAMBDA cols :
    Give(cols, <<"create table", name.v, cols.v>>)))
ParseAlter(p) ==
  Then(BareTable(p), LAMBDA name :
    LET q == Skip(NextTok(name), "COLUMN") IN
    CASE IsKeyword(name, "ADD") ->
           Then(SepList(TypedColumn, q), LAMBDA cols : Give(cols, <<"alter", name.v, cols.v, <<>>>>))
      [] IsKeyword(name, "DROP") ->
           Then(IdentList(q), LAMBDA cols : Give(cols, <<"alter", name.v, <<>>, cols.v>>))
      [] OTHER -> Fail(name))

\* CREATE DATABASE and DROP DATABASE do without a name.
DatabaseName(p, what) ==
  LET r == QualifiedName(p) IN IF Failed(r) THEN Give(p, <<what, <<>>>>) ELSE Give(r, <<what, r.v>>)
ParseCreate(p) ==
  CASE IsKeyword(p, "TABLE") -> ParseTableDef(NextTok(p))
    [] IsKeyword(p, "DATABASE") -> DatabaseName(NextTok(p), "create database")
    [] OTHER -> Fail(p)
ParseDrop(p) ==
  CASE IsKeyword(p, "TABLE") -> Then(BareTable(NextTok(p)), LAMBDA r : Give(r, <<"drop table", r.v>>))
    [] IsKeyword(p, "DATABASE") -> DatabaseName(NextTok(p), "drop database")
    [] OTHER -> Fail(p)

WriteWords == {"INSERT", "UPDATE", "DELETE", "CREATE", "DROP", "ALTER"}
WriteStmt(p) ==
  CASE IsKeyword(p, "INSERT") -> ParseInsert(p)
    [] IsKeyword(p, "UPDATE") -> ParseUpdate(p)
    [] IsKeyword(p, "DELETE") -> ParseDelete(p)
    [] IsKeyword(p, "CREATE") -> ParseCreate(NextTok(p))
    [] IsKeyword(p, "DROP") -> ParseDrop(NextTok(p))
    [] IsKeyword(p, "ALTER") -> Then(ExpectKeyword(NextTok(p), "TABLE"), ParseAlter)

(* A bug: what follows the statement is not looked at. *)
BugParseWrite(text) == WriteStmt(Parser(text))
\* A write that leaves tokens unread is refused: what it did not understand might have been its WHERE.
ParseWrite(text) == Then(WriteStmt(Parser(text)), LAMBDA r : IF AtEnd(r) THEN r ELSE Fail(r))

Refused == <<"refused">>
Verdict(p) == IF Failed(p) THEN Refused ELSE p.v
\* What the engine understands a statement to mean: a write, else a SELECT.
Understand(text) ==
  Verdict(IF IsAny(Parser(text), WriteWords) THEN ParseWrite(text) ELSE Parse(text))
=============================================================================
