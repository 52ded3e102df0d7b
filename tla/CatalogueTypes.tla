---------------------------- MODULE CatalogueTypes ----------------------------
(***************************************************************************)
(* What the program's catalogue reporters call a column type, and how wide *)
(* they say it is: the engine reports a type in four tongues (the names of *)
(* INFORMATION_SCHEMA, the ids of sys.*, the ODBC codes of sp_*, the       *)
(* widths of COL_LENGTH).  A type is a record [kind, decl, len, prec,      *)
(* scale, null]; decl is the base word of a declared T-SQL type ("" if the *)
(* backend declares none), which the reporters prefer over the kind.       *)
(***************************************************************************)
EXTENDS Integers, Sequences

Kinds == {"Unknown", "Bool", "Int32", "Int64", "Float64", "Decimal", "String", "Bytes",
          "Time", "UUID", "Int8", "Int16"}

Narrow == {"char", "varchar", "binary", "varbinary"}
Wide   == {"nchar", "nvarchar"}

(* f[x], or other when f is not defined at x *)
Lookup(f, x, other) == IF x \in DOMAIN f THEN f[x] ELSE other

(* INFORMATION_SCHEMA's DATA_TYPE *)
KindName == [Bool |-> "bit", Int32 |-> "int", Int64 |-> "bigint", Float64 |-> "float",
             Decimal |-> "decimal", String |-> "nvarchar", Bytes |-> "varbinary",
             Time |-> "datetime2", UUID |-> "uniqueidentifier"]

TypeName(t) == IF t.decl # "" THEN t.decl ELSE Lookup(KindName, t.kind, "sql_variant")

(* sys.columns' system_type_id *)
KindId == [Bool |-> 104, Int32 |-> 56, Int64 |-> 127, Float64 |-> 62, Decimal |-> 106,
           String |-> 231, Bytes |-> 165, Time |-> 42, UUID |-> 36]

DeclId == [bit |-> 104, tinyint |-> 48, smallint |-> 52, int |-> 56, integer |-> 56,
           bigint |-> 127, decimal |-> 106, dec |-> 106, numeric |-> 108, float |-> 62,
           real |-> 59, money |-> 60, smallmoney |-> 122, date |-> 40, time |-> 41,
           datetime |-> 61, datetime2 |-> 42, char |-> 175, varchar |-> 167, nchar |-> 239,
           nvarchar |-> 231, text |-> 35, ntext |-> 99, binary |-> 173, varbinary |-> 165,
           uniqueidentifier |-> 36, xml |-> 241]

SysTypeIdByName(decl) == Lookup(DeclId, decl, 231)

SysTypeId(t) == IF t.decl # "" THEN SysTypeIdByName(t.decl) ELSE Lookup(KindId, t.kind, 231)

(* TYPE_NAME and TYPE_ID *)
SysTypeNames ==
  {<<"image", 34>>, <<"text", 35>>, <<"uniqueidentifier", 36>>, <<"date", 40>>, <<"time", 41>>,
   <<"datetime2", 42>>, <<"tinyint", 48>>, <<"smallint", 52>>, <<"int", 56>>, <<"real", 59>>,
   <<"money", 60>>, <<"datetime", 61>>, <<"float", 62>>, <<"sql_variant", 98>>, <<"ntext", 99>>,
   <<"bit", 104>>, <<"decimal", 106>>, <<"numeric", 108>>, <<"smallmoney", 122>>,
   <<"bigint", 127>>, <<"varbinary", 165>>, <<"varchar", 167>>, <<"binary", 173>>,
   <<"char", 175>>, <<"nvarchar", 231>>, <<"nchar", 239>>, <<"xml", 241>>}

(* sys.types: name, id, width *)
TypesRows ==
  {[name |-> x[1], user_type_id |-> x[2], max_length |-> x[3]] : x \in
    {<<"bit", 104, 1>>, <<"tinyint", 48, 1>>, <<"smallint", 52, 2>>, <<"int", 56, 4>>,
     <<"bigint", 127, 8>>, <<"decimal", 106, 17>>, <<"numeric", 108, 17>>, <<"float", 62, 8>>,
     <<"real", 59, 4>>, <<"date", 40, 3>>, <<"time", 41, 5>>, <<"datetime", 61, 8>>,
     <<"datetime2", 42, 8>>, <<"char", 175, -1>>, <<"varchar", 167, -1>>, <<"nchar", 239, -1>>,
     <<"nvarchar", 231, -1>>, <<"binary", 173, -1>>, <<"varbinary", 165, -1>>,
     <<"uniqueidentifier", 36, 16>>}}

(* the width of an unbounded type is -1 *)
OrMax(n) == IF n > 0 THEN n ELSE -1

KindLen == [Bool |-> 1, Int32 |-> 4, Int64 |-> 8, Float64 |-> 8, Time |-> 8, UUID |-> 16,
            Decimal |-> 17]

DeclLen == [bit |-> 1, tinyint |-> 1, smallint |-> 2, int |-> 4, bigint |-> 8, float |-> 8,
            money |-> 8, datetime |-> 8, datetime2 |-> 8, real |-> 4, smallmoney |-> 4,
            smalldatetime |-> 4, decimal |-> 17, numeric |-> 17, date |-> 3, time |-> 5,
            datetimeoffset |-> 10, text |-> 16, ntext |-> 16, image |-> 16,
            uniqueidentifier |-> 16, xml |-> -1]

(* COL_LENGTH *)
ColByteLen(t) ==
  CASE t.kind = "String" -> OrMax(2 * t.len)
    [] t.kind = "Bytes"  -> OrMax(t.len)
    [] OTHER             -> Lookup(KindLen, t.kind, -1)

(* sys.columns' max_length *)
SysTypeLen(t) ==
  CASE t.decl \in Narrow -> OrMax(t.len)
    [] t.decl \in Wide   -> OrMax(2 * t.len)
    [] OTHER             -> Lookup(DeclLen, t.decl, ColByteLen(t))

(* INFORMATION_SCHEMA's lengths and precisions; Null is 0 *)
CharLen(t)  == IF t.kind \in {"String", "Bytes"} THEN t.len ELSE 0
NumPrec(t)  == IF t.kind = "Decimal" THEN t.prec ELSE 0
NumScale(t) == IF t.kind = "Decimal" THEN t.scale ELSE 0

(* the ODBC code of sp_columns *)
OdbcKind == [Bool |-> -7, Int32 |-> 4, Int64 |-> -5, Float64 |-> 8, Decimal |-> 3, Bytes |-> -3,
             Time |-> 93, UUID |-> -11]

OdbcDecl == [bit |-> -7, tinyint |-> -6, smallint |-> 5, int |-> 4, bigint |-> -5, real |-> 7,
             float |-> 8, decimal |-> 3, money |-> 3, smallmoney |-> 3, numeric |-> 2, char |-> 1,
             varchar |-> 12, nchar |-> -8, nvarchar |-> -9, binary |-> -2, varbinary |-> -3,
             uniqueidentifier |-> -11, date |-> 91, time |-> 92, datetime |-> 93,
             smalldatetime |-> 93, datetime2 |-> 93, datetimeoffset |-> -155, text |-> -1,
             ntext |-> -10, image |-> -4, xml |-> -152]

OdbcType(t) == Lookup(OdbcDecl, t.decl, Lookup(OdbcKind, t.kind, -9))

(* sp_datatype_info: name, ODBC code, precision, sys.types id *)
DatatypeInfo ==
  {<<"bit", -7, 1, 104>>, <<"tinyint", -6, 3, 48>>, <<"smallint", 5, 5, 52>>, <<"int", 4, 10, 56>>,
   <<"bigint", -5, 19, 127>>, <<"real", 7, 24, 59>>, <<"float", 8, 53, 62>>,
   <<"decimal", 3, 38, 106>>, <<"numeric", 2, 38, 108>>, <<"money", 3, 19, 60>>,
   <<"char", 1, 8000, 175>>, <<"varchar", 12, 8000, 167>>, <<"nchar", -8, 4000, 239>>,
   <<"nvarchar", -9, 4000, 231>>, <<"binary", -2, 8000, 173>>, <<"varbinary", -3, 8000, 165>>,
   <<"uniqueidentifier", -11, 36, 36>>, <<"date", 91, 10, 40>>, <<"time", 92, 16, 41>>,
   <<"datetime", 93, 23, 61>>, <<"datetime2", 93, 27, 42>>}

(* sp_columns' PRECISION, LENGTH and CHAR_OCTET_LENGTH; an unbounded or absent one is 0 *)
TypePrecision(t) ==
  CASE t.kind = "Decimal" -> IF t.prec > 0 THEN t.prec ELSE 18
    [] t.kind = "String"  -> t.len
    [] OTHER              -> Lookup([Int32 |-> 10, Int64 |-> 19, Float64 |-> 53], t.kind, 0)

TypeLength(t) ==
  CASE t.decl \in Narrow -> t.len
    [] t.decl \in Wide   -> 2 * t.len
    [] t.decl \in {"tinyint", "smallint", "bigint", "real"} -> DeclLen[t.decl]
    [] t.kind \in {"Int32", "Int64", "Float64", "Bool"} -> KindLen[t.kind]
    [] t.kind = "String" -> 2 * t.len
    [] OTHER -> TypePrecision(t)

CharOctetLen(t) ==
  CASE t.decl \in {"char", "varchar"}          -> t.len
    [] t.decl \in Wide \/ t.kind = "String"    -> 2 * t.len
    [] OTHER                                   -> 0

(* the value model of a declared parameter type: its kind and length *)
DeclKind == [bit |-> "Bool", tinyint |-> "Int32", smallint |-> "Int32", int |-> "Int32",
             integer |-> "Int32", bigint |-> "Int64", real |-> "Float64", float |-> "Float64",
             decimal |-> "Decimal", dec |-> "Decimal", numeric |-> "Decimal", money |-> "Decimal",
             smallmoney |-> "Decimal", date |-> "Time", time |-> "Time", datetime |-> "Time",
             datetime2 |-> "Time", smalldatetime |-> "Time", uniqueidentifier |-> "UUID",
             binary |-> "Bytes", varbinary |-> "Bytes", image |-> "Bytes"]

DeclType(p) ==   \* p: the base word of a parameter's type and the numbers in its parentheses
  LET kind == Lookup(DeclKind, p.decl, "String") IN
  [kind |-> kind, decl |-> "", null |-> FALSE,
   len   |-> IF kind # "Decimal" THEN p.len ELSE 0,
   prec  |-> IF kind = "Decimal" THEN p.prec ELSE 0,
   scale |-> IF kind = "Decimal" THEN p.scale ELSE 0]
=============================================================================
