---------------------------- MODULE CatalogueProcs ----------------------------
(***************************************************************************)
(* The built-in procedures over the catalogue (sp_tables, sp_pkeys, ...):  *)
(* how a call's arguments are found, and the rows each procedure makes of  *)
(* a description d of the database q it asks about.  An argument is a      *)
(* record [name, val]; name is "" for a positional one and val is a name,  *)
(* <<>> when the call leaves it out or says NULL.                          *)
(***************************************************************************)
EXTENDS CatalogueViews

(* ---- arguments ---- *)
Arg(args, name, pos) ==        \* by name, else by place among the positional ones (from 0)
  LET named == SelectSeq(args, LAMBDA a : a.name # "" /\ Lc(a.name) = name)
      plain == SelectSeq(args, LAMBDA a : a.name = "")
  IN IF named # <<>> THEN Head(named).val
     ELSE IF pos + 1 <= Len(plain) THEN plain[pos + 1].val ELSE <<>>

Word(n) == IF n = <<>> THEN "" ELSE Head(n)   \* of a database name, which is one word

DefaultQualifier(explicit, current) == IF explicit # "" THEN explicit ELSE current

IsSystemDb(db) == Lc(db) \in DOMAIN SystemDb

CatOf(t, fallback) == IF t.catalog # "" THEN t.catalog ELSE fallback

(* LIKE over words: "%" is any run of them, "_" is any one *)
LikeMatch(s, pat) ==
  LET from[j \in 1..(Len(pat) + 1)] ==     \* the places of s from which it is like pat from j on
        IF j > Len(pat) THEN {Len(s) + 1}
        ELSE IF pat[j] = "%" THEN {i \in 1..(Len(s) + 1) : \E k \in from[j + 1] : i <= k}
        ELSE {i \in 1..Len(s) : pat[j] \in {"_", s[i]} /\ i + 1 \in from[j + 1]}
  IN 1 \in from[1]

MatchLike(n, pat) == pat = <<>> \/ LikeMatch(Folded(n), Folded(pat))

(* ---- sp_executesql: the statement is a sequence of tokens, each a sequence of characters ---- *)
SqlLiteral(v) == IF v = <<>> THEN <<"NULL">> ELSE <<"'">> \o v \o <<"'">>

Replaced(stmt, name, lit) ==   \* every occurrence, wherever it stands
  LET at[i \in 1..(Len(stmt) + 1)] ==
        IF i > Len(stmt) THEN <<>>
        ELSE IF i + Len(name) - 1 <= Len(stmt) /\ SubSeq(stmt, i, i + Len(name) - 1) = name
             THEN lit \o (IF i + Len(name) > Len(stmt) THEN <<>> ELSE at[i + Len(name)])
             ELSE <<stmt[i]>> \o at[i + 1]
  IN at[1]

SpExecuteSql(stmt, bindings) ==   \* the longest name first; what one put in, the next may rewrite
  LET order == SortSeq(bindings, LAMBDA x, y : Len(x.name) > Len(y.name))
      done[k \in 0..Len(order)] ==
        IF k = 0 THEN stmt ELSE Replaced(done[k - 1], order[k].name, SqlLiteral(order[k].val))
  IN done[Len(order)]

(* ---- what they look up in the description ---- *)
FindTable(d, n) ==             \* at most one: the first of that name in any case
  {t \in Tables(d) : \E i \in DOMAIN d.tables :
     /\ n # <<>> /\ d.tables[i] = t /\ EqualFold(t.name, n)
     /\ \A j \in 1..(i - 1) : ~EqualFold(d.tables[j].name, n)}

ColDef(t, c) == {t.columns[i] : i \in {ColId(t, c)} \ {0}}

(* ---- databases and tables ---- *)
SpDatabases(d) == {[DATABASE_NAME |-> n] : n \in ToSet(d.dbs)}

SpHelpdb(d) ==                 \* numbered as they come, the system's four first
  {[name |-> s, dbid |-> SystemDb[s]] : s \in DOMAIN SystemDb} \cup
  {[name |-> d.dbs[i], dbid |-> 4 + i] : i \in DOMAIN d.dbs}

SpTables(d, q, pat) ==
  {[TABLE_QUALIFIER |-> CatOf(t, q), TABLE_NAME |-> t.name] :
     t \in {u \in Tables(d) : ~IsSystemDb(q) /\ MatchLike(u.name, pat)}}

SpColumns(d, q, n, pat) ==
  {[TABLE_QUALIFIER |-> CatOf(x.t, q), TABLE_NAME |-> x.t.name, COLUMN_NAME |-> x.c.name,
    DATA_TYPE |-> OdbcType(x.c.type), TYPE_NAME |-> TypeName(x.c.type),
    PRECISION |-> TypePrecision(x.c.type), LENGTH |-> TypeLength(x.c.type),
    SCALE |-> NumScale(x.c.type), CHAR_OCTET_LENGTH |-> CharOctetLen(x.c.type),
    ORDINAL_POSITION |-> x.i, IS_NULLABLE |-> x.c.type.null] :
     x \in {y \in Columns(d) : /\ ~IsSystemDb(q) /\ EqualFold(y.t.name, n)
                               /\ MatchLike(<<y.c.name>>, pat)}}

(* ---- one object ---- *)
RoutineTypeLabel == [proc |-> "stored procedure", func |-> "scalar function", trigger |-> "trigger",
                     view |-> "view"]

Named(rs, n) == {r \in rs : n # <<>> /\ EqualFold(r.name, n)}

SpHelptext(d, n) == {ScriptDefinition(r) : r \in Named(ToSet(d.rts), n)}

SpHelp(d, n) ==                \* a routine hides a table of the same name
  IF Named(ToSet(d.rts), n) # {}
  THEN {[Name |-> r.name, Type |-> RoutineTypeLabel[r.kind]] : r \in Named(ToSet(d.rts), n)}
  ELSE {[Name |-> t.name, Type |-> "user table"] : t \in FindTable(d, n)}

SpHelpList(d) ==
  {[Name |-> t.name, Type |-> "user table"] : t \in Tables(d)} \cup
  {[Name |-> r.name, Type |-> RoutineTypeLabel[r.kind]] : r \in ToSet(d.rts)}

(* ---- keys, indexes, constraints ---- *)
SpPkeys(d, q, n) ==
  UNION {{[TABLE_QUALIFIER |-> CatOf(t, q), TABLE_NAME |-> t.name, COLUMN_NAME |-> t.key[i], KEY_SEQ |-> i,
           PK_NAME |-> PkName(t.name)] : i \in DOMAIN t.key} : t \in FindTable(d, n)}

SpFkeys(d, pk, fk) ==          \* <<>> for either name: any table
  UNION {{[PKTABLE_NAME |-> x.fk.ref,
           PKCOLUMN_NAME |-> IF k <= Len(x.fk.refCols) THEN x.fk.refCols[k] ELSE "",
           FKTABLE_NAME |-> x.t.name, FKCOLUMN_NAME |-> x.fk.cols[k], KEY_SEQ |-> k,
           FK_NAME |-> FkName(x.t, x.fk), PK_NAME |-> PkName(x.fk.ref)] : k \in DOMAIN x.fk.cols} :
         x \in {y \in ToSet(ForeignKeys(d)) : fk = <<>> \/ EqualFold(y.t.name, fk)}
             \cap {y \in ToSet(ForeignKeys(d)) : pk = <<>> \/ EqualFold(y.fk.ref, pk)}}

BugSpStatistics(d, q, n) ==    \* the declared indexes alone
  UNION {UNION {{[TABLE_QUALIFIER |-> CatOf(t, q), TABLE_NAME |-> t.name, NON_UNIQUE |-> ~ix.unique,
                  INDEX_NAME |-> ix.name, TYPE |-> IF ix.clustered THEN 1 ELSE 3, SEQ_IN_INDEX |-> k,
                  COLUMN_NAME |-> ix.cols[k]] : k \in DOMAIN ix.cols} :
                ix \in ToSet(t.indexes)} : t \in FindTable(d, n)}
SpStatistics(d, q, n) ==
  UNION {UNION {{[TABLE_QUALIFIER |-> CatOf(t, q), TABLE_NAME |-> t.name, NON_UNIQUE |-> ~ix.unique,
                  INDEX_NAME |-> ix.name, TYPE |-> IF ix.clustered THEN 1 ELSE 3, SEQ_IN_INDEX |-> k,
                  COLUMN_NAME |-> ix.cols[k]] : k \in DOMAIN ix.cols} :
                ix \in ToSet(TableIndexes(t))} : t \in FindTable(d, n)}

SpSpecialColumns(d, n) ==      \* the key's columns that the table has
  UNION {UNION {{[COLUMN_NAME |-> k, DATA_TYPE |-> OdbcType(c.type), TYPE_NAME |-> TypeName(c.type),
                  LENGTH |-> TypeLength(c.type)] : c \in ColDef(t, k)} : k \in ToSet(t.key)} :
         t \in FindTable(d, n)}

IndexDesc(ix) ==
  {IF ix.clustered THEN "clustered" ELSE "nonclustered"} \cup
  {w \in {"unique"} : ix.unique} \cup {w \in {"primary key"} : ix.primary}

SpHelpindex(d, n) ==
  UNION {{[index_name |-> ix.name, index_description |-> IndexDesc(ix), index_keys |-> ix.cols] :
            ix \in ToSet(TableIndexes(t))} : t \in FindTable(d, n)}

SpHelpconstraint(d, n) ==
  UNION {{[constraint_type |-> "PRIMARY KEY", constraint_name |-> PkName(t.name), keys |-> t.key] :
            x \in {t.key} \ {<<>>}} \cup
         {[constraint_type |-> "FOREIGN KEY", constraint_name |-> FkName(t, fk), keys |-> fk.cols] :
            fk \in ToSet(t.fks)} \cup
         {[constraint_type |-> "CHECK", constraint_name |-> k.name, keys |-> <<>>] : k \in ToSet(t.checks)} \cup
         {[constraint_type |-> "DEFAULT", constraint_name |-> <<"DF">> \o t.name \o <<c.name>>, keys |-> <<c.name>>] :
            c \in {c2 \in ToSet(t.columns) : c2.default}} :
         t \in FindTable(d, n)}

(* ---- routines ---- *)
SpStoredProcedures(d, pat) ==
  {[PROCEDURE_NAME |-> r.name, NUM_INPUT_PARAMS |-> Len(r.params),
    PROCEDURE_TYPE |-> IF r.kind = "func" THEN 2 ELSE 1] :
     r \in {s \in Routines(d, {"proc", "func"}) : MatchLike(s.name, pat)}}

SpSprocColumns(d, n) ==
  UNION {{[PROCEDURE_NAME |-> r.name, COLUMN_NAME |-> p.name, DATA_TYPE |-> OdbcType(DeclType(p)),
           TYPE_NAME |-> TypeName(DeclType(p)), PRECISION |-> TypePrecision(DeclType(p)),
           LENGTH |-> TypeLength(DeclType(p)), SCALE |-> NumScale(DeclType(p))] : p \in ToSet(r.params)} :
         r \in Named(ToSet(d.rts), n)}

SpHelptrigger(d, n) ==         \* <<>>: the triggers of any table
  {[trigger_name |-> r.name] : r \in {s \in Routines(d, {"trigger"}) : n # <<>> => EqualFold(s.on, n)}}

SpDepends(d, n) ==
  UNION {{[name |-> m] : m \in ReferencedNames(r)} : r \in Named(ToSet(d.rts), n)}

(* ---- tables of constants, and the procedures with nothing to tell ---- *)
ServerInfo == {1, 2} \cup (10..20) \cup {22} \cup (100..108) \cup {111}

SpServerInfo(want) == {i \in ServerInfo : want = 0 \/ i = want}

SpDatatypeInfo(want) == {r \in DatatypeInfo : want = 0 \/ r[2] = want}

SpWho(d) == {[spid |-> s] : s \in d.live}

(* the rows of a catalogue procedure called with args in a session whose database is current *)
ProcRows(p, args, current, d) ==
  LET a(name, pos) == Arg(args, name, pos)
      q(name, pos) == DefaultQualifier(Word(a(name, pos)), current)
  IN CASE p = "sp_databases"            -> SpDatabases(d)
       [] p = "sp_helpdb"               -> SpHelpdb(d)
       [] p = "sp_tables"               -> SpTables(d, q("@table_qualifier", 2), a("@table_name", 0))
       [] p \in {"sp_columns", "sp_columns_90"} ->
            SpColumns(d, q("@table_qualifier", 2), a("@table_name", 0), a("@column_name", 3))
       [] p = "sp_helptext"             -> SpHelptext(d, a("@objname", 0))
       [] p = "sp_help"                 -> IF a("@objname", 0) = <<>> THEN SpHelpList(d) ELSE SpHelp(d, a("@objname", 0))
       [] p = "sp_pkeys"                -> SpPkeys(d, q("@table_qualifier", 2), a("@table_name", 0))
       [] p = "sp_fkeys"                -> SpFkeys(d, a("@pktable_name", 0), a("@fktable_name", 3))
       [] p = "sp_statistics"           -> SpStatistics(d, q("@table_qualifier", 2), a("@table_name", 0))
       [] p = "sp_special_columns"      -> SpSpecialColumns(d, a("@table_name", 0))
       [] p = "sp_stored_procedures"    -> SpStoredProcedures(d, a("@procedure_name", 0))
       [] p = "sp_sproc_columns"        -> SpSprocColumns(d, a("@procedure_name", 0))
       [] p = "sp_helpindex"            -> SpHelpindex(d, a("@objname", 0))
       [] p = "sp_helpconstraint"       -> SpHelpconstraint(d, a("@objname", 0))
       [] p = "sp_helptrigger"          -> SpHelptrigger(d, a("@tabname", 0))
       [] p = "sp_depends"              -> SpDepends(d, a("@objname", 0))
       [] p = "sp_who"                  -> SpWho(d)
       [] p = "sp_datatype_info"        -> SpDatatypeInfo(0)
       [] p = "sp_server_info"          -> SpServerInfo(0)
       [] OTHER                         -> {}    \* sp_lock, the privileges
=============================================================================
